CONSTANTS
    Cameras = {"A", "a", "B"}
    Fold <- MCFold
    NoValue = NoValue
    Invalid = Invalid
    Failed = Failed
    NoCamera = NoCamera
    Configurations <- MCConfigurations
    Answers <- MCAnswers
    Active = {"http"}
    Passive = {"rtsp"}
    MaxRestarts = 1
SPECIFICATION AppSpec
INVARIANTS
    NoHelperOutlivesMain
    AddressReachesOwner
    StartupIsHonest
PROPERTIES
    ShutdownEnds
CHECK_DEADLOCK FALSE
