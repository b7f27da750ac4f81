CONSTANTS
    Cameras = {"A", "B"}
    Fold <- MCFold
    NoValue = NoValue
    Invalid = Invalid
    Failed = Failed
    NoCamera = NoCamera
    Configurations <- MCConfigurations
    Answers <- MCAnswers
    Active = {"live", "picture"}
    Passive = {"rtsp"}
    MaxRestarts = 1
    Slots = {1}
    References = {"", "a", "den"}
    NoEntry = NoEntry
    Scenes <- MCScenes
SPECIFICATION HaSpec
PROPERTIES
    SleepingCameraSleepsOn
CHECK_DEADLOCK FALSE
