CONSTANTS
    SeqMod = 8
    OooCap = 2
    CameraWindow = 4
    MaxAge = 4
    Total = 12
SPECIFICATION FairSpec
INVARIANTS
    DeliveredInOrder
    AckedIsHeld
PROPERTIES
    AllDelivered
