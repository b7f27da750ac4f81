CONSTANTS
    ActiveViewers = {a1, a2, a3}
    PassiveViewers = {}
    NoViewer = NoViewer
    MaxGeneration = 3
    HasStandby = FALSE
    Last = a3
SPECIFICATION LateSpec
PROPERTIES
    DeadHelperEndsViewers
    WaiterResolved
    IdleHelperStops
    ShutdownCompletes
