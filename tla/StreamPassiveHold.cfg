CONSTANTS
    ActiveViewers = {a1}
    PassiveViewers = {p1}
    NoViewer = NoViewer
    MaxGeneration = 1
    HasStandby = TRUE
    Last = a1
SPECIFICATION FairSpec
PROPERTIES
    IdleHelperStops
