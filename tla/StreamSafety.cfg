CONSTANTS
    ActiveViewers = {a1, a2}
    PassiveViewers = {p1}
    NoViewer = NoViewer
    MaxGeneration = 2
    HasStandby = TRUE
    Last = a1
SYMMETRY ViewerSymmetry
SPECIFICATION Spec
INVARIANTS
    OneHelper
    ActiveHasHelper
    OpenViewerHasFeed
    NoForeignMedia
    PassiveKept
PROPERTIES
    ImplementsSharedStream
