CONSTANTS
    Kinds = {"rtsp", "raw", "muxed"}
    MaxPipelined = 2
SPECIFICATION FairSpec
INVARIANTS
    Released
PROPERTIES
    DepartureReleases
    EndOfStreamEndsConnection
