SPECIFICATION Spec
CONSTANTS
    Kinds = {"amd64", "arm64"}
    Own = "c1"
    Accounts <- MCAccounts
    Passwords <- MCPasswords
    Ports = {p1, p2}
    MaxChanges = 1
    MaxRestarts = 1
INVARIANTS
    RejectedMeansAllRefused
    NoSecretTwice
    NoHelperLeftBehind
    CacheNamesProvenSource
    KnownSourceGoesFirst
    RefusedSourceIsForgotten
PROPERTIES
    StartEnds
