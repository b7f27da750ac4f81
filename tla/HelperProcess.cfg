CONSTANTS
    WriteRounds = 2
    MaxAttempts = 4
SPECIFICATION FairSpec
INVARIANTS
    SentMeansReceived
    AnswersAreAttributed
    StreamIsCalledOff
PROPERTIES
    StopSignalEndsHelper
CHECK_DEADLOCK FALSE
