\* Three connects, each made whenever the caller likes.
CONSTANTS
    MaxStreams = 3
SPECIFICATION FairSpec
CHECK_DEADLOCK FALSE
INVARIANTS
    UnwrapsHold
    OneOutcome
PROPERTIES
    ToldTheTruth
    ConnectEnds
