\* Three ticks after the first; every set of timeouts within them.
CONSTANTS
    MaxTick = 3
SPECIFICATION FairSpec
CHECK_DEADLOCK FALSE
INVARIANTS
    RequestStands
PROPERTIES
    DueIsPolled
    TerminatedEnds
