\* Two slots, three entries, delays of more than one revolution.
CONSTANTS
    NumSlots = 2
    NumEntries = 3
    MaxDelay = 3
    MaxTick = 4
SPECIFICATION Spec
CHECK_DEADLOCK FALSE
INVARIANTS
    WheelWellFormed
    ScheduledInTime
    NothingDueIsLeft
