\* Two bytes received, four sent through a send buffer of two.
CONSTANTS
    MaxRx = 2
    MaxTx = 4
    Room = 2
SPECIFICATION ConnFairSpec
CHECK_DEADLOCK FALSE
INVARIANTS
    NoStrandedInput
    ClosedOnce
    WireInOrder
PROPERTIES
    EndIsNoticed
