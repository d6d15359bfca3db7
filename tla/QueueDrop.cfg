\* Registration, handles and queue dropped in any order; the system may then stop.
CONSTANTS
    e = e
    l = l
    o = o
    Nodes = {e, l}
    Producers = {p1, p2}
    Poller = Poller
    Opt <- KindOf
    Capacity = 1
    IoEvents <- NoIoEvents
    Droppable = {l}
    SelectFails = FALSE
    MayClose = TRUE
SPECIFICATION Spec
SYMMETRY ProducerSymmetry
CHECK_DEADLOCK FALSE
INVARIANTS
    NoUseAfterFree
    NoLeak
    DebugAssertions
PROPERTIES
    ImplementsEventQueue
