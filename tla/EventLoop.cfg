\* A caller and the callbacks themselves enqueue three jobs into batches of two.
CONSTANTS
    Jobs = {j1, j2, j3}
    Callers = {t1}
    LoopThread = LoopThread
    Io = Io
    Capacity = 2
    MayFail = TRUE
SPECIFICATION Spec
CHECK_DEADLOCK FALSE
INVARIANTS
    JobsInOrder
    NodeLifetime
PROPERTIES
    EnqueuedRuns
    ShutdownEnds
