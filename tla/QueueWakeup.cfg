\* A oneshot and a level node, two producers; select fails or fills the batch.
CONSTANTS
    e = e
    l = l
    o = o
    Nodes = {o, l}
    Producers = {p1, p2}
    Poller = Poller
    Opt <- KindOf
    Capacity = 2
    IoEvents <- TwoIoEvents
    Droppable = {}
    SelectFails = TRUE
    MayClose = FALSE
SPECIFICATION FairSpec
INVARIANTS
    NoLostWakeup
    LevelOncePerPoll
PROPERTIES
    QueuedIsTaken
