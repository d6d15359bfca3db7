\* Three threads share one Poll, each with any of the three kinds of timeout.
CONSTANTS
    Threads = {t1, t2, t3}
    NoThread = NoThread
SPECIFICATION FairSpec
INVARIANTS
    MutualExclusion
    CountExact
    NoLostNotification
PROPERTIES
    TurnIsTaken
