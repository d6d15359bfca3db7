\* Two descriptors, each used three times; the poller and two more threads.
CONSTANTS
    f1 = f1
    f2 = f2
    c1 = c1
    c2 = c2
    Pipe = pipe
    Poller = poller
    Fds <- FdsDef
    Callers <- CallersDef
    MaxSockets = 3
    OwnToken = TRUE
SPECIFICATION Spec
SYMMETRY Symmetry
CHECK_DEADLOCK FALSE
INVARIANTS
    InterestHasEntry
    NoStaleJob
