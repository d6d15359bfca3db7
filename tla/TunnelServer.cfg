\* A client that talks to its upstream and one that only connects.
CONSTANTS
    Clients = {c1, c2}
    MaxSent = 2
    MaxReply = 1
    Passive = {c2}
    Faults = {"reset", "short", "connect", "accept"}
SPECIFICATION TunnelSpec
CHECK_DEADLOCK FALSE
INVARIANTS
    ForwardedInOrder
    NothingStranded
    LoopSurvives
PROPERTIES
    CloseIsPassedOn
