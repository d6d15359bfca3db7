\* Two threads update one registration while a third sets its readiness.
CONSTANTS
    Updaters = {u1, u2}
    Setters = {s1}
    Tokens = {a}
    Opts = {"edge", "oneshot", "level"}
    NoToken = NoToken
    Noop = Noop
    ReadyValue <- ReadyValueDef
    InterestValue <- InterestValueDef
SPECIFICATION WSpec
CHECK_DEADLOCK FALSE
SYMMETRY Symmetry
INVARIANTS
    TypeOK
    TokenSlotExclusive
    UpdateAssertions
    QueuedExactly
    WordHoldsState
