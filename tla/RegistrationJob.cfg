\* The job of a registration that is updated while it is reported.
CONSTANTS
    Updaters = {u1, u2}
    Setters = {s1}
    Tokens = {a}
    Opts = {"edge", "oneshot", "level"}
    NoToken = NoToken
    Noop = Noop
    ReadyValue <- ReadyValueDef
    InterestValue <- InterestValueDef
SPECIFICATION WSpec
CHECK_DEADLOCK FALSE
SYMMETRY Symmetry
INVARIANTS
    JobExclusive
