\* Two threads, three loggers of two names, one setting.
CONSTANTS
    r = r
    s = s
    a = a
    t1 = t1
    t2 = t2
    Calls <- Roles
    Thread = {t1, t2}
    Logger = {r, s, a}
    NameOf <- Naming
    Async = {a}
    FirstRoot = r
    Field = {"level"}
    Value = {on, off}
    MaxPools = 1
    MaxHeld = 1
    None = None
SPECIFICATION Spec
SYMMETRY Symmetry
CHECK_DEADLOCK FALSE
INVARIANTS
    NamesFindLatest
    GovernedFollow
    FlushAllFindsPools
