\* Two threads, any operations, one against two.
CONSTANTS
    d = d
    a = a
    b = b
    t1 = t1
    t2 = t2
    Path = {d, a, b}
    Root = Root
    Parent <- ParentOf
    FileArg = {a, b}
    DirArg = {d, a}
    Thread = {t1, t2}
    Idle = Idle
    Ops <- AllOps
    MaxCalls <- Turns
    MaxFaults = 1
SPECIFICATION Spec
CHECK_DEADLOCK FALSE
INVARIANTS
    FalseIsHarmless
PROPERTIES
    TrueIsDone
