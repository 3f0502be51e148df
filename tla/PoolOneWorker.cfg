\* The default pool: one worker, which keeps the order.
CONSTANTS
    Producer = {p, q}
    Worker = {w}
    Registry = Registry
    Capacity = 2
    MaxCalls = 2
    Shutdown = Shutdown
    Idle = Idle
    Exited = Exited
    Nobody = Nobody
    Ordered = TRUE
SPECIFICATION Spec
CHECK_DEADLOCK FALSE
INVARIANTS
    FlushCovers
PROPERTIES
    ImplementsPipe
