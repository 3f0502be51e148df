\* Several workers.
CONSTANTS
    Producer = {p, q}
    Worker = {v, w}
    Registry = Registry
    Capacity = 2
    MaxCalls = 2
    Shutdown = Shutdown
    Idle = Idle
    Exited = Exited
    Nobody = Nobody
    Ordered = FALSE
SPECIFICATION Spec
CHECK_DEADLOCK FALSE
INVARIANTS
    NoUseAfterDestroy
    NothingBehindShutdown
    ShutdownPerWorker
PROPERTIES
    ImplementsPipe
    PoolCloses
    AcceptedCarriedOut
