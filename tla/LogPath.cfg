\* A C thread and a C++ thread, two loggers over two sinks.
CONSTANTS
    root = root
    async = async
    stream = stream
    file = file
    pool = pool
    Thread = {t1, t2}
    CThread = {t1}
    Worker = worker
    Pool = pool
    Logger = {root, async}
    Async = {async}
    Sink = {stream, file}
    Stream = {stream}
    SinksOf <- Wiring
    Root = root
    Formatter = {plain, broken}
    Throwing = {broken}
    Default = plain
    Capacity = 1
    None = None
    Handle = {async, stream, pool}
    CLevels = {2}
    CLimits = {0}
    Levels = {4}
    MaxMsgs = 2
    MaxFlushes = 1
    MaxSets = 1
SPECIFICATION Spec
CHECK_DEADLOCK FALSE
INVARIANTS
    DeliveredAsLevelsSay
    FlushLevelSecures
PROPERTIES
    FlushReaches
