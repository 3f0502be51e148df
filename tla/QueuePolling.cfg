\* One consumer that polls with dequeue.
CONSTANTS
    p1 = p1
    p2 = p2
    c1 = c1
    c2 = c2
    Thread = {p1, p2, c1}
    Item <- Items
    Capacity = 2
    Vacant = Vacant
    Free = Free
    Ops <- PollingOps
    MaxSent = 2
SPECIFICATION Spec
CHECK_DEADLOCK FALSE
INVARIANTS
    PerProducerOrder
    Accounted
