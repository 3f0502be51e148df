\* Two producers in enqueue_wait, one consumer in dequeue_wait and one in
\* dequeue_wait_for, one place.
CONSTANTS
    p1 = p1
    p2 = p2
    c1 = c1
    c2 = c2
    Thread = {p1, p2, c1, c2}
    Item <- Items
    Capacity = 1
    Vacant = Vacant
    Free = Free
    Ops <- BlockingOps
    MaxSent = 2
SPECIFICATION Spec
CHECK_DEADLOCK FALSE
INVARIANTS
    NoLostPop
    NoLostPush
PROPERTIES
    EnqueueWaitEnds
    DequeueWaitEnds
