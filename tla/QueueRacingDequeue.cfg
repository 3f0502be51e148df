\* Two consumers that poll with dequeue.
CONSTANTS
    p1 = p1
    p2 = p2
    c1 = c1
    c2 = c2
    Thread = {p1, c1, c2}
    Item <- Items
    Capacity = 2
    Vacant = Vacant
    Free = Free
    Ops <- RacingOps
    MaxSent = 2
SPECIFICATION Spec
CHECK_DEADLOCK FALSE
INVARIANTS
    HandedOnce
