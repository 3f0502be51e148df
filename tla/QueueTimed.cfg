\* Calls that time out, give up or overwrite, against a consumer that times out.
CONSTANTS
    p1 = p1
    p2 = p2
    c1 = c1
    c2 = c2
    Thread = {p1, p2, c1}
    Item <- Items
    Capacity = 1
    Vacant = Vacant
    Free = Free
    Ops <- GivingUpOps
    MaxSent = 2
SPECIFICATION Spec
CHECK_DEADLOCK FALSE
INVARIANTS
    Accounted
PROPERTIES
    RefinesBoundedFifo
    TimedCallsEnd
