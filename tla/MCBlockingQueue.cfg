\* Four slots, so that head and tail meet, cross and wrap.
CONSTANTS
    Item = {a, b}
    Capacity = 3
    Vacant = Vacant
    Client = {c}
    MaxOverrun = 5
SPECIFICATION Spec
INVARIANTS
    LiveSlots
PROPERTIES
    RefinesBoundedFifo
    Answers
