CONSTANTS
    Item = {i1, i2, i3, i4, i5}
    Concurrency = 2
    MaxQueue = 2
SPECIFICATION Spec
INVARIANTS
    WorkConserving
PROPERTIES
    OldestFirst
CHECK_DEADLOCK FALSE
