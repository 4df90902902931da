SPECIFICATION Spec
CONSTANTS
    Orders = {1}
    Items = {2, 3}
    Periods = {1, 2}
    Handlers = {1, 2}
    Workloads <- TicksOfItems
    Few = {}
CONSTRAINT MCBound
INVARIANT
    DeliveredIffPrepared
CHECK_DEADLOCK FALSE
