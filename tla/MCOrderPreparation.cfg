SPECIFICATION FairSpec
CONSTANTS
    Orders = {1, 2}
    Items = {3, 4, 5}
    Periods = {1, 2}
    Handlers = {1, 2}
    Workloads <- TicksAndAll
    Few = {1, 3, 4}
CONSTRAINT MCBound
INVARIANTS
    TypeOK
    DeliveredIffPrepared
    DeliveredMeansPrepared
PROPERTIES
    PreparedIsDelivered
    RequestRepairsOrder
CHECK_DEADLOCK FALSE
