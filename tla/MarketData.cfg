\* Two limit orders and cancels under both broadcasting threads.
CONSTANTS
    MaxOrders = 2
    Price = {1, 2}
    Qty = {1, 2}
    OrderTypes = {"Limit"}
    QMod = 64
    MaxRecent = 1
    Orders <- MCOrders
    PerpConfig <- MCPerpConfig
SPECIFICATION Spec
PROPERTIES SnapshotIsOneMoment FeedConverges
CHECK_DEADLOCK FALSE
