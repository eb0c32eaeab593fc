\* A limit order filled while it rests, then cancelled.
CONSTANTS
    MaxOrders = 2
    Price = {1}
    Qty = {1}
    OrderTypes = {"Limit"}
    QMod = 64
    MaxRecent = 1
SPECIFICATION FairSpec
INVARIANTS OnlyRestingCancellable
