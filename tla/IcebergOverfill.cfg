\* Iceberg orders that trade on entry.
CONSTANTS
    MaxOrders = 2
    Price = {1}
    Qty = {1, 3}
    OrderTypes = {"Limit", "Iceberg"}
    QMod = 64
    MaxRecent = 1
SPECIFICATION FairSpec
INVARIANTS IcebergRealRemaining
