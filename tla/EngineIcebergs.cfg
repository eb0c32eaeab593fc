\* Three calls, plain and iceberg orders, with takes on entry, refreshes and cancels.
CONSTANTS
    MaxOrders = 3
    Price = {1, 2}
    Qty = {1, 2}
    OrderTypes = {"Limit", "Market", "Iceberg"}
    QMod = 64
    MaxRecent = 1
SPECIFICATION FairSpec
INVARIANTS IndexCoversBook Conservation LevelTotals IcebergsBacked
PROPERTIES PriceTimePriority CallReturns
