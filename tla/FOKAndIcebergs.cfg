\* Fill-or-kill orders against iceberg makers.
CONSTANTS
    MaxOrders = 3
    Price = {1}
    Qty = {1, 2, 3}
    OrderTypes = {"Iceberg", "FOK"}
    QMod = 64
    MaxRecent = 1
SPECIFICATION FairSpec
INVARIANTS FOKAllOrNothing
