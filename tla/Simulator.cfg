\* Up to two seed orders, two ticks of two bots; a tape of two trades overruns.
CONSTANTS
    MaxOrders = 8
    Price = {1, 2, 3, 4, 5, 6, 7, 8, 9}
    Qty = {1, 2}
    OrderTypes = {"Limit"}
    QMod = 64
    MaxRecent = 2
    PerpConfig <- MCPerpConfig
    BucketVolume = 2
    Window = 2
    Setups <- MCSetups
    SeedOrders <- MCSeedOrders
    MaxSeeds = 2
    RandomPrice = {5, 6}
    RandomQty = {1}
    MakerQty = {2}
    MaxTicks = 2
SPECIFICATION Spec
INVARIANTS MakerBidStands VpinSeesTape SnapshotCoherent
PROPERTIES DrivesPerpetual RunReturns
CHECK_DEADLOCK FALSE
