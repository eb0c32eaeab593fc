\* Three calls of every order type but Iceberg.
CONSTANTS
    MaxOrders = 3
    Price = {1, 2}
    Qty = {1, 2}
    OrderTypes = {"Limit", "Market", "PostOnly", "FOK", "IOC"}
    QMod = 64
    MaxRecent = 2
SPECIFICATION FairSpec
INVARIANTS TypeOK Uncrossed TapeAccountsForFills
PROPERTIES FOKCancelJustified ImplementsExchange
