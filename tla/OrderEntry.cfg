\* Two clients and three commands; a read holds an order and a part of the next.
CONSTANTS
    MaxOrders = 3
    Price = {1}
    Qty = {1, 2}
    OrderTypes = {"Limit", "IOC"}
    QMod = 64
    MaxRecent = 1
    Client = {c1, c2}
    Orders <- MCOrders
    Cancels = {1}
    NewOrderSize = 2
    CancelSize = 1
    ExecutionSize = 2
    RejectSize = 1
    AcceptedSize = 1
    MarketDataSize = 3
    RecvBuf = 3
    PrintBuf = 3
SPECIFICATION Spec
INVARIANTS HandledInOrder ReportsAddUp PrintedInOrder
PROPERTIES CancelAnswered
CHECK_DEADLOCK FALSE
