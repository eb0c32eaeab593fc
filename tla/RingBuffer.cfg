\* Two slots, all four calls, counters that wrap twice round.
CONSTANTS
    Value = {a, b}
    Capacity = 2
    SeqMod = 4
    MaxPush = 9
    PushOps = {"try_push", "push"}
    PopOps = {"try_pop", "pop"}
    Raw = Raw
SPECIFICATION FairSpec
INVARIANTS TypeOK SlotsHoldExactly NoSharedSlot
PROPERTIES ImplementsFifo Delivered PushReturns
CHECK_DEADLOCK FALSE
