\* One client more than the fd_set has place for, failures of Winsock,
\* SIGINT once the loop runs.
CONSTANTS
    Client = {c1, c2, c3}
    FdSetSize = 3
    MayHangUp = {c1, c2}
    MayReset = {c1}
    EarlySignal = FALSE
    MayFail = TRUE
SPECIFICATION Spec
INVARIANTS TypeOK ClientsAreOpen WinsockUpWhileUsed
PROPERTIES ShutdownCompletes RequestsReceived
CHECK_DEADLOCK FALSE
