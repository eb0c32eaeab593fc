\* SIGINT at any time, no failures.
CONSTANTS
    Client = {c1}
    FdSetSize = 2
    MayHangUp = {c1}
    MayReset = {c1}
    EarlySignal = TRUE
    MayFail = FALSE
SPECIFICATION Spec
PROPERTY ShutdownCompletes
CHECK_DEADLOCK FALSE
