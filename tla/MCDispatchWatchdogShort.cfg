SPECIFICATION Spec
CONSTANTS
    Deadline = 6
    Poll = 3
    Latency = 2
    Lag = 2
    ExitLag = 2
    MaxFail = 0
    MaxTime = 40
INVARIANT ReapedNeverRan
CHECK_DEADLOCK FALSE
