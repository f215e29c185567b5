SPECIFICATION Spec
CONSTANTS
    Deadline = 6
    Poll = 3
    Latency = 4
    Lag = 2
    ExitLag = 2
    MaxFail = 2
    MaxTime = 40
INVARIANTS OnTimeSpared WedgedReaped
CHECK_DEADLOCK FALSE
