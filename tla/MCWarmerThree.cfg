SPECIFICATION Spec
CONSTANTS
    Tasks = {t1, t2, t3}
    Tips = {k1, k2}
    Permits = 3
    TTL = 2
    Targets = 1
    MaxTime = 2
    MaxAttempts = 3
    MaxRestarts = 0
INVARIANTS MarksApart
CHECK_DEADLOCK FALSE
