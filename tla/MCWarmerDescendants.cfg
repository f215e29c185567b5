SPECIFICATION Spec
CONSTANTS
    Tasks = {t1}
    Tips = {k1}
    Permits = 1
    TTL = 1
    Targets = 1
    MaxTime = 1
    MaxAttempts = 1
    MaxRestarts = 0
INVARIANTS NoneEscapes
CHECK_DEADLOCK FALSE
