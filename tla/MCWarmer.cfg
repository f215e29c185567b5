SPECIFICATION FairSpec
CONSTANTS
    Tasks = {t1, t2}
    Tips = {k1}
    Permits = 2
    TTL = 2
    Targets = 2
    MaxTime = 3
    MaxAttempts = 2
    MaxRestarts = 1
INVARIANTS SingleFlight FreshMarkBacked WorkdirsOwned GroupsContained
PROPERTIES WarmEnds
CHECK_DEADLOCK FALSE
