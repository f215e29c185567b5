SPECIFICATION Spec
CONSTANTS
    Jobs = {j1}
    Workers = {w1, w2}
    Retention = 0
    MaxGen = 3
    MaxDeliver = 2
    MaxTime = 1
    MaxCrash = 1
INVARIANTS ReplayGuard ReplayNeverRuns ClaimsOwned
PROPERTIES ClaimsSpec MovesSpec PruneOnlyExpired
CHECK_DEADLOCK FALSE
