SPECIFICATION FairSpec
CONSTANTS
    Jobs = {j1}
    Slots = {s1}
    NoJob = NoJob
    Rebuilds = TRUE
    PromptAssign = TRUE
    QuickConflict = TRUE
    MaxGen = 5
    MaxCrash = 1
    MaxFaults = 1
    MaxForeign = 1
PROPERTIES QueuedServed IdleVmReaped
