SPECIFICATION Spec
CONSTANTS
    Jobs = {j1}
    Slots = {s1}
    NoJob = NoJob
    Rebuilds = FALSE
    PromptAssign = FALSE
    QuickConflict = FALSE
    MaxGen = 5
    MaxCrash = 1
    MaxFaults = 1
    MaxForeign = 1
INVARIANTS FreshVmSpared
