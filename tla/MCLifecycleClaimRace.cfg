SPECIFICATION Spec
CONSTANTS
    Jobs = {j1}
    Slots = {s1}
    NoJob = NoJob
    Rebuilds = TRUE
    PromptAssign = FALSE
    QuickConflict = FALSE
    MaxGen = 5
    MaxCrash = 1
    MaxFaults = 2
    MaxForeign = 0
INVARIANTS LiveClaimed
