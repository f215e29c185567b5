SPECIFICATION Spec
CONSTANTS
    Jobs = {j1}
    Slots = {s1, s2}
    NoJob = NoJob
    Rebuilds = FALSE
    PromptAssign = FALSE
    QuickConflict = FALSE
    MaxGen = 5
    MaxCrash = 1
    MaxFaults = 2
    MaxForeign = 1
INVARIANTS LiveClaimed LiveRunnerSpared
PROPERTIES LiveVmSpared
SYMMETRY SlotSymmetry
