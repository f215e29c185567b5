SPECIFICATION Spec
CONSTANTS
    Jobs = {j1}
    Slots = {s1, s2}
    NoJob = NoJob
    Rebuilds = FALSE
    PromptAssign = FALSE
    QuickConflict = FALSE
    MaxGen = 5
    MaxCrash = 1
    MaxFaults = 2
    MaxForeign = 1
INVARIANT TypeOK
SYMMETRY SlotSymmetry
