SPECIFICATION DeliveryFairSpec
CONSTANTS
    Ids = {i1}
    Contents <- MCContents
    Labels <- MCLabels
    Lower <- MCLower
    RunnerLabel = "nix"
    RunnerLabels = {"nix"}
    Capacity = 1
    MaxConcurrency = 1
    MaxDeliver = 2
    MaxFaults = 1
INVARIANTS DeliveryTypeOK RunsOnce FateExplained
PROPERTIES NewDrains ListedRuns
CHECK_DEADLOCK FALSE
