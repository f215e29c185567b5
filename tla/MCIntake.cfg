SPECIFICATION FairSpec
CONSTANTS
    MaxConcurrency = 2
    MaxPending = 2
INVARIANTS PermitsConserved DrainedMeansIdle SafeToStop PauseBounded
PROPERTIES DrainCompletes PauseDrains
CHECK_DEADLOCK FALSE
