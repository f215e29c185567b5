SPECIFICATION FairSpec
CONSTANTS
    ApiTimeout = 1
    StartTimeout = 2
    CopyTimeout = 1
    StopTimeout = 1
    DeleteTimeout = 1
    ListTimeout = 1
    JobMaxRuntime = 2
    CompletionCheck = TRUE
    U64Max = 100
    SleepsInFlight = FALSE
    MaxWall = 32
    LastClaim = 3
    MaxClaims = 2
INVARIANTS InFlightNeverReaped
PROPERTIES OrphanReleased
CHECK_DEADLOCK FALSE
