SPECIFICATION Spec
CONSTANTS
    ApiTimeout = 1
    StartTimeout = 2
    CopyTimeout = 1
    StopTimeout = 1
    DeleteTimeout = 1
    ListTimeout = 1
    JobMaxRuntime = 2
    CompletionCheck = TRUE
    U64Max = 100
    SleepsInFlight = TRUE
    MaxWall = 32
    LastClaim = 100
    MaxClaims = 1
INVARIANTS InFlightNeverReaped
CHECK_DEADLOCK FALSE
