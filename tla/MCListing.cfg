SPECIFICATION ListingSpec
CONSTANTS
    Jobs = {j1}
    Retention = 1
    Window = 0
    ActiveCap = 2
    ScanCap = 2
    RowCap = 1
    MaxTime = 2
    MaxOthers = 2
INVARIANTS JobSeen QueuedWaits OrphanUnclaimed
CHECK_DEADLOCK FALSE
