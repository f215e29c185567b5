SPECIFICATION ListingSpec
CONSTANTS
    Jobs = {j1}
    Retention = 1
    Window = 0
    ActiveCap = 2
    ScanCap = 2
    RowCap = 1
    MaxTime = 2
    MaxOthers = 2
INVARIANT ListingTypeOK
CHECK_DEADLOCK FALSE
