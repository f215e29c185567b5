SPECIFICATION FairSpec
CONSTANTS
    JobMax = 2
    MaxAge = 2
    Retention = 2
    MaxAttempts = 3
    MaxCrash = 2
    MaxFaults = 2
INVARIANTS OwnBlob LostBounded
PROPERTIES CaptureBeforeDelete OrphanPruned
