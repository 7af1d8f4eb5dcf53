SPECIFICATION Spec
CONSTANTS
    NumSegments = 3
    MaxAttempts = 2
    MaxVersion = 3
    NumSyncs = 2
    Faults = {"head", "get", "die", "crash"}
INVARIANTS
    TypeOK
    SyncedMeansEqual
    NoHoles
    StoredWhenDone
    SourceKept
    TempRemoved
