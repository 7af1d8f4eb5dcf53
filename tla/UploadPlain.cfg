SPECIFICATION Spec
CONSTANTS
    NumParts = 3
    NumBlocks = 0
    NumPerPump = 2
    MaxAttempts = 2
    MaxVersion = 2
    NumSyncs = 2
    Faults = {"head", "initiate", "part", "die"}
INVARIANTS
    TypeOK
    StoredWhenDone
    OrphansEmpty
    SyncedMeansEqual
PROPERTIES
    CompleteSentWhole
