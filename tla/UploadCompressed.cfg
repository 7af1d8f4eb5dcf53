SPECIFICATION Spec
CONSTANTS
    NumParts = 2
    NumBlocks = 2
    NumPerPump = 1
    MaxAttempts = 2
    MaxVersion = 2
    NumSyncs = 1
    Faults = {"initiate", "part", "complete", "die"}
INVARIANTS
    SyncedMeansEqual
    ScratchRemoved
