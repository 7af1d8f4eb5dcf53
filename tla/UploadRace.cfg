SPECIFICATION Spec
CONSTANTS
    NumParts = 2
    NumBlocks = 2
    NumPerPump = 1
    MaxAttempts = 2
    MaxVersion = 1
    NumSyncs = 1
    Faults = {}
PROPERTIES
    CompleteSentWhole
