SPECIFICATION FairSpec
CONSTANTS
    MaxSize = 11
    MinimalBlock = 2
    Threshold = 3
    CpuThreads = 3
    IoThreads = 2
    InFlight = {2, 5}
    SegmentSizes = {2, 3}
    MaxParts = 5
    MaxSegments = 4
    MaxPacked = 3
    MaxRead = 2
INVARIANTS
    TypeOK
    BlocksCoverFile
    OnePumpPerPart
    PartsInPlace
    RoundTrip
PROPERTIES
    Arrives
