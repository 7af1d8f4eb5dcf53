SPECIFICATION FairSpec
CONSTANTS
    Worker = {w1, w2, w3}
    NoTask = NoTask
    Unknown = Unknown
    Task <- MCTask
    Segment <- MCSegment
    TypeOf <- MCTypeOf
    Spawns <- MCSpawns
    Owner <- MCOwner
    Carrier <- MCCarrier
    Limit <- MCLimit
    MaxInFlight = 2
    MaxAttempts = 1
    NumRuns = 2
    Batch <- MCBatch
    Quiet = FALSE
INVARIANTS
    TypeOK
    CountersExact
    SegmentBudget
    DoneAtReturn
    NoStall
PROPERTIES
    ImplementsPool
    RunReturns
