SPECIFICATION FairSpec
CONSTANTS
    Zone = {"s3", "other"}
    Client <- MCClient
    Key <- MCKey
    Excluded <- MCExcluded
    Command = {"walk", "publish", "ls"}
    PageSize = 2
    LsLimit = 1
    Threads = 2
    MaxAttempts = 2
    MaxChanges = 1
    Regions = {"other"}
    Faults = {"main", "list", "file"}
INVARIANTS
    TypeOK
    PoolSound
    ResetWhenIdle
    HandlesBounded
    ListingExact
    AllVisited
PROPERTIES
    CommandEnds
