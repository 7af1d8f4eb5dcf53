SPECIFICATION Spec
CONSTANTS
    Path <- MCPath
    LocalTree <- MCLocalTree
    RemoteTree <- MCRemoteTree
    Excluded <- MCExcluded
    Spaced <- MCSpaced
    Faults = {"list", "task"}
INVARIANTS
    TypeOK
    Mirrored
PROPERTIES
    NothingLost
    OnlyMissingRemoved
