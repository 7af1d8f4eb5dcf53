SPECIFICATION Spec
CONSTANTS
    Path <- MCPath
    LocalTree <- MCLocalTree
    RemoteTree <- MCRemoteTree
    Excluded <- MCNone
    Spaced <- MCSpaced
    Faults = {"list"}
PROPERTIES
    DeletesOnlyMissing
