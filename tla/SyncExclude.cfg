SPECIFICATION Spec
CONSTANTS
    Path <- MCPath
    LocalTree <- MCLocalTree
    RemoteTree <- MCRemoteTree
    Excluded <- MCExcluded
    Spaced <- MCSpaced
    Faults = {}
PROPERTIES
    ExcludedUntouched
