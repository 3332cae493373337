SPECIFICATION Spec
CONSTANTS
    Entries <- MCEntries
    Parent <- MCParent
    Skipped <- MCSkipped
    InitExpanded = {}
    TooBig <- MCTooBig
    MaxWheel = 2
    Configs <- MeasuredConfigs
    StartVars <- MCStartVars
    OsRequests <- MCOsRequests
PROPERTIES
    MeasuredBootsOnce
