SPECIFICATION FairSpec
CONSTANTS
    Entries <- MCEntries
    Parent <- MCParent
    Skipped <- MCSkipped
    InitExpanded = {}
    TooBig <- MCTooBig
    MaxWheel = 2
    Configs <- MCConfigs
    StartVars <- MCStartVars
    OsRequests <- MCOsRequests
INVARIANTS
    HighlightBoots
    HandoffClean
    EditorGate
    OneShotConsumed
    ScreenMatchesQuiet
    EditedTextStays
PROPERTIES
    RequestHonoured
    NoUnattendedRetry
    CountdownEnds
