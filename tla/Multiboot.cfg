SPECIFICATION Spec
CONSTANTS
    FourGiB = 36
    Page = 2
    InfoLoc = 2
    LowMem = 4
    Retries = 12
    RelocTries = 12
    MmapMax = 1
    InfoLen = 2
    Cases <- MCCases
INVARIANTS Arrives InfoFits
CHECK_DEADLOCK FALSE
