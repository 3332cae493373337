SPECIFICATION Spec
CONSTANTS
    Units <- MCUnits
    Page = 2
    FourGiB = 56
    GiB = 4
    Inputs <- MCInputs
    Reach <- MCReach
    Supported = 6
    MaxRequests = 4
INVARIANTS RequestsRead ModeFits PointersHold DirectMap LogWhole
