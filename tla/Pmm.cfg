SPECIFICATION Spec
CONSTANTS
    Limit = 20
    Page = 2
    FourGiB = 16
    MaxEntries = 8
    KeepFirstPage = FALSE
    Firmware <- MCFirmware
    Ebda = 7
    MiB = 8
    BssEnd = 3
    Counts = {0, 3}
    Requests <- MCRequests
    FixedBases = {10}
    DataSizes <- MCDataSizes
    Slack = 1
    MaxLive = 2
INVARIANTS
    NoDoubleUse
    MapSound
PROPERTIES
    Implements
CHECK_DEADLOCK FALSE
