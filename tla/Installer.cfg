SPECIFICATION Spec
CONSTANTS
    Jobs <- MCJobs
    Contents <- MCContents
    MaxFaults = 3
    LastBlock = 12
INVARIANTS
    Restored
    InstalledWell
CHECK_DEADLOCK FALSE
