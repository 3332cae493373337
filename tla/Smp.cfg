SPECIFICATION FairSpec
CONSTANTS
    Cpus = {0, 1, 2, 257}
    Machines <- MCMachines
    Responses = {"prompt", "dead", "late"}
    MaxSlots = 9
INVARIANTS
    OwnInfo
    EveryoneListed
PROPERTIES
    NoRestart
    GotoObeyed
CHECK_DEADLOCK FALSE
