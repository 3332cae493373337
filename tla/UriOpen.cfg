SPECIFICATION Spec
CONSTANTS
    Pages <- MCPages
    HighFrom = 7
    Layouts <- MCLayouts
    Requests <- MCRequests
    Volumes <- MCVolumes
    BootVolume <- MCBoot
    FirstCap = 1
    StepCap = 2
    Chunk = 2
INVARIANTS Vouched Whole NothingLeft
