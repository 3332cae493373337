SPECIFICATION Spec
CONSTANTS
    Limit = 8
    Page = 2
    FourGiB = 8
    MaxEntries = 5
    KeepFirstPage = FALSE
    MaxInput = 3
    Bases = {0, 1, 2, 5}
    Lengths = {0, 1, 2, 4}
    InputTypes = {"usable", "reserved", "bootloader_reclaimable"}
    Fat12Max = 5
    Fat16Max = 6
    SectorUnit = 24
    LfnMax = 3
    SectorLen = 3
    MaxDescriptors = 2
    MaxDir = 6
    MaxExtents = 6
    AddressTop = 64
    HigherHalf = 48
    PageWords = 2
    RelrBits = 2
INVARIANTS
    SanitisedExact
    FatFaithful
    IsoFaithful
    ElfFaithful
CHECK_DEADLOCK FALSE
