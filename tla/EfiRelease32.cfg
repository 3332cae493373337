SPECIFICATION Spec
CONSTANTS
    Pages <- MCPages
    FourGiB = 7
    Is32 = TRUE
    Firmware <- MCFirmware
    Image <- MCImage
    Restless <- MCRestless
    Left = 1
    ChunkMax = 4
    ChunkMin = 3
    ChunkFallback = 2
    Slack = 1
    MaxRetries = 3
INVARIANT ReleaseWhole
