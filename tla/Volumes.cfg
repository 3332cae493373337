SPECIFICATION Spec
CONSTANTS
    LbSizes <- MCLbSizes
    GptMaxArray = 5
    MaxGpt = 3
    MaxLogical = 5
    Pool = 2
    Scenes <- MCScenes
INVARIANTS MemoHonest PartitionsRight FirmwareNames

