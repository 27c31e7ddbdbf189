CONSTANTS
    PageSize = 8
    Start = 16
    InitialEnd = 48
    MaxAddress = 48
    MinSize = 32
    WordLimit = 1024
    Magic = 300
    Sizes = {1, 4}
    Aligns = {FALSE}
    AnyOrder = TRUE
    MaxLive = 4
    MaxFrees = 4
SPECIFICATION Spec
PROPERTY PayloadStable
CHECK_DEADLOCK FALSE
