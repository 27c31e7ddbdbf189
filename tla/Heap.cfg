CONSTANTS
    PageSize = 8
    Start = 16
    InitialEnd = 40
    MaxAddress = 72
    MinSize = 24
    WordLimit = 1024
    Magic = 300
    Sizes = {1, 4, 9}
    Aligns = {FALSE}
    AnyOrder = FALSE
    MaxLive = 5
    MaxFrees = 2
SPECIFICATION Spec
INVARIANTS
    TypeOK
    HeadersIntact
    SpaceDivided
    Conserved
PROPERTY ImplementsAllocator
CHECK_DEADLOCK FALSE
