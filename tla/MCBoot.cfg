CONSTANTS
    NFrames = 128
    WordBits = 8
    PageSize = 128
    PagesPerTable = 12
    HeapPage = 48
    HeapPages = 13
    HeapMin = 12
    HeapSize = 32
    IndexPages = 6
    HeaderSize = 12
    FooterSize = 8
    MaxHeapPages = 24
    MaxContracts = 2
    Pages <- MCPages
    Builds <- MCBuilds
    ImageEnds <- MCImageEnds
    StaleFrames <- MCStaleFrames
SPECIFICATION Spec
INVARIANTS
    TypeOK
    IdentityMapped
    HeapBacked
    BitmapInBounds
    NoSharedFrame
PROPERTY BootEnds
CHECK_DEADLOCK FALSE
