CONSTANTS
    PageSize = 64
    Start = 64
    InitialEnd = 128
    MaxAddress = 256
    MinSize = 24
    WordLimit = 1024
    Magic = 300
    Sizes = {1}
    Aligns = {FALSE}
    AnyOrder = TRUE
    MaxLive = 16
    MaxFrees = 0
    NodeWords = 2
    MaxFiles = 18
    StackWords = 4
    MaxDemos = 3
    FilesMark = 7
    Fn = 201
    ThreadExit = 202
    Arg = 203
SPECIFICATION SpecThreads
INVARIANTS
    ContextsKept
    QueueKept
    FilesKept
CHECK_DEADLOCK FALSE
