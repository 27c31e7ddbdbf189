CONSTANTS
    Threads = {t1, t2}
    NoThread = none
    Nodes = {n1, n2, n3, n4}
    Null = null
    Roomy = {n1, n2}
SPECIFICATION Spec
INVARIANTS
    TypeOK
    LoopThroughNow
    QueueAllocated
PROPERTY ImplementsQueue
CHECK_DEADLOCK FALSE
