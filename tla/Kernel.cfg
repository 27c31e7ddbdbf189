CONSTANTS
    Threads = {t1, t2}
    NoThread = none
    Nodes = {n1, n2, n3, n4}
    Null = null
SPECIFICATION Spec
INVARIANTS
    SchedulerNeverHangs
PROPERTIES
    BootEnds
    DemoRuns
    KeysRead
CHECK_DEADLOCK FALSE
