SPECIFICATION FairSpec
CONSTANTS
    Threads = {t1, t2, t3}
    MaxNodes = 3
    MaxTakes = 1
    Null = Null
INVARIANTS
    ListIntact
    PeekNeverNull
PROPERTIES
    ActsAsQueue
    WaiterServed
CHECK_DEADLOCK FALSE
