SPECIFICATION FairSpec
CONSTANTS
    Threads = {t1, t2, t3}
    NoThread = NoThread
    MaxCalls = 3
INVARIANTS
    HolderOwns
    NobodySlipsIn
PROPERTIES
    HolderIsLock
    LockGranted
CHECK_DEADLOCK FALSE
