SPECIFICATION Spec
CONSTANTS
    Main = m
    Threads = {m, a}
    EventLoop = NoThread
    NoThread = NoThread
    Exiting = {a}
    MaxAlloc = 2
    MaxPass = 1
INVARIANT DestroyedNotInUse
