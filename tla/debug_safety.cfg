SPECIFICATION DebugSpec
CONSTANTS
    Main = m
    Threads = {m, a, d}
    EventLoop = NoThread
    NoThread = NoThread
    Exiting = {}
    Debugger = d
    MaxAlloc = 1
    MaxPass = 0
    MaxRequest = 2
INVARIANTS
    SuspendedNotRunning
    StolenStaysBlocked
