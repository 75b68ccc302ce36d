SPECIFICATION FairSpec
CONSTANTS
    Main = m
    Threads = {m, a, e}
    EventLoop = e
    NoThread = NoThread
    Exiting = {}
    MaxAlloc = 1
    MaxPass = 0
PROPERTIES
    RunCompletes
    UnblockReturns
