SPECIFICATION Spec
CONSTANTS
    Main = m
    Threads = {m, a, b}
    EventLoop = NoThread
    NoThread = NoThread
    Exiting = {a}
    MaxAlloc = 2
    MaxPass = 1
INVARIANTS
    StopTheWorld
    WorkPartition
    SweptBeforeResume
    NoLostWork
    RunsDoNotOverlap
    SanityChecksHold
    StartCountNeverZero
