SPECIFICATION FairSpec
CONSTANTS
    t1 = t1
    t2 = t2
    VMNull = VMNull
    Nobody = Nobody
    Tasks <- MCTasks
    Scenarios <- MCScenarios
    Users = {u1, u2}
    Callers = {u1}
    Forkers = {u2}
    PermitSizes <- MCPermitSizes
    MaxCalls <- MCMaxCalls
    MaxForks <- MCMaxForks
INVARIANTS
    ActiveListRight
    NoPanic
    NoEventAfterCancel
    ReadersFollowPermits
    OneLoopThread
PROPERTIES
    TaskTakenUp
    ForkReturns
    CancelNotified
CHECK_DEADLOCK FALSE
