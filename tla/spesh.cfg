SPECIFICATION FairSpec
CONSTANTS
    Main = m
    Threads = {m, a}
    Exiting = {a}
    Loading = {a}
    Profiling = {m}
    MaxForks = 2
    NoThread = NoThread
    Null = Null
    Limit = 2
    MVM_SPESH_LOG_QUOTA_MAIN_THREAD = 1
    MVM_SPESH_LOG_QUOTA = 2
    MaxExtra = 1
    MaxRefused = 1
INVARIANTS
    QuotaCoversLog
    QuotaAccounted
    WorkerAssertions
PROPERTIES
    ProfilerBetweenLogs
    SenderGoesOn
    ForkReturns
CHECK_DEADLOCK FALSE
