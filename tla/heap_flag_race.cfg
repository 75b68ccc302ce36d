SPECIFICATION Spec
CONSTANTS
    Main = m
    Threads = {m, a}
    Exiting = {}
    Global = g
    Objects = {g, o2, o3}
    Null = Null
    PageItems = 2
    PassSize = 2
    MaxOps = 3
    MaxCollect = 2
INVARIANT NothingLost
CHECK_DEADLOCK FALSE
