SPECIFICATION Spec
CONSTANTS
    Main = m
    Threads = {m, a}
    Exiting = {a}
    Global = g
    Objects = {g, o2, o3}
    Null = Null
    PageItems = 2
    PassSize = 2
    MaxOps = 4
    MaxCollect = 2
INVARIANTS
    NothingLostUnlessMarked
    Remembered
    CellsRight
    FullIsPrecise
CHECK_DEADLOCK FALSE
