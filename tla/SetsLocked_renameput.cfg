\* Two threads, RENAME among their commands: is each write an atomic step?
CONSTANTS
    Keys = {1, 2}
    Members = {1}
    NoMeta = NoMeta
    MaxCount <- MCMaxCount
    MaxTime = 4
    ClockSteps = {1}
    SRemArgs <- MCSRemArgs
    StoreArgs <- MCStoreArgs
    PopCounts = {1}
    Procs = {p1, p2}
    NoProc = NoProc
    Cmds <- MCCmdsRename
    MaxOps = 2
SPECIFICATION Spec
PROPERTY ImplementsAtomicSetsWithRename
