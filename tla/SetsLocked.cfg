\* Two threads, three commands each, over two keys.
CONSTANTS
    Keys = {1, 2}
    Members = {1}
    NoMeta = NoMeta
    MaxCount <- MCMaxCount
    MaxTime = 6
    ClockSteps = {1}
    SRemArgs <- MCSRemArgs
    StoreArgs <- MCStoreArgs
    PopCounts = {1}
    Procs = {p1, p2}
    NoProc = NoProc
    Cmds <- MCCmds
    MaxOps = 3
SPECIFICATION Spec
PROPERTY ImplementsAtomicSets CommandsComplete
