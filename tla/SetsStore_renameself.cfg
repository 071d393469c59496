\* Two keys, two members, RENAME included; a key renamed to itself.
CONSTANTS
    Keys = {1, 2}
    Members = {1, 2}
    NoMeta = NoMeta
    MaxCount <- MCMaxCount
    MaxTime = 3
    ClockSteps = {1}
    SRemArgs <- MCSRemArgs
    StoreArgs <- MCStoreArgs
    PopCounts = {1, 2}
SPECIFICATION SpecWithRename
PROPERTY RenameSameKeyKeepsSet
