\* Two keys, two members; every version allocation reads a later clock.
CONSTANTS
    Keys = {1, 2}
    Members = {1, 2}
    NoMeta = NoMeta
    MaxCount <- MCMaxCount
    MaxTime = 3
    ClockSteps = {1}
    SRemArgs <- MCSRemArgs
    StoreArgs <- MCStoreArgs
    PopCounts = {1, 2}
SPECIFICATION Spec
INVARIANT TypeOK CountMatchesMembers SRandMemberReadsOwnSet
PROPERTY RecreatedSetHasNoGhosts StoreReplacesDestination SPopStaysInSet
