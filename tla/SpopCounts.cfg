\* Two callers, two keys in a cache of one: every call can evict.
CONSTANTS
    Keys = {k1, k2}
    Procs = {p1, p2}
    Cap = 1
    MaxCalls = 3
SPECIFICATION Spec
INVARIANT TypeOK
