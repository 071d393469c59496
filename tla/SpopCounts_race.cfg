\* Two callers, a reset between another's Lookup and Insert.
CONSTANTS
    Keys = {k1, k2}
    Procs = {p1, p2}
    Cap = 2
    MaxCalls = 3
SPECIFICATION Spec
INVARIANT CountNeverAhead
