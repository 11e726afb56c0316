SPECIFICATION Spec
CONSTANTS
    d1 = d1
    d2 = d2
    Calls = {c1, c2}
    Requests <- mcSequel
    DrillIds <- mcOneDrill
    None = None
    MaxStops = 0
INVARIANTS
    ReplayIsOriginal
\* Every call may have ended and every allowed stop may have happened.
CHECK_DEADLOCK FALSE
