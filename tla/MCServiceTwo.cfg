SPECIFICATION FairSpec
CONSTANTS
    d1 = d1
    d2 = d2
    Calls = {c1, c2}
    Requests <- mcRequests
    DrillIds <- mcDrillIds
    None = None
    MaxStops = 1
INVARIANTS
    TypeOK
    TablesAgree
    AppliedAtMostOnce
PROPERTIES
    EveryCallEnds
    DrainEnds
\* Every call may have ended and every allowed stop may have happened.
CHECK_DEADLOCK FALSE
