SPECIFICATION Spec
CONSTANTS
    d1 = d1
    d2 = d2
    Calls = {c1, c2, c3}
    Requests <- mcSequel
    DrillIds <- mcOneDrill
    None = None
    MaxStops = 1
INVARIANTS
    NothingOverwritten
    DossierHeadIsExact
    SuccessIsDurable
PROPERTIES
    CommittedIsForGood
    ImplementsLog
\* Every call may have ended and every allowed stop may have happened.
CHECK_DEADLOCK FALSE
