SPECIFICATION Spec
CONSTANTS
    MaxInt = 3
    Actors <- mcActors
    Drafts <- mcDrafts
    Submissions <- mcSubmissions
    Readings <- mcReadings
    ObservedTimes = {0, 1, 3}
    Texts = {text}
    Blank = Blank
    None = None
    MaxTime = 2
    MaxRevision = 12
    MaxRegistrations = 1
    MaxPlans = 2
    MaxReturned = 1
INVARIANTS
    TypeOK
    RecordedInOrder
    FindingsMatchReceipts
    ActiveCanGoOn
    PlanHistoryExplainsPlan
    OfferedIffAccepted
    PlanIsOfferedInTime
    NeverWithoutTodo
    FiguresAddUp
PROPERTIES
    NothingIsRewritten
    ImplementsGate
\* A certified drill accepts no request and the clock stops at MaxTime.
CHECK_DEADLOCK FALSE
