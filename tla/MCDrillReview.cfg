SPECIFICATION Spec
CONSTANTS
    Actors <- mcActors
    Drafts <- mcShortDrafts
    Submissions <- mcSubmissions
    Readings <- mcTwoReadings
    ObservedTimes = {0, 1, 3}
    Texts = {text}
    Blank = Blank
    None = None
    MaxTime = 2
    MaxRevision = 15
    MaxRegistrations = 1
    MaxPlans = 1
    MaxReturned = 1
INVARIANTS
    ReviewedFactsAreTheFacts
    ClosedByEvidence
    CertifiedOnEvidence
PROPERTIES
    PastPlanningIsForGood
\* A certified drill accepts no request and the clock stops at MaxTime.
CHECK_DEADLOCK FALSE
