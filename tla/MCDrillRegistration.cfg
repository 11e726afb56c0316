SPECIFICATION Spec
CONSTANTS
    Actors <- mcActors
    Drafts <- mcShortDrafts
    Submissions <- mcSubmissions
    Readings <- mcTwoReadings
    ObservedTimes = {0, 1, 3}
    Texts = {text}
    Blank = Blank
    None = None
    MaxTime = 2
    MaxRevision = 4
    MaxRegistrations = 2
    MaxPlans = 1
    MaxReturned = 0
PROPERTIES
    RegisteredEvidenceIsCurrent
\* A certified drill accepts no request and the clock stops at MaxTime.
CHECK_DEADLOCK FALSE
