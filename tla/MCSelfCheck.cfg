SPECIFICATION CheckSpec
CONSTANTS
    Begun = 600
    Actors <- mcActors
    Drafts <- mcDrafts
    Submissions <- mcSubmissions
    Readings <- mcReadings
    ObservedTimes <- mcTimes
    Texts <- mcTexts
    Blank = Blank
    None = None
    MaxTime = 7800
    MaxRevision = 20
    MaxRegistrations = 1
    MaxPlans = 1
    MaxReturned = 0
INVARIANTS
    ScriptIsAccepted
    PassedMeansCertified
PROPERTY
    Ends
\* The process ends.
CHECK_DEADLOCK FALSE
