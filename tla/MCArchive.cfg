SPECIFICATION Spec
CONSTANTS
    MaxInt = 3
    Facts <- mcFacts
    Reviewers = {r1, r2}
    Garbage = Garbage
    MaxWrites = 5
    MaxFaults = 2
INVARIANTS
    NoFalseAlarm
    VerifiedChainWasWritten
    ValidDossierVouches
PROPERTIES
    BrokenStaysBroken
\* A certified drill takes no write and the bounds end the rest.
CHECK_DEADLOCK FALSE
