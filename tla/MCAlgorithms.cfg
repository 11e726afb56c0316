SPECIFICATION Spec
CONSTANTS
    MaxInt = 3
    Blank = Blank
    Refused = Refused
    NearDue = 1
    MaxValue = 3
    MaxTexts = 3
    Text = text
INVARIANTS
    ReceiptMatchesEvaluation
    TodosAreOrdered
    ChecklistTakenWhole
    PlaceIsNumber
\* One input is taken.
CHECK_DEADLOCK FALSE
