SPECIFICATION Spec
CONSTANTS
    A = A
    B = B
    C = C
    t1 = t1
    t2 = t2
    none = none
    None = none
    Checkpoints = 2
    Drills <- mcDrills
    Tasks <- mcTasks
    Beginnings <- mcBeginnings
SYMMETRY mcSymmetry
INVARIANTS
    CaseFormsAreExact
    PlansKeepTheirDrill
    ButtonsActOnTheShown
    CalmScreenIsCurrent
\* The user stops after a number of inputs.
CHECK_DEADLOCK FALSE
