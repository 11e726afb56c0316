SPECIFICATION Spec
CONSTANTS
    A = A
    B = B
    C = C
    t1 = t1
    t2 = t2
    none = none
    None = none
    Checkpoints = 2
    Drills <- mcDrills
    Tasks <- mcTasks
    Beginnings <- mcFrozenBeginnings
SYMMETRY mcSymmetry
INVARIANT NoBlindOverwrite
\* The user stops after a number of inputs.
CHECK_DEADLOCK FALSE
