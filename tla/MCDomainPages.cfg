CONSTANTS
    w1 = w1
    w2 = w2
    Writers = {w1, w2}
    Names = {1, 2}
    PerPage = 2
    Millisecond = 3
    MaxRows = 3
    MaxTime = 3
SPECIFICATION Spec
SYMMETRY Symmetry
INVARIANTS TypeOK Complete ListedOnce
CHECK_DEADLOCK FALSE
