SPECIFICATION Spec
CONSTANTS
    Orders = {o1, o2, o3}
    Keys = {k1, k2}
    Handlers = {h1, h2}
    Window = 2
    MaxTime = 4
    MaxRestarts = 1
    NULL = NULL
SYMMETRY MCSymmetry
INVARIANTS
    TypeOK
    AnsweredNotRepeated
CHECK_DEADLOCK FALSE
