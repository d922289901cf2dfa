SPECIFICATION Spec
CONSTANTS
    Servers = {s1}
    Keys = {k1, k2}
    Workers = {w1, w2, w3}
    Limit = 2
    Window = 2
    MaxTime = 6
SYMMETRY Interchangeable
INVARIANTS Limited RefusedExactlyWhenFull
CHECK_DEADLOCK FALSE
