SPECIFICATION Spec
CONSTANTS
    Years = {2026}
    Workers = {w1, w2, w3}
    ProcStart = 1
    SeedNumbers = {2, 3}
    SeedYear = 2026
    InitialCodes <- OldCodes
    MaxRequests = 4
SYMMETRY SameWorkers
INVARIANTS TypeOK
PROPERTIES NeverTwice ContinuesFromGreatest NoneSkipped
CHECK_DEADLOCK FALSE
