SPECIFICATION Spec
CONSTANTS
    u1 = u1
    u2 = u2
    u3 = u3
    Users = {u1, u2, u3}
    Username <- Names
    BootName = "chief"
    Workers = {w1, w2}
    MaxRequests = 3
    Absent = Absent
    Deleted = Deleted
SYMMETRY SameWorkers
INVARIANTS TypeOK
PROPERTIES ActorKeepsAdmin
CHECK_DEADLOCK FALSE
