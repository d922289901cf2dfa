SPECIFICATION Spec
CONSTANTS
    Drafts = {d1, d2}
    Clients = {c1}
    Workers = {w1, w2, w3}
    Limit = 1
    Window = 1
    Lifetime = 1
    MaxTime = 2
    Absent = Absent
    NoCode = NoCode
SYMMETRY Interchangeable
INVARIANTS TypeOK OneProcessEach SameProtocol OwnForm RateLimited
PROPERTIES RetryNeverRefused LivesOnce
CHECK_DEADLOCK FALSE
