SPECIFICATION Spec
CONSTANTS
    Assets = {x1, x2}
    Workers = {w1, w2}
    Types = {"painel"}
    InExamination = {"analysis", "requirement"}
    Latitudes = {parallel}
    Longitudes = {west, east}
    Justifications = {TRUE}
    Radii = {250, 1000}
    LedPanel = "painel"
    LedGable = "empena"
    LedDistance = 500
    parallel = parallel
    west = west
    east = east
    Haversine <- Metres600
    Geodesic <- Metres600
    InitialRows <- OneNewOneInAnalysis
    MaxRequests = 4
    Absent = Absent
    Deleted = Deleted
    NoWorker = NoWorker
SYMMETRY Interchangeable
INVARIANTS TypeOK ReviewedPairs
PROPERTIES NewOnlyAnalysed NewLeftByStart RemovedForGood
CHECK_DEADLOCK FALSE
