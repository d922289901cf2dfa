SPECIFICATION Spec
CONSTANTS
    Assets = {x1, x2}
    Workers = {w1}
    Types = {"painel", "empena"}
    InExamination = {"analysis"}
    Latitudes = {parallel}
    Longitudes = {west, east}
    Justifications = {TRUE, FALSE}
    Radii = {250, 1000}
    LedPanel = "painel"
    LedGable = "empena"
    LedDistance = 500
    parallel = parallel
    west = west
    east = east
    Haversine <- Metres400
    Geodesic <- Metres400
    InitialRows <- PanelAndGable
    MaxRequests = 3
    Absent = Absent
    Deleted = Deleted
    NoWorker = NoWorker
SYMMETRY Interchangeable
INVARIANTS IrregularJustified
PROPERTIES ApprovalConfirmsCurrent
CHECK_DEADLOCK FALSE
