SPECIFICATION TrackSpec
CONSTANTS
    Assets = {x1}
    Workers = {w1, w2}
    Types = {"painel"}
    InExamination = {"analysis"}
    Latitudes = {parallel}
    Longitudes = {west}
    Justifications = {TRUE}
    Radii = {250}
    LedPanel = "painel"
    LedGable = "empena"
    LedDistance = 500
    parallel = parallel
    west = west
    Haversine <- Metres
    Geodesic <- Metres
    InitialRows <- InAnalysis
    MaxRequests = 5
    Absent = Absent
    Deleted = Deleted
    NoWorker = NoWorker
    NoStatus = NoStatus
    NoReport = NoReport
SYMMETRY Interchangeable
INVARIANTS TrackTypeOK LogTellsStatus CurrentNotOverstated ApprovalAfterAnalysis RemovalsAreReal RemovalEndsTimeline
CHECK_DEADLOCK FALSE
