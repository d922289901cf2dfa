SPECIFICATION FairSpec
CONSTANTS
    Assets = {x1, x2}
    Workers = {w1, w2}
    Types = {"painel"}
    InExamination = {"analysis"}
    Latitudes = {parallel}
    Longitudes = {west}
    Justifications = {TRUE}
    Radii = {250}
    LedPanel = "painel"
    LedGable = "empena"
    LedDistance = 500
    parallel = parallel
    west = west
    east = east
    Haversine <- Metres400
    Geodesic <- Metres400
    InitialRows <- OnePlace
    MaxRequests = 3
    Absent = Absent
    Deleted = Deleted
    NoWorker = NoWorker
PROPERTIES Answered
CHECK_DEADLOCK FALSE
