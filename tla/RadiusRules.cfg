SPECIFICATION Spec
CONSTANTS
    Types = {"painel"}
    Assets = {x}
    Drafts = {d}
    Workers = {w1, w2}
    Radii = {80, 250}
    Limits = {5}
    Areas = {6}
    InitialRules <- SeededRule
    InitialAssets <- Registered
    LegacyDrafts <- OldDrafts
    Start = 2
    MaxTime = 5
    Absent = Absent
    Deleted = Deleted
    Finalized = Finalized
    Nothing = Nothing
SYMMETRY SameWorkers
INVARIANTS TypeOK
PROPERTIES ConfirmedIsCurrent UnchangedIsShown DraftRadiusKept
CHECK_DEADLOCK FALSE
