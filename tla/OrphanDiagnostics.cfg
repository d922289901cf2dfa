SPECIFICATION DiagSpec
CONSTANTS
    Drafts = {1, 2}
    Lifetime = 0
    MaxTime = 1
    MinAge = 1
    PageSize = 1
    Absent = Absent
    NoCode = NoCode
INVARIANTS DiagTypeOK UsedNeverOrphan AbandonedOnlyLate InconsistentOnlyRemoved NoAbsenceInvented ListingComplete LeftoversFound
CHECK_DEADLOCK FALSE
