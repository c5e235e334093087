SPECIFICATION LimiterSpec
CONSTANTS
    Calls = {c1, c2, c3}
    Devices = {d1}
    Minutes = {m1, m2}
    ArrivalLimit = 3
    RecordedLimit = 2
    RecordedWindow = 2
    MayFail = TRUE
    LastMinute = 3
SYMMETRY Symmetry
\* Once every call is decided and the clock has stopped nothing is left to do.
CHECK_DEADLOCK FALSE
INVARIANTS
    LimiterTypeOK
    AtMostLimitPerRecordedMinute
    NoInnocentRefusal
    RefusalEndsWithTheWindow
