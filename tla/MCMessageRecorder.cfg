CONSTANTS
    s1 = s1
    s2 = s2
    s3 = s3
    huge = huge
    wide = wide
    Msgs <- MCMsgs
    Size <- MCSize
    LongHeaders <- MCLong
    Overrunning <- MCLong
    Limits <- MCLimits
    LimitWrap = 4
    MaxConnections = 3

SPECIFICATION Spec

SYMMETRY MCSymmetry

INVARIANTS
    RecordedInOrder
    FilesWithinLimit
    HandedInOrder
    NoneHandedTwice
    NothingLeftBehind

CHECK_DEADLOCK FALSE
