SPECIFICATION Spec
CONSTANTS
    a = a
    b = b
    c = c
    d = d
    e = e
    shared = shared
    own = own
    NoName = NoName
    Nothing = Nothing
    Left = Left
    Jobs <- MCJobs
    DebugNames = {shared, own}
    DebugName <- MCDebugName
    Stripped = {e}
INVARIANTS TypeOK OwnDebug FailedLeavesNothing NothingLeft
CHECK_DEADLOCK FALSE
