SPECIFICATION FairGateSpec
CONSTANTS
    r1 = r1
    r2 = r2
    w1 = w1
    w2 = w2
    w3 = w3
    NoWriter = NoWriter
    Readers = {r1, r2}
    Writers = {w1, w2, w3}
INVARIANT PurgesAlone
INVARIANT SameRoomThroughout
INVARIANT ShutWhilePurging
INVARIANT ReopensAfterLast
PROPERTY WriterGetsDone
CHECK_DEADLOCK FALSE
