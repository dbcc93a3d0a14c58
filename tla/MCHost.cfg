SPECIFICATION HostSpec
CONSTANTS
    p1 = p1
    p2 = p2
    p3 = p3
    r1 = r1
    r2 = r2
    None = None
    Missing = Missing
    Torn = Torn
    Config <- MCConfig
    Processes = {p1, p2}
    Threads = {r1, r2}
    Windows = TRUE
    Requests <- MCRequests
    MaxEvents = 4
    MaxClock = 2
SYMMETRY Symmetry
INVARIANT OneHost
INVARIANT InForceIsOnDisk
INVARIANT UnreadableOnlyByCutSave
INVARIANT KillSwitchStays
INVARIANT SpanThresholdTrue
INVARIANT CountedOnce
INVARIANT MeasuredApart
INVARIANT AbAgrees
CHECK_DEADLOCK FALSE
