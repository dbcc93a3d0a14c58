SPECIFICATION DispatchSpec
CONSTANTS
    n1 = n1
    j1 = j1
    c1 = c1
    c2 = c2
    NoNode = NoNode
    HostNode = HostNode
    NoJob = NoJob
    NoEntry = NoEntry
    Nodes = {n1}
    Jobs = {j1}
    Callers = {c1, c2}
    Burns = {}
    MaxQueue = 2
    AttemptCap = 2
    MaxAttempts = 2
    RoundRobin = FALSE
    Ops = {"chat", "result", "leave", "kick", "lapse", "join", "ready", "close"}
SYMMETRY Symmetry
INVARIANT RoomsAreSeparate
INVARIANT AnsweredIsFinal
