SPECIFICATION FairDispatchSpec
CONSTANTS
    n1 = n1
    j1 = j1
    j2 = j2
    c1 = c1
    c2 = c2
    NoNode = NoNode
    HostNode = HostNode
    NoJob = NoJob
    NoEntry = NoEntry
    Nodes = {n1}
    Jobs = {j1, j2}
    Callers = {c1, c2}
    Burns = {j2}
    MaxQueue = 2
    AttemptCap = 3
    MaxAttempts = 2
    RoundRobin = FALSE
    Ops = {"chat", "result", "lapse", "silence"}
INVARIANT InflightMatchesWork
INVARIANT AttemptsLimited
PROPERTY EveryJobEnds
