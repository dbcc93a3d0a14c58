SPECIFICATION DispatchSpec
CONSTANTS
    n1 = n1
    n2 = n2
    j1 = j1
    j2 = j2
    c1 = c1
    NoNode = NoNode
    HostNode = HostNode
    NoJob = NoJob
    NoEntry = NoEntry
    Nodes = {n1, n2}
    Jobs = {j1, j2}
    Callers = {c1}
    Burns = {j2}
    MaxQueue = 2
    AttemptCap = 2
    MaxAttempts = 2
    RoundRobin = FALSE
    Ops = {"chat", "result", "lapse", "forecast", "silence"}
SYMMETRY Symmetry
PROPERTY ClaimNeverOverwrites
PROPERTY FlaggedGetsNoJob
