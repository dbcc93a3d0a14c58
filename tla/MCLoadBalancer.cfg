SPECIFICATION LBSpec
CONSTANTS
    Nodes = {n1, n2}
    HostNode = host
    NoNode = NoNode
    Jobs = {j1, j2, j3}
    NoJob = NoJob
    Callers = {c1}
    MaxQueue = 2
    AttemptCap = 2
SYMMETRY Symmetry
INVARIANT JobPlacedOnce
INVARIANT FailedIsGone
INVARIANT EndedIsGone
PROPERTY LossOnlyByOverwrite
CHECK_DEADLOCK FALSE
