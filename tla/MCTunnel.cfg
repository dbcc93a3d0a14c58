SPECIFICATION TunnelSpec
CONSTANTS
    c1 = c1
    c2 = c2
    s1 = s1
    s2 = s2
    NoThread = NoThread
    Callers = {c1, c2}
    Supervisors = {s1, s2}
    Modes = {"quick", "named"}
    MaxProcs = 2
    Ops = {"enable", "disable", "idle", "forbid", "profile", "exit"}
SYMMETRY Symmetry
PROPERTY StartingLeftByProfileOnly
PROPERTY LeakOnlyByBlindWrite
