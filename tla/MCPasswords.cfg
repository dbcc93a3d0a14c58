SPECIFICATION MCSpec
CONSTANTS
    t1 = t1
    t2 = t2
    t3 = t3
    n1 = n1
    n2 = n2
    p1 = p1
    p2 = p2
    p3 = p3
    o1 = o1
    o2 = o2
    k1 = k1
    k2 = k2
    NoName = NoName
    NoToken = NoToken
    NoPassword = NoPassword
    Tokens = {t1}
    Names = {n1}
    Capacity = 1
    Passwords = {p1, p2, p3}
    Owners = {o1, o2}
    RateKeys = {}
    JoinFailLimit = 1
    JoinFailBackoffAfter = 1
    MaxGeneration = 2
    Keys = {k1, k2}
    Limit <- MCLimit
    Window <- MCWindow
    PruneAfter = 4
    Delay = 1
    Gaps <- MCGaps
    MaxCalls = 4
SYMMETRY Symmetry
INVARIANT EndedStaysEnded
INVARIANT RowIsCurrent
INVARIANT LimitsAsRemembered
CHECK_DEADLOCK FALSE
