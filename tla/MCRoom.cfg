SPECIFICATION RoomSpec
CONSTANTS
    t1 = t1
    t2 = t2
    t3 = t3
    n1 = n1
    n2 = n2
    p1 = p1
    p2 = p2
    p3 = p3
    o1 = o1
    o2 = o2
    k1 = k1
    NoName = NoName
    NoToken = NoToken
    NoPassword = NoPassword
    Tokens = {t1, t2}
    Names = {n1, n2}
    Capacity = 1
    Passwords = {p1, p2, p3}
    Owners = {o1}
    RateKeys = {k1}
    JoinFailLimit = 2
    JoinFailBackoffAfter = 1
    MaxGeneration = 2
SYMMETRY Symmetry
INVARIANT NodesIndexed
INVARIANT PenaltyEarned
PROPERTY ImplementsRegistry
