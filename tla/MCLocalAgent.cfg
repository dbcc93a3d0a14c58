SPECIFICATION LocalSpec
CONSTANTS
    t1 = t1
    n1 = n1
    p1 = p1
    p2 = p2
    p3 = p3
    o1 = o1
    c1 = c1
    a1 = a1
    a2 = a2
    NoName = NoName
    NoToken = NoToken
    NoPassword = NoPassword
    Tokens = {t1}
    Names = {n1}
    Capacity = 1
    Passwords = {p1, p2, p3}
    Owners = {o1}
    Retriers = {c1}
    Agents = {a1, a2}
    RateKeys = {}
    JoinFailLimit = 1
    JoinFailBackoffAfter = 1
    MaxGeneration = 1
    MaxEvents = 1
SYMMETRY Symmetry
INVARIANT CredentialsReach
INVARIANT SecondOnlyUnseen
CHECK_DEADLOCK FALSE
