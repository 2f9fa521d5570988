SPECIFICATION Spec
CONSTANTS
    i1 = i1
    i2 = i2
    s1 = s1
    u1 = u1
    Ids = {i1}
    Sids = {s1}
    Subs = {u1}
    SidOf <- OneSid
    SubOf <- OneSub
    Offline = {i1}
    MaxTok = 3
    None = None
    Handlers = {h1, h2}
    Faults = TRUE
    Transient = TRUE
    SlowRefresh = TRUE
    Expiry = TRUE
SYMMETRY HandlerSymmetry
INVARIANT RefusedGrantIsGone
PROPERTY ImplementsLife
CHECK_DEADLOCK FALSE
