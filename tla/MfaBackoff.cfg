SPECIFICATION IdentitySpec
CONSTANTS
    Parts = {"mfa"}
    n1 = n1
    n2 = n2
    m1 = m1
    m2 = m2
    u1 = u1
    u2 = u2
    Users = {u1, u2}
    Requests = {n1, n2}
    Creator = u1
    Callers = {u2}
    None = None
    Outdated = Outdated
    Browsers = {n1, n2}
    Enders = {e1}
    MaxSessions = 1
    Sids <- MCSids
    NoSid = NoSid
    Keys = {n1, n2}
    Creators = {m1, m2}
    Validators = {v1}
    Revokers = {r1}
    MaxPerUser = 1
    NoKey = NoKey
    Admins = {n1, n2}
    Exchanges = {x1}
    Tokens = {m1, m2}
    Verifiers = {n1}
    MaxAttempts = 2
    LongestPower = 29
    MaxLockouts = 31
    Invites = {n1, n2}
    Clerks = {m1, m2}
    NoInvite = NoInvite
PROPERTY LockoutsGoOn
CHECK_DEADLOCK FALSE
