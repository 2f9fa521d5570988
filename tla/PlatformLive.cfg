SPECIFICATION PlatformFairSpec
CONSTANTS
    Parts = {"service token", "files", "queue", "e-mail", "settings"}
    c1 = c1
    c2 = c2
    c3 = c3
    r1 = r1
    r2 = r2
    Calls = {c1, c3}
    Replicas = {r1, r2}
    HomeOf <- TwoAndOne
    MaxTok = 2
    Faults = TRUE
    Rejects = TRUE
    Cacheable = TRUE
    None = None
    Files = {f1, f2}
    Uploaders = {w1}
    Deleters = {d1}
    Quota = 1
    NoFile = NoFile
    Budget = 3
    BatchMax = 2
    MaxResets = 3
    MaxEvents = 4
    NoContext = NoContext
    Emails = {e1}
    RetryJobs = {j1, j2}
    MaxRetries = 3
    MaxFailures = 1
    SettingUsers = {u1, u2}
    Editors = {u1}
    Tenant = tenant
    MaxChanges = 1
    NotCached = NotCached
    Sockets = {s1, s2}
    Pages = {p1, p2}
    NoPage = NoPage
PROPERTIES Answered OrphansSwept DrainEnds FailedSettles AllCatchUp
CHECK_DEADLOCK FALSE
