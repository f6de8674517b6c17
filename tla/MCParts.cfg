\* Each part with few of everything: three requests on up to two users with one id to
\* hand out; two codes for one or two addresses and ips; three sockets of two tokens; three
\* role ids, two names and values, one menu; four rows in pages of at most two; two jobs
\* of one task.
CONSTANTS
    Ids = {1, 2, 3}
    LinkIds = {1, 2}
    Emails = {e1, e2}
    NoEmail = NoEmail
    Providers = {"apple"}
    Pids = {p1, p2}
    Calls = {l1, l2, l3}
    Addresses = {a1, a2}
    Ips = {i1, i2}
    Requests = {c1, c2}
    LimitTTL = 1
    Throttle = 2
    Window = 2
    MaxNow = 3
    Sockets = {s1, s2, s3}
    Tokens = {t1, t2}
    NoToken = NoToken
    Roles = {1, 2, 3}
    RoleNames = {n1, n2}
    Values = {admin, user}
    Menus = {m1}
    DefaultLimit = 2
    MaxLimit = 2
    MaxRows = 4
    MaxPages = 3
    Tasks = {task1}
    Jobs = {j1, j2}
    Services = {service1}
SPECIFICATION Spec
SYMMETRY AccountSymmetry
INVARIANTS
    PartsTypeOK
    OneLinkUnlessRaced
    DisabledOnlyByLink
    RootRemains
    CodesAreLimited
    ExpiredAreGone
    RunsAuthorised
    
    WalkSeesAll
    RunsAreLogged
    MigrationUsable
CHECK_DEADLOCK FALSE
