\* Multi-device: two logins of one user, a password change, an admin call.
CONSTANTS
    Users = {u1}
    Logins = {l1, l2}
    Requests = {r1}
    Changes = {c1}
    Admins = {a1, a2}
    AdminKinds = {"disable", "enable", "delete"}
    MultiDevice = TRUE
    JwtExpire = 1
    MaxNow = 2
SPECIFICATION Spec
SYMMETRY CallSymmetry
INVARIANTS
    TypeOK
    RevokedUntilLogin
    RemovedStaysOut
    FreshSessionUsable
PROPERTY RefusedUntilLogin
CHECK_DEADLOCK FALSE
