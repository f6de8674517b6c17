\* Single device: the clock passes every rounding and expiry boundary.
CONSTANTS
    Users = {u1}
    Logins = {l1, l2}
    Requests = {r1, r2}
    Changes = {}
    Admins = {}
    AdminKinds = {}
    MultiDevice = FALSE
    JwtExpire = 2
    MaxNow = 9
SPECIFICATION Spec
SYMMETRY CallSymmetry
INVARIANTS
    LoggedOutStaysOut
    FreshSessionUsable
CHECK_DEADLOCK FALSE
