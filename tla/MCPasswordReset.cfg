\* Two requests with a limit of one, three verifications, two codes.
CONSTANTS
    Requests = {r1, r2}
    Verifies = {v1, v2, v3}
    Codes = {c1, c2}
    Limit = 1
    Window = 2
    Lifetime = 1
    MaxAttempts = 2
    MaxNow = 3
SPECIFICATION Spec
SYMMETRY CallSymmetry
INVARIANTS
    TypeOK
    SingleUse
    OneActive
    LimitKept
    AttemptsCountMatches
CHECK_DEADLOCK FALSE
