\* Three identical requests; the clock passes the expiry of the first mark.
CONSTANTS
    Requests = {r1, r2, r3}
    Expired = 4
    Timeout = 2
    Lag = 1
    MaxNow = 7
SPECIFICATION Spec
SYMMETRY RequestSymmetry
INVARIANTS
    TypeOK
    OneAtATime
    OnceWithinExpired
    FailureForgotten
CHECK_DEADLOCK FALSE
