\* Identical requests whose reads of the key overlap.
CONSTANTS
    Requests = {r1, r2}
    Expired = 4
    Timeout = 2
    Lag = 1
    MaxNow = 3
SPECIFICATION Spec
INVARIANT
    MarkExpires
CHECK_DEADLOCK FALSE
