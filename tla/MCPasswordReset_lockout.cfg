\* One code, and as many wrong guesses as should lock it out.
CONSTANTS
    Requests = {r1}
    Verifies = {v1, v2, v3}
    Codes = {c1, c2}
    Limit = 2
    Window = 2
    Lifetime = 1
    MaxAttempts = 2
    MaxNow = 1
SPECIFICATION Spec
PROPERTY
    LockedOut
CHECK_DEADLOCK FALSE
