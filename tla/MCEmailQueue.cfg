\* A bulk email to two recipients or a single one, with the three attempts of the code; or
\* three callbacks in batches that nest twice.
CONSTANTS
    bulk = bulk
    single = single
    r1 = r1
    r2 = r2
    Jobs = {bulk, single}
    To <- Recipients2
    Bulk = {bulk}
    MaxAttempts = 3
    MaxStalled = 1
    Callbacks = {f1, f2, f3}
    Depth = 2
SPECIFICATION MCSpec
INVARIANTS
    BothTypeOK
    DuplicatesHaveCause
    OverlapHasCause
PROPERTIES
    ImplementsDelivery
    ImplementsNotifications
CHECK_DEADLOCK FALSE
