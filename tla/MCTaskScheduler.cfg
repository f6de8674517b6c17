\* Three calls and two processes that start: four of them in one history, and one call
\* when a start overlapped or one died (CONSTRAINT).
CONSTANTS
    every1 = every1
    every2 = every2
    Schedules = {every1, every2}
    Period <- Period2
    Runs <- Runs2
    Calls = {c1, c2, c3}
    Boots = {b1, b2}
    Workers = {w1}
    MaxNow = 2
SPECIFICATION Spec
SYMMETRY CallSymmetry
CONSTRAINT Explored
INVARIANTS
    TypeOK
    StoppedMeansQuiet
    StartedMeansScheduled
    NeverStuck
    InitExclusive
CHECK_DEADLOCK FALSE
