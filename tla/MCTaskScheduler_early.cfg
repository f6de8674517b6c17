\* A job that runs longer than the period of its task.
CONSTANTS
    every1 = every1
    every2 = every2
    Schedules = {every1, every2}
    Period <- Period2
    Runs <- Runs2
    Calls = {c1}
    Boots = {}
    Workers = {w1}
    MaxNow = 3
SPECIFICATION Spec
PROPERTY NotStoppedEarly
CHECK_DEADLOCK FALSE
