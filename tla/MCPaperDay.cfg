CONSTANTS
    Running = {"day", "review", "ready", "pair", "cli"}
    r1 = r1
    r2 = r2
    a = a
    b = b
    i1 = i1
    i2 = i2
    x = x
    y = y
    None = None
    Run = {r1, r2}
    Path = {a, b}
    Ino = {i1, i2}
    Unmet <- Shortfalls
    MaxFaults = 1
    MaxCrashes = 1
    OperatorCareful = TRUE
SPECIFICATION RunSpec
SYMMETRY Symmetry
CHECK_DEADLOCK FALSE
INVARIANTS
    ReviewPassesCleanRuns
    ReadyRunStartsClean
    CommandLineIsHonest

    
