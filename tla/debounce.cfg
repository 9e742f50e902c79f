SPECIFICATION Spec
CONSTANTS
    c1 = c1
    c2 = c2
    t1 = t1
    t2 = t2
    Nil = Nil
    Target = {t1, t2}
    Namings <- BothNamings
    Caller <- Callers
    Durable <- OneDurable
    Modes <- AllModes
    Delay = 2
    Timeout = 3
    MaxTime = 5
    MaxCrashes = 1
    MaxWaits = 1
    MaxDebouncers = 3
INVARIANTS
    
    LaunchWindow
CHECK_DEADLOCK FALSE
