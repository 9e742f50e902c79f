SPECIFICATION FairSpec
CONSTANTS
    p1 = p1
    p2 = p2
    table = table
    key = key
    column = column
    late = late
    forked = forked
    started = started
    Process <- Processes
    Object <- Objects
    Scripts <- Lists
    MaxFaults = 2
INVARIANTS
    VersionTells
    CompleteWhenAlone
PROPERTIES
    RetryLaunches
CHECK_DEADLOCK FALSE
