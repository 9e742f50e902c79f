SPECIFICATION FairSpec
CONSTANTS
    p1 = p1
    p2 = p2
    a = a
    b = b
    Nil = Nil
    Process <- Processes
    Schedules <- Names
    Options <- Choices
    Spans <- LastSpan
    MaxTime = 2
    MaxCommands = 1
    MaxCrashes = 1
INVARIANTS
    NoSlotLost
PROPERTIES
    SlotsFire
CHECK_DEADLOCK FALSE
