SPECIFICATION FairSpec
CONSTANTS
    a = a
    b = b
    x1 = x1
    x2 = x2
    q1 = q1
    q2 = q2
    k1 = k1
    d1 = d1
    Nil = Nil
    Workflow = {a, b}
    Worker = {x1, x2}
    Queue = {q1, q2}
    Internal = q2
    Partition = {k1}
    Dedup = {d1}
    Options <- SomeOptions
    Config <- PartedQueue
    Backends = {"postgres", "sqlite"}
    Commands = {"cancel", "resume", "crash"}
    MaxCommands = 1
    MaxTime = 1
INVARIANTS
    ConcurrencyBound
    RateBound
    DedupExclusive
PROPERTIES
    NothingStarves
CHECK_DEADLOCK FALSE
