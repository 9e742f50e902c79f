SPECIFICATION FairSpec
CONSTANTS
    a = a
    b = b
    p1 = p1
    p2 = p2
    x1 = x1
    x2 = x2
    client = client
    q1 = q1
    q2 = q2
    Nil = Nil
    Workflow = {a, b}
    Process = {p1, p2}
    Executor = {x1, x2, client}
    Queue = {q1}
    ExecutorOf <- OwnIds
    Registered <- AllRegistered
    Listens <- AllQueues
    Enqueuer <- Enqueuers
    Disturbances <- Postponements
    LimitZero = FALSE
    MaxDisturbances = 1
PROPERTIES
    EventuallyDone
CHECK_DEADLOCK FALSE
