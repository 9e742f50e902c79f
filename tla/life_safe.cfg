SPECIFICATION Spec
CONSTANTS
    a = a
    b = b
    p1 = p1
    p2 = p2
    x1 = x1
    x2 = x2
    client = client
    q1 = q1
    q2 = q2
    Nil = Nil
    Workflow = {a, b}
    Process = {p1, p2}
    Executor = {x1, x2, client}
    Queue = {q1}
    ExecutorOf <- OwnIds
    Registered <- PartlyRegistered
    Listens <- AllQueues
    Enqueuer <- Clients
    Disturbances <- Everything
    LimitZero = FALSE
    MaxDisturbances = 2
INVARIANTS
    TypeOK
    PendingHasRunner
    QueuedIsListed
    SoleExecution
PROPERTIES
    EndedStaysEnded
CHECK_DEADLOCK FALSE
