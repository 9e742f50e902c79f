SPECIFICATION Spec
CONSTANTS
    a = a
    b = b
    v1 = v1
    v2 = v2
    k1 = k1
    Workflow = {a, b}
    Slot = {s1, s2}
    Version = {"V1"}
    Key = {k1}
    Value = {v1, v2}
    Nil = Nil
    Sentinel = Sentinel
    StepError = {"WorkflowCancelled"}
    Body <- TwoBodies
    MaxStarts = 2
    MaxFaults = 1
    SnapshotConsume = FALSE
    Overlap = FALSE
SYMMETRY SlotSymmetry
INVARIANTS
    TypeOK
    JournaledEffectsHappened
    SendCopiesBounded
    StreamWellFormed
    EventIsLatest
PROPERTIES
    SuccessIsKept
CHECK_DEADLOCK FALSE
