SPECIFICATION Spec
CONSTANTS
    a = a
    b = b
    v1 = v1
    v2 = v2
    k1 = k1
    Workflow = {a, b}
    Slot = {s1, s2}
    Version = {"V1", "V2"}
    Key = {k1}
    Value = {v1, v2}
    Nil = Nil
    Sentinel = Sentinel
    StepError = {"WorkflowCancelled"}
    Body <- Upgrade
    MaxStarts = 2
    MaxFaults = 1
    SnapshotConsume = TRUE
    Overlap = TRUE
SYMMETRY SlotSymmetry
INVARIANTS
    ReplayAgrees
    JournalContiguous
    EffectsFollowJournal
    MessageJournaledOnce
    SuccessIsExplained
PROPERTIES
    ImplementsOutcomeOnce
CHECK_DEADLOCK FALSE
