SPECIFICATION Spec
CONSTANTS
    a = a
    b = b
    Nil = Nil
    Workflow = {a, b}
    Before <- Opening
    Old <- OldBranch
    New <- NewBranch
    After <- Closing
    Backends = {"postgres", "sqlite"}
    Starts = {0, 2, 3, 4}
    MaxCrashes = 2
    MaxForks = 1
INVARIANTS
    ReplaysFit
    OneBranch
    ForkFromStart
    EffectsAreJournaled
SYMMETRY Symmetric
CHECK_DEADLOCK FALSE
