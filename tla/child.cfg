SPECIFICATION FairSpec
CONSTANTS
    top = top
    mid = mid
    leaf = leaf
    bad = bad
    risky = risky
    p1 = p1
    p2 = p2
    Nil = Nil
    Name = {top, mid, leaf, bad, risky}
    Body <- Bodies
    Fails = {bad}
    Root = {top, risky}
    Process = {p1, p2}
    MaxRoots = 1
    MaxFaults = 2
INVARIANTS
    ChildOfItsStep
    OrphansBounded
    SuccessNeedsChildren
PROPERTIES
    OnlySelfBlocked
CHECK_DEADLOCK FALSE
