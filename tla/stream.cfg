SPECIFICATION FairSpec
CONSTANTS
    r1 = r1
    r2 = r2
    x1 = x1
    x2 = x2
    Reader <- Readers
    Local <- OneLocal
    Writer <- Writers
    Froms <- Offsets
    Backends <- Both
    MaxEntries = 2
    MaxDrops = 1
INVARIANTS
    InOrder
PROPERTIES
    ReadersReturn
CHECK_DEADLOCK FALSE
