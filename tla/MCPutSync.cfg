CONSTANTS
    l1 = l1
    l2 = l2
    o1 = o1
    Specs = {l1,l2,o1}
    ListSpecs = {l1,l2}
    NoData = NoData
    MaxPuts = 2
    MaxDrops = 2
    MaxDenials = 2
SPECIFICATION Spec
INVARIANTS
    PutSyncTypeOK
    CountIsExact
    AckedStays
SYMMETRY Symmetry
CHECK_DEADLOCK FALSE
