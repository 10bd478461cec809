CONSTANTS
    l1 = l1
    o1 = o1
    Specs = {l1,o1}
    ListSpecs = {l1}
    NoData = NoData
    MaxPuts = 3
    MaxDrops = 2
    MaxDenials = 0
SPECIFICATION FairSpec
INVARIANTS
    NoFlicker
PROPERTIES
    KeepsOrder
    EveryPutReports
CHECK_DEADLOCK FALSE
