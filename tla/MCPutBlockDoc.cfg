CONSTANTS
    l1 = l1
    Specs = {l1}
    ListSpecs = {l1}
    NoData = NoData
    MaxPuts = 1
    MaxDrops = 1
    MaxDenials = 1
SPECIFICATION FairSpec
PROPERTIES
    CommittedReports
CHECK_DEADLOCK FALSE
