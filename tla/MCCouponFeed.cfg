CONSTANTS
    Keys = {k1, k2}
    Texts = {1, 2}
    Absent = Absent
    Nil = Nil
    Failure = Failure
    Feed = "my"
    MaxEdits = 2
SPECIFICATION NetFairSpec
INVARIANTS
    TypeOK
    FreshWhenDrained
    StoppedIffReported
PROPERTIES
    LastRowStays
    Converges
CHECK_DEADLOCK FALSE
