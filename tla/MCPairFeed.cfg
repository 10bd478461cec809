CONSTANTS
    Keys = {k1, k2}
    Texts = {1, 2}
    Absent = Absent
    Nil = Nil
    Failure = Failure
    Feed = "pair"
    MaxEdits = 3
SPECIFICATION FairSpec
PROPERTIES
    FirstAnswer
CHECK_DEADLOCK FALSE
