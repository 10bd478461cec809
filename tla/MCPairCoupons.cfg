CONSTANTS
    MaxTaps = 2
    List = List
    People = {p1, p2}
    Malformed = Malformed
    NoText = NoText
    Nil = Nil
    Me = Me
    Texts = {x, y}
    MaxSaves = 1
    MaxLaunches = 1
SPECIFICATION FairSpec
INVARIANTS
    PairTypeOK
    MailGoesToOwner
    MailIsWhole
    CrashNeedsBadId
PROPERTIES
    NothingHangs
CHECK_DEADLOCK FALSE
