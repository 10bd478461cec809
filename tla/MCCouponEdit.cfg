CONSTANTS
    Calls = {c1, c2}
    Mode = "edit"
    Texts = {old}
    NoText = NoText
    OldText = old
    Photos = {p1}
    Original = Original
    Placeholder = Placeholder
    OwnKey = OwnKey
    Absent = Absent
    MaxAppears = 2
SPECIFICATION FairSpec
INVARIANTS
    EditorTypeOK
    RowIsWhole
    
    SavedMeansStored
    PickIsSafe
    EditorSpinnerIsTrue
PROPERTIES
    EditorSpinnerStops
CHECK_DEADLOCK FALSE
