CONSTANTS
    Calls = {c1, c2}
    Mode = "add"
    Texts = {old, new}
    NoText = NoText
    OldText = old
    Photos = {p1}
    Original = Original
    Placeholder = Placeholder
    OwnKey = OwnKey
    Absent = Absent
    MaxAppears = 2
SYMMETRY Symmetry
SPECIFICATION Spec
INVARIANTS
    RowIsWhole
CHECK_DEADLOCK FALSE
