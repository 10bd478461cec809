CONSTANTS
    Calls = {c1, c2, c3}
    Fields = {name}
    Required = {name}
    Texts = {a}
    NoText = NoText
    NoProfile = NoProfile
    MaxAppears = 2
    MaxElsewhere = 1
SPECIFICATION FairSpec
INVARIANTS
    SettingsTypeOK
    TypingIsSafe
    SavedStays
    ReadsOwnSubmit
PROPERTIES
    SettingsSpinnerStops
CHECK_DEADLOCK FALSE
