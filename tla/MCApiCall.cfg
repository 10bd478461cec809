CONSTANTS
    Calls = {c1, c2, c3}
SPECIFICATION ApiFairSpec
INVARIANTS
    SuccessIsReal
PROPERTIES
    KeepsContract
    EverySinkSettles
CHECK_DEADLOCK FALSE
