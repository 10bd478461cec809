CONSTANTS
    Calls = {c1, c2}
    Users = {u1, u2}
    NoUser = NoUser
    Reserve = 1
SPECIFICATION SessionFairSpec
INVARIANTS
    SpinnerIsTrue
PROPERTIES
    SpinnerStops
