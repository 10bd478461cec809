CONSTANTS
    Calls = {c1, c2, c3}
    Users = {u1, u2}
    NoUser = NoUser
    Reserve = 0
SYMMETRY Symmetry
SPECIFICATION SessionSpec
INVARIANTS
    SessionTypeOK
    NoTabsWithoutUser
    UserSwitchIsLate
    ProfileUnderOwner
    HalfSignUp
