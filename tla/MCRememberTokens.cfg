SPECIFICATION Spec
CONSTANTS
    u1 = u1
    Subjects = {u1}
    Browsers = {b1}
    Requests = {q1, q2}
    OwnerOf <- MCOwnerOf
    MaxDrawn = 4
    Faults = {"lapse", "lose", "expire", "signout", "revoke", "error"}
SYMMETRY SlotSymmetry
INVARIANTS
    OneReplacement
    RevokedStaysGone
PROPERTY
    CookieOnlyAdvances
CHECK_DEADLOCK FALSE
