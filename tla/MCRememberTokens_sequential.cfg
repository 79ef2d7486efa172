SPECIFICATION Spec
CONSTANTS
    u1 = u1
    Subjects = {u1}
    Browsers = {b1, b2}
    Requests = {q1, q2}
    OwnerOf <- MCOwnerOf
    MaxDrawn = 5
    Faults = {"lapse", "signout", "revoke"}
SYMMETRY SlotSymmetry
ACTION_CONSTRAINT OneAtATime
INVARIANTS
    TypeOK
    NoFalseTheft
CHECK_DEADLOCK FALSE
