SPECIFICATION Spec
CONSTANTS
    Subjects = {u1}
    Ids = {i1, i2}
    Calls = {c1, c2}
    IssueAttempts = 2
    MaxSecrets = 2
    Faults = {}
SYMMETRY SlotSymmetry
INVARIANT SingleUse
CHECK_DEADLOCK FALSE
