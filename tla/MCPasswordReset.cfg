SPECIFICATION Spec
CONSTANTS
    Subjects = {u1, u2}
    Ids = {i1, i2}
    Calls = {c1, c2}
    IssueAttempts = 2
    MaxSecrets = 3
    Faults = {"error", "expire", "revoke"}
SYMMETRY SlotSymmetry
INVARIANTS
    RedemptionsAccounted
    SpendsOwnLink
CHECK_DEADLOCK FALSE
