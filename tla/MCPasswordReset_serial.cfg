SPECIFICATION Spec
CONSTANTS
    Subjects = {u1}
    Ids = {i1, i2}
    Calls = {c1, c2, c3}
    IssueAttempts = 2
    MaxSecrets = 4
    Faults = {"error", "expire", "revoke"}
ACTION_CONSTRAINT IssueAlone
SYMMETRY SlotSymmetry
INVARIANTS
    TypeOK
    SingleUse
    OneArmedLink
CHECK_DEADLOCK FALSE
