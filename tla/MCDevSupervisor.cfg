SPECIFICATION DevSpec
CONSTANTS
    Contents = {"a", "b"}
    Broken = "broken"
    Envs = {"x", "y"}
    MaxEdits = 4
INVARIANTS
    ServesTheProject
PROPERTIES
    DevProgress
CHECK_DEADLOCK FALSE
