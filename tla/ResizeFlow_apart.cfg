SPECIFICATION Spec
CONSTANTS
    Clients = {c1, c2, c3}
    Sessions = {s1, s2}
    Sizes <- MCSizes
    Initial <- MCWide
    Policy = "driver"
    MayLeave = TRUE
    LastJump = 1
    LastDrop = 0
    MayDrive = TRUE
    None = None
CHECK_DEADLOCK FALSE
SYMMETRY Symmetric
CONSTRAINT Apart
INVARIANTS TypeOK FitsIfApart ViewAgrees DriversAttached
