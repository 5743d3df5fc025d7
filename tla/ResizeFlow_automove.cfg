SPECIFICATION Spec
CONSTANTS
    Clients = {c1}
    Sessions = {s1, s2, s3}
    Sizes <- MCOneSize
    Initial <- MCWide
    Policy = "smallest"
    MayLeave = FALSE
    LastJump = 0
    LastDrop = 2
    MayDrive = FALSE
    None = None
CHECK_DEADLOCK FALSE
PROPERTY ScreenIsMoved
