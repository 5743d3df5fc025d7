SPECIFICATION Spec
CONSTANTS
    Serve = serve
    Connect = connect
    Hosts = {h1, h2}
    Keys = {k1, k2}
    Overlap = FALSE
    None = None
    Empty = Empty
    Junk = Junk
INVARIANTS TypeOK SetupIsEnough RegisteredTrusts
