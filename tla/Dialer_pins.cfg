SPECIFICATION Spec
CONSTANTS
    Conns = {c1, c2}
    Hosts = {h1, h2}
    Keys = {k1, k2}
    Procs = {serve}
    Proc <- MCOneProcess
    Garbage = Garbage
    None = None
INVARIANTS TypeOK FirstUseIsPinned NothingLeft
PROPERTY DropIsNoticed
