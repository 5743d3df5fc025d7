SPECIFICATION Spec
CONSTANTS
    Procs = {p1}
    Adders = {p1}
    Hosts = {h1, h2}
    Values = {v1, v2}
    Absent = Absent
    Inodes = {i1, i2, i3}
    NoInode = NoInode
    Torn = Torn
INVARIANTS TypeOK AckedIsStored
PROPERTY ImplementsDurableMap
