SPECIFICATION Spec
CONSTANTS
    Procs = {serve, connect}
    Adders = {connect}
    Hosts = {h1, h2}
    Values = {v1, v2}
    Absent = Absent
    Inodes = {i1, i2, i3, i4}
    NoInode = NoInode
    Torn = Torn
SYMMETRY Symmetric
INVARIANTS ConnectedSurvives
