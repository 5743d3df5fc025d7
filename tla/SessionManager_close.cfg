SPECIFICATION Spec
CONSTANTS
    Ids = {s1, s2}
    Hosts = {h1}
    Roots = {r1, r2}
    Closers = {t1, t2}
    NoId = NoId
    NoKey = NoKey
INVARIANTS TypeOK FindIsSound AskedNeverReportsHostDown
PROPERTY LookedUpIsClosed
