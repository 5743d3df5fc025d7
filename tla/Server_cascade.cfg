SPECIFICATION ServerSpec
CONSTANTS
    Ids = {1, 2}
    Hosts = {h1, h2}
    Roots = {r1}
    Clients = {c1}
    Closers = {1, 2, main}
    Main = main
    NoId = NoId
    NoKey = NoKey
    MayStop = TRUE
INVARIANTS ServerTypeOK NoForeignClose OneSessionPerKey
PROPERTY CascadeCompletes
