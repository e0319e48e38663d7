CONSTANTS
    t1 = t1
    t2 = t2
    h1 = h1
    h2 = h2
    h3 = h3
    h4 = h4
    None = None
    Threads = {t1, t2}
    Handles = {h1, h2, h3, h4}
    Owner <- TwoEach
    Nodes = {n1, n2, n3}
SPECIFICATION Spec
INVARIANTS
    TypeOK
    CountIsExact
    NoDangling
    LastOwnerIsAlone
    DeleteFindsNoSource
PROPERTIES
    NoResurrection
    UnownedIsReclaimed
CHECK_DEADLOCK FALSE
