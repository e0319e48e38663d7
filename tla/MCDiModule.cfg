CONSTANTS
    Modules = {m1, m2, m3}
    Keys = {k1, k2}
    SetKeys = {s}
    Objects = {o1, o2}
    MaxOps = 4
SPECIFICATION Spec
SYMMETRY SomeModules
INVARIANTS
    RegisteredInOrder
    SetsHoldEachOnce
CHECK_DEADLOCK FALSE
