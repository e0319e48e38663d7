CONSTANTS
    Keys = {k1, k2}
    Axes = {a, b}
    AxisValues = {1, 2}
    Modules <- TaggedModules
    RootLists <- TaggedRoots
    Activations <- TaggedActivations
    MaxDeps = 2
    MaxRoots = 2
    k1 = k1
    k2 = k2
    a = a
    b = b
SPECIFICATION Spec
PROPERTY RefinesContract
CHECK_DEADLOCK FALSE
