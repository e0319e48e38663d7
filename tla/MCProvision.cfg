CONSTANTS
    k1 = k1
    k2 = k2
    k3 = k3
    r1 = r1
    r2 = r2
    Keys = {k1, k2, k3}
    Chain <- ThreeKeys
    Axes = {}
    AxisValues = {}
    Modules <- AcyclicModules
    RootLists <- TopRoots
    Activations <- NoActivation
    Runs = {r1}
    Supplied = Supplied
    Behaviours = {"construct", "alias", "instance", "failure", "defect"}
SPECIFICATION Spec
INVARIANTS
    OnlyProvidersDefect
    CalledInOrder
    DieInReverse
    RollbackIsComplete
PROPERTIES
    ReleaseDoesNotCascade
    RunsEnd
CHECK_DEADLOCK FALSE
