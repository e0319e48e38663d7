CONSTANTS
    Keys = {k1, k2, k3}
    Axes = {}
    AxisValues = {}
    Modules <- GraphModules
    RootLists <- GraphRoots
    Activations <- NoActivation
    MaxDeps = 2
    MaxRoots = 2
    k1 = k1
    k2 = k2
    a = a
    b = b
SPECIFICATION Spec
INVARIANTS
    TypeOK
    StatesMatchStackAndOrder
    StackIsDependencyPath
    PassedIsComplete
    OrderIsTopological
    SeenIsNeeded
    AnswersAsRecursion
PROPERTIES
    RefinesContract
    Terminates
CHECK_DEADLOCK FALSE
