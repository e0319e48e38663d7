CONSTANTS
    Executions = {e1, e2}
    Frames = {f1, f2}
    Bodies <- SmallBodies
    MaxAwaits = 2
    Drivers = {"io", "expected"}
    None = None
SPECIFICATION Spec
INVARIANTS
    FramesAreReady
    CleanupInOrder
PROPERTIES
    RefinesContract
    EveryRunAnswers
CHECK_DEADLOCK FALSE
