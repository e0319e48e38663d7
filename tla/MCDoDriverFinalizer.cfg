CONSTANTS
    Executions = {e1}
    Frames = {f1}
    Bodies <- SmallBodies
    MaxAwaits = 2
    Drivers = {"io"}
    None = None
SPECIFICATION Spec
INVARIANT FrameGoneBeforeFinalizers
CHECK_DEADLOCK FALSE
