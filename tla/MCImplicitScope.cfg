CONSTANTS
    Families = {"IO", "Result", "expected"}
    Registered <- AllRegistrations
    MaxBindings = 3
SPECIFICATION Spec
PROPERTIES
    OverridesAreLocal
    OperationsKeepTheirPerformers
CHECK_DEADLOCK FALSE
