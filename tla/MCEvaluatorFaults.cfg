CONSTANTS
    Effects <- SmallEffects
    Height <- SmallHeights
    Programs <- SmallPrograms
    ItemLists <- SmallItemLists
    SourceDepth = 2
    CallbackDepth = 1
    MaxItems = 1
    Faults = {"push", "resume", "handler", "exit"}
    LogicError = LogicError
    BadAlloc = BadAlloc
SPECIFICATION Spec
INVARIANTS
    ScopesMatchFrames
    NeverClosedTwice
PROPERTIES
    DefectIsFinal
CHECK_DEADLOCK FALSE
