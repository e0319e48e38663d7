CONSTANTS
    Effects <- SmallEffects
    Height <- SmallHeights
    Programs <- SmallPrograms
    ItemLists <- SmallItemLists
    SourceDepth = 1
    CallbackDepth = 1
    MaxItems = 1
    Faults = {"handler"}
    LogicError = LogicError
    BadAlloc = BadAlloc
SPECIFICATION Spec
INVARIANT EveryScopeIsClosed
CHECK_DEADLOCK FALSE
