CONSTANTS
    Effects <- SmallEffects
    Height <- SmallHeights
    Programs <- SmallPrograms
    ItemLists <- SmallItemLists
    SourceDepth = 2
    CallbackDepth = 1
    MaxItems = 3
    Faults = {}
    LogicError = LogicError
    BadAlloc = BadAlloc
SPECIFICATION Spec
INVARIANTS
    MeaningPreserved
    InterpretersAgree
    TraverseInOrder
PROPERTY
    Terminates
CHECK_DEADLOCK FALSE
