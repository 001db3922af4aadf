SPECIFICATION FairSpec
CONSTANTS
    Principals = {"owner"}
    Tenants = {}
    Inputs <- AllInputs
INVARIANTS
    TypeOK
    Accounted
    SlotCaps
    RequiredOrRed
    AgenticFailClosed
    OnePerCluster
    TrimmedInOrder
    BudgetOrExhausted
    PathOrdered
PROPERTIES
    PackReturns
CHECK_DEADLOCK FALSE
