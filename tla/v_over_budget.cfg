SPECIFICATION Spec
CONSTANTS
    Principals = {"owner"}
    Tenants = {}
    Inputs <- FoundationInputs
INVARIANTS
    OverBudgetFlagged
CHECK_DEADLOCK FALSE
