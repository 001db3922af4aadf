SPECIFICATION RunSpec
CONSTANTS
    Principals = {"acme"}
    Tenants = {"acme"}
    Inputs = {}
    Requests <- LibraryRequests
INVARIANTS
    RedHygieneRefused
CHECK_DEADLOCK FALSE
