SPECIFICATION FairRunSpec
CONSTANTS
    Principals = {"acme"}
    Tenants = {"acme"}
    Inputs = {}
    Requests <- AllRequests
INVARIANTS
    RunTypeOK
    GateDifference
    NothingFromDenied
    RedOnlyByConsent
PROPERTIES
    RequestsAnswered
CHECK_DEADLOCK FALSE
