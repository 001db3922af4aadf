SPECIFICATION Spec
CONSTANTS
    Nodes <- AllNodes
    Topic <- OwnTopic
    FirstNode <- Nodes0
    Contexts <- Callers
    Packings <- Accepted
    Queries = {0, 1, 2}
    Types = {"Factual", "Agentic"}
    Requests <- TopicSets
    Limits = {0, 1}
    MaxStored = 2
    MaxChanges = 2
INVARIANTS
    ReuseTypeOK
    OfferedIsReusable
    OverwrittenShows
PROPERTIES
    KnownNodesGated
    AcceptanceChangesNothing
CHECK_DEADLOCK FALSE
