SPECIFICATION RagSpec
CONSTANTS
    Files <- AllFiles
    Calls <- AllCalls
    NowYear = 2026
    MaxReads = 1
    Handoffs <- AllHandoffs
    Callers <- AllCallers
    MaxAdded = 2
INVARIANTS
    RagTypeOK
    EveryCandidateOnce
    BudgetRespected
    TwoPathsAgree
    RoutedByHandoff
PROPERTIES
    ImplementsPartition
    ReadingNeverHurts
    RedactionKeepsItBuildable
    SuggestionsSettle
