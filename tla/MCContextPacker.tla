--------------------------- MODULE MCContextPacker ---------------------------
(***************************************************************************)
(* Calls of Pack for TLC: all lists of a length over a few kinds of node.  *)
(***************************************************************************)
EXTENDS ContextPacker

Plain ==
    [chunk |-> "chunk", role |-> "other", tokens |-> 1, superseded |-> FALSE,
     approvedBy |-> {}, sensitivity |-> "internal", tenant |-> "",
     cluster |-> 0, hops |-> {}]

WithRole(r)  == [Plain EXCEPT !.role = r]
WithChunk(c) == [Plain EXCEPT !.chunk = c]
Approved(n)  == [n EXCEPT !.approvedBy = {"owner"}]
InCluster(n, c) == [n EXCEPT !.cluster = c]
Costing(n, t)   == [n EXCEPT !.tokens = t]

Calls(types, historical, budgets, lowFrom, kinds, length) ==
    [type : types, historical : historical, budget : budgets,
     clearance : {"internal"}, lowFrom : lowFrom, nodes : [1..length -> kinds]]

\* Agentic and Procedural plans from controlling nodes, approved or not.
ControllingNodes ==
    {WithRole("foundation"), Approved(WithChunk("permission-record")),
     Approved(WithChunk("procedure")), WithChunk("procedure"),
     Approved(WithChunk("decision"))}
AgenticInputs ==
    Calls({"Agentic"}, {FALSE}, {0}, {5}, ControllingNodes, 5)
    \cup Calls({"Procedural"}, {FALSE}, {0}, {4}, ControllingNodes, 4)

\* Duplicate clusters and superseded nodes.
ClusteredNodes ==
    {InCluster(WithRole("foundation"), 1), InCluster(WithRole("bridge"), 1),
     InCluster([WithRole("foundation") EXCEPT !.chunk = "claim"], 1),
     InCluster(WithRole("foundation"), 2),
     [WithRole("foundation") EXCEPT !.sensitivity = "restricted"],
     [WithRole("foundation") EXCEPT !.superseded = TRUE]}
ClusterInputs ==
    Calls({"Factual", "Comparative"}, {FALSE}, {0}, {9}, ClusteredNodes, 4)
    \cup Calls({"Temporal"}, BOOLEAN, {0}, {9}, ClusteredNodes, 3)

\* Plans over budget.
TrimNodes ==
    {WithRole("foundation"), Plain, Costing(Plain, 2), Costing(WithRole("overview"), 2),
     WithRole("bridge"), WithRole("counterpoint")}
TrimInputs ==
    Calls({"Factual", "Exploratory"}, {FALSE}, {2, 4}, {9}, TrimNodes, 4)

AllInputs == AgenticInputs \cup ClusterInputs \cup TrimInputs

\* More required slots than the budget holds.
FoundationInputs == Calls({"Factual"}, {FALSE}, {2}, {9}, {WithRole("foundation"), Plain}, 4)
=============================================================================
