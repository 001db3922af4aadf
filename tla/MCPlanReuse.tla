----------------------------- MODULE MCPlanReuse -----------------------------
(***************************************************************************)
(* Three nodes, one without a community and one only the manager may see.  *)
(* One packing is stored under its own query ID, and one has none.         *)
(***************************************************************************)
EXTENDS PlanReuse

AllNodes == {"a", "b", "d"}
OwnTopic == [n \in AllNodes |-> IF n = "b" THEN "" ELSE n]

Known(sensitivity) ==
    [version |-> 1, superseded |-> FALSE, tenant |-> "", sensitivity |-> sensitivity,
     approvedBy |-> {}, chunk |-> "chunk"]
Nodes0 == [n \in AllNodes |-> Known(IF n = "d" THEN "confidential" ELSE "internal")]

Clerk   == [clearance |-> "internal", tenant |-> "", trusted |-> {}, unapproved |-> FALSE]
Manager == [Clerk EXCEPT !.clearance = "confidential"]
Callers == {Clerk, Manager}

Packing(session, query, type, nodes) ==
    [session |-> session, query |-> query, type |-> type, nodes |-> nodes]
Accepted ==
    {Packing(0, 1, "Factual", <<"b", "a">>), Packing(2, 0, "Agentic", <<"a", "d">>),
     Packing(2, 1, "Factual", <<"d", "a", "b">>)}
TopicSets == {{"a"}, {"a", "d"}}
=============================================================================
