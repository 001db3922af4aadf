------------------------------ MODULE MCPipeline ------------------------------
(***************************************************************************)
(* Requests for TLC.  Service callers come with a GovOne context, callers  *)
(* of the CLI with a clearance alone.                                      *)
(***************************************************************************)
EXTENDS Pipeline

Plain ==
    [chunk |-> "chunk", role |-> "foundation", tokens |-> 1, superseded |-> FALSE,
     approvedBy |-> {}, sensitivity |-> "internal", tenant |-> "",
     cluster |-> 0, hops |-> {}]

NodeKinds ==
    {Plain,
     [Plain EXCEPT !.chunk = "procedure"],
     [Plain EXCEPT !.chunk = "permission-record", !.approvedBy = {"acme"}],
     [Plain EXCEPT !.sensitivity = "confidential", !.approvedBy = {"acme"}],
     [Plain EXCEPT !.tenant = "acme"]}

ServiceContexts == {ContextFromGovOne(r, "acme") : r \in {"operator", "viewer", "unknown"}}
CliContexts     == {[PackerContext(c) EXCEPT !.unapproved = FALSE] : c \in {"internal", "public"}}

Sent(surfaces, contexts, types, valid, hygiene, length) ==
    [surface : surfaces, access : contexts, type : types, budget : {0},
     degraded : BOOLEAN, nodes : [1..length -> NodeKinds], historical : {FALSE},
     lowFrom : {2}, valid : valid, routed : {"Factual"}, hint : {3500}, hygiene : hygiene]

ServiceRequests ==
    Sent({"library", "http", "stdio"}, ServiceContexts, {"Procedural", "Agentic", ""},
         {TRUE}, {"green", "red"}, 2)
CliRequests ==
    Sent({"cli"}, CliContexts, {"", "Procedural"}, {TRUE}, {"green", "yellow", "red"}, 2)
InvalidRequests ==
    Sent(Surfaces, CliContexts, {""}, {FALSE}, {"green"}, 1)
AllRequests == ServiceRequests \cup CliRequests \cup InvalidRequests

LibraryRequests ==
    Sent({"library"}, ServiceContexts, {"Procedural"}, {TRUE}, {"green", "red"}, 2)
=============================================================================
