------------------------------- MODULE Pipeline -------------------------------
(***************************************************************************)
(* rag.Pipeline.Run (pkg/rag): validate, rank behind the request's access  *)
(* context, route, hygiene, pack, decide; and the three surfaces that hand *)
(* its result to a caller: the CLI (pkg/ragcli), HTTP and stdio            *)
(* (cmd/serve).                                                            *)
(***************************************************************************)
EXTENDS ContextPacker

CONSTANT Requests   \* what callers send

Surfaces == {"library", "cli", "http", "stdio"}
Outcomes == {"none", "ok", "invalid", "denied", "red"}

AccessContext ==
    [clearance : Clearances, tenant : Tenants \cup {""},
     trusted : SUBSET Principals, unapproved : BOOLEAN]

\* A request, with what the components modelled elsewhere make of it: whether
\* BuildAnalysis accepts it, what the router recommends, the hygiene signal.
RequestRecord ==
    [surface : Surfaces, access : AccessContext,
     type : QueryTypes \cup {""}, budget : Int, degraded : BOOLEAN,
     nodes : Seq(NodeRecord), historical : BOOLEAN, lowFrom : Nat,
     valid : BOOLEAN, routed : QueryTypes, hint : Int, hygiene : Signals]

ASSUME RequestsAssumption == Requests \subseteq RequestRecord

VARIABLES
    stage,    \* where Run is
    req,      \* the request
    ranked,   \* the nodes that Rank(req.Access) allows
    outcome,  \* Run's error
    reply     \* what the surface gave the caller

runVars == <<stage, req, ranked, outcome, reply>>
vars    == <<packerVars, runVars>>

NoReply == [plan |-> FALSE, code |-> 0]

\* The arguments of Pack: of the access context only the clearance; the budget
\* of the request, else the router's hint, else 4000.
RunType == IF req.type = "" THEN req.routed ELSE req.type
RunBudget ==
    IF req.budget > 0 THEN req.budget
    ELSE IF req.type = "" /\ req.hint > 0 THEN req.hint ELSE 4000
PackArguments ==
    [type |-> RunType, historical |-> req.historical, budget |-> RunBudget,
     clearance |-> req.access.clearance, lowFrom |-> req.lowFrom, nodes |-> req.nodes]

RunInit ==
    /\ Init
    /\ stage = "idle" /\ req = [nodes |-> <<>>] /\ ranked = {}
    /\ outcome = "none" /\ reply = NoReply

Receive(r) ==
    /\ stage = "idle"
    /\ stage' = "analyze"
    /\ req' = r
    /\ UNCHANGED <<packerVars, ranked, outcome, reply>>

EndRun(result) ==
    /\ stage' = "respond"
    /\ outcome' = result
    /\ UNCHANGED <<req, reply>>

\* Mutant of RejectInvalid: stdio drops a request that does not parse.
RejectOverHttp ==
    /\ stage = "analyze" /\ ~req.valid /\ req.surface # "stdio"
    /\ EndRun("invalid")
    /\ UNCHANGED <<packerVars, ranked>>

RejectInvalid ==
    /\ stage = "analyze" /\ ~req.valid
    /\ EndRun("invalid")
    /\ UNCHANGED <<packerVars, ranked>>

Rank ==
    /\ stage = "analyze" /\ req.valid
    /\ ranked' = {n \in DOMAIN req.nodes : CanSeeNode(req.access, req.nodes[n])}
    /\ stage' = "ranked"
    /\ UNCHANGED <<packerVars, req, outcome, reply>>

\* Mutant of DeniedOnly: any allowed or denied set goes on to the packer.
NeverDenied == FALSE

\* accessDeniedOnly: there were nodes, and none is allowed.
DeniedOnly == ranked = {} /\ req.nodes # <<>>

RefuseDenied ==
    /\ stage = "ranked" /\ DeniedOnly
    /\ EndRun("denied")
    /\ UNCHANGED <<packerVars, ranked>>

CallPack ==
    /\ stage = "ranked" /\ ~DeniedOnly
    /\ Pack(PackArguments)
    /\ stage' = "packing"
    /\ UNCHANGED <<req, ranked, outcome, reply>>

PackStep == stage = "packing" /\ Packing /\ UNCHANGED runVars

\* The hygiene report replaces the plan's signal only when that is green.
FinalSignal == IF signal = "green" THEN req.hygiene ELSE signal

\* Mutant of Decide: the packer's signal decides, before the report is merged.
DecideBeforeMerge ==
    /\ stage = "packing" /\ pc = "done"
    /\ signal' = FinalSignal
    /\ EndRun(IF signal = "red" /\ ~req.degraded THEN "red" ELSE "ok")
    /\ UNCHANGED <<pc, input, todo, slots, suppressed, firsts, ranked>>

Decide ==
    /\ stage = "packing" /\ pc = "done"
    /\ signal' = FinalSignal
    /\ EndRun(IF FinalSignal = "red" /\ ~req.degraded THEN "red" ELSE "ok")
    /\ UNCHANGED <<pc, input, todo, slots, suppressed, firsts, ranked>>

\* Mutant of ReplyFor: a reply that the surface does not define.
ReplyForbidden(surface, result) ==
    [plan |-> result \in {"ok", "red"},
     code |-> IF result = "denied" THEN 403 ELSE IF result = "ok" THEN 0 ELSE 1]

\* The CLI prints whatever plan there is when degraded plans are allowed; HTTP
\* and stdio pass a red plan on although Run returned an error.
ReplyFor(surface, result) ==
    CASE surface = "library" -> [plan |-> result \in {"ok", "red"}, code |-> IF result = "ok" THEN 0 ELSE 1]
      [] surface = "cli"     -> IF result # "ok" /\ ~req.degraded
                                THEN [plan |-> FALSE, code |-> 1]
                                ELSE [plan |-> TRUE, code |-> 0]
      [] surface = "http"    -> [plan |-> result \in {"ok", "red"},
                                 code |-> CASE result \in {"ok", "red"} -> 200
                                            [] result = "invalid"       -> 400
                                            [] OTHER                    -> 500]
      [] OTHER               -> [plan |-> result \in {"ok", "red"},
                                 code |-> IF result \in {"ok", "red"} THEN 0 ELSE 1]

Respond ==
    /\ stage = "respond"
    /\ reply' = ReplyFor(req.surface, outcome)
    /\ stage' = "done"
    /\ UNCHANGED <<packerVars, req, ranked, outcome>>

RunStep == RejectInvalid \/ Rank \/ RefuseDenied \/ CallPack \/ PackStep \/ Decide \/ Respond
RunNext == (stage = "idle" /\ \E r \in Requests : Receive(r)) \/ RunStep

RunSpec == RunInit /\ [][RunNext]_vars
\* Run is straight-line code of one goroutine.
FairRunSpec == RunSpec /\ WF_vars(RunStep)

-----------------------------------------------------------------------------
(* Properties.                                                             *)

Stages == {"idle", "analyze", "ranked", "packing", "respond", "done"}

RunTypeOK ==
    /\ TypeOK
    /\ stage \in Stages
    /\ stage # "idle" => req \in RequestRecord
    /\ ranked \subseteq DOMAIN req.nodes
    /\ outcome \in Outcomes
    /\ reply \in [plan : BOOLEAN, code : {0, 1, 200, 400, 500}]

\* The packer's own gate is weaker than the request's in one respect only: it
\* lets an unapproved permission, decision or procedure into a plan that is not
\* Agentic.  No tenant's and no confidential node slips through.
GateDifference ==
    \A n \in slots \ ranked : /\ RequiresAgenticApproval(Node(n).chunk)
                              /\ Node(n).approvedBy = {}
                              /\ input.type # "Agentic"

\* When the request's access denies every node, none reaches a plan, although
\* the packer's own gate would let some through.
NothingFromDenied ==
    stage = "done" /\ req.nodes # <<>> /\ ranked = {} => slots = {} /\ outcome # "ok"

\* Run succeeds with a red plan only for a caller that accepts degraded plans,
\* whether the packer or the hygiene report made it red.
RedOnlyByConsent == outcome = "ok" /\ signal = "red" => req.degraded

\* "A red corrective signal means do not pack final context unless the caller
\* sets AllowDegradedPlan=true".
RedHygieneRefused ==
    stage = "done" /\ outcome = "ok" /\ req.hygiene = "red" => req.degraded

\* Every request is answered.
RequestsAnswered == stage = "analyze" ~> stage = "done"
=============================================================================
