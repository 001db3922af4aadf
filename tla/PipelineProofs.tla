---------------------------- MODULE PipelineProofs ----------------------------
(***************************************************************************)
(* Theorems about Pipeline.Run, for every request.                         *)
(***************************************************************************)
EXTENDS Pipeline, ContextPackerProofs

-----------------------------------------------------------------------------
(* Types, and where each stage stands.                                     *)

Allowed == {n \in DOMAIN req.nodes : CanSeeNode(req.access, req.nodes[n])}

\* Before Pack nothing is packed; from Pack on, the packer's input is the
\* request's, and the ranked nodes are those its access context allows.
RunInv ==
    /\ RunTypeOK /\ PackInv
    /\ stage = "idle" => req = [nodes |-> <<>>] /\ ranked = {}
    /\ stage \in {"idle", "analyze", "ranked"} => pc = "idle"
    /\ stage \in {"idle", "analyze", "ranked", "packing"} => outcome = "none"
    /\ stage \in {"ranked", "packing"} => ranked = Allowed
    /\ pc # "idle" => stage # "idle" /\ ranked = Allowed /\ input = PackArguments
    /\ stage = "packing" => ~DeniedOnly
    /\ stage \in {"respond", "done"} /\ DeniedOnly => pc = "idle" /\ outcome # "ok"

LEMMA ArgumentsType ==
    ASSUME req \in RequestRecord
    PROVE  PackArguments \in InputRecord
<1>1. RunType \in QueryTypes BY DEF RunType, RequestRecord
<1>2. RunBudget \in Int
  <2>1. req.budget \in Int /\ req.hint \in Int BY DEF RequestRecord
  <2>2. RunBudget \in {req.budget, req.hint, 4000} BY DEF RunBudget
  <2> QED BY <2>1, <2>2
<1> QED BY <1>1, <1>2 DEF PackArguments, RequestRecord, InputRecord, AccessContext

LEMMA ReplyType ==
    ASSUME NEW surface \in Surfaces, NEW result \in Outcomes
    PROVE  ReplyFor(surface, result) \in [plan : BOOLEAN, code : {0, 1, 200, 400, 500}]
<1>1. CASE surface = "library" BY <1>1 DEF ReplyFor
<1>2. CASE surface = "cli" BY <1>2 DEF ReplyFor
<1>3. CASE surface = "http"
  <2>1. CASE result \in {"ok", "red"} BY <1>3, <2>1 DEF ReplyFor
  <2>2. CASE result = "invalid" BY <1>3, <2>2 DEF ReplyFor
  <2>3. CASE result \in {"none", "denied"} BY <1>3, <2>3 DEF ReplyFor
  <2> QED BY <2>1, <2>2, <2>3 DEF Outcomes
<1>4. CASE surface = "stdio" BY <1>4 DEF ReplyFor
<1> QED BY <1>1, <1>2, <1>3, <1>4 DEF Surfaces

LEMMA InitRun == RunInit => RunInv
<1> SUFFICES ASSUME RunInit PROVE RunInv OBVIOUS
<1>1. PackInv BY InitPack DEF RunInit
<1>2. reply \in [plan : BOOLEAN, code : {0, 1, 200, 400, 500}] BY DEF RunInit, NoReply
<1> QED BY <1>1, <1>2 DEF RunInit, Init, RunInv, RunTypeOK, PackInv, Stages, Outcomes

\* What the steps outside the packer keep.
LEMMA SamePacker ==
    ASSUME UNCHANGED packerVars
    PROVE  PackInv' <=> PackInv
BY DEF packerVars, PackInv, TypeOK, Nodes

LEMMA SameRequest ==
    ASSUME req' = req
    PROVE  Allowed' = Allowed /\ PackArguments' = PackArguments
BY DEF Allowed, PackArguments, RunType, RunBudget

LEMMA RunKept == RunInv /\ [RunNext]_vars => RunInv'
<1> SUFFICES ASSUME RunInv, [RunNext]_vars PROVE RunInv' OBVIOUS
<1> USE DEF RunInv, RunTypeOK, Stages, Outcomes
<1>0. PackInv' => TypeOK' BY DEF PackInv
<1>1. ASSUME NEW r \in Requests, Receive(r) PROVE RunInv'
  <2>1. req' \in RequestRecord /\ ranked' = {} BY <1>1, RequestsAssumption DEF Receive
  <2>2. PackInv' BY <1>1, SamePacker DEF Receive
  <2>3. pc' = "idle" /\ outcome' = "none" /\ stage' = "analyze" /\ reply' = reply
        BY <1>1 DEF Receive, packerVars
  <2> QED BY <1>0, <2>1, <2>2, <2>3
<1>2. CASE RejectInvalid \/ Rank \/ RefuseDenied
  <2>1. PackInv' /\ UNCHANGED packerVars /\ req' = req /\ reply' = reply
        BY <1>2, SamePacker DEF RejectInvalid, Rank, RefuseDenied, EndRun
  <2>2. pc = "idle" /\ pc' = "idle" BY <1>2, <2>1 DEF RejectInvalid, Rank, RefuseDenied, packerVars
  <2>3. CASE Rank
    <3>1. ranked' = Allowed /\ stage' = "ranked" /\ outcome' = outcome /\ stage = "analyze"
          BY <2>3 DEF Rank, Allowed
    <3> QED BY <1>0, <2>1, <2>2, <3>1, SameRequest DEF Allowed
  <2>4. CASE RejectInvalid \/ RefuseDenied
    <3>1. /\ stage' = "respond" /\ outcome' \in {"invalid", "denied"} /\ ranked' = ranked
          /\ stage # "idle"
          BY <2>4 DEF RejectInvalid, RefuseDenied, EndRun
    <3> QED BY <1>0, <2>1, <2>2, <3>1
  <2> QED BY <1>2, <2>3, <2>4
<1>3. CASE CallPack
  <2>1. Pack(PackArguments) /\ stage = "ranked" /\ stage' = "packing" /\ ~DeniedOnly
        /\ UNCHANGED <<req, ranked, outcome, reply>>
        BY <1>3 DEF CallPack
  <2>2. PackInv' BY <2>1, ArgumentsType, PackCallType
  <2>3. input' = PackArguments BY <2>1 DEF Pack
  <2>4. ~DeniedOnly' BY <2>1 DEF DeniedOnly
  <2> QED BY <1>0, <2>1, <2>2, <2>3, <2>4, SameRequest
<1>4. CASE PackStep
  <2>1. Packing /\ stage = "packing" /\ UNCHANGED runVars BY <1>4 DEF PackStep
  <2>2. PackInv' /\ input' = input /\ pc = "pack"
    <3>1. CASE \E n \in Nodes : Round(n)
          BY <3>1, RoundType DEF Round, SuppressForbidden, SuppressStale, SuppressUnapproved,
             SuppressDuplicate, SuppressFull, Select, Trim, Consider
    <3>2. CASE Finish BY <3>2, FinishType DEF Finish
    <3> QED BY <2>1, <3>1, <3>2 DEF Packing
  <2>3. UNCHANGED <<stage, req, ranked, outcome, reply>> BY <2>1 DEF runVars
  <2>4. DeniedOnly' = DeniedOnly BY <2>3 DEF DeniedOnly
  <2> QED BY <1>0, <2>1, <2>2, <2>3, <2>4, SameRequest
<1>5. CASE Decide
  <2>1. /\ stage = "packing" /\ stage' = "respond" /\ outcome' \in {"red", "ok"}
        /\ UNCHANGED <<pc, input, todo, slots, suppressed, firsts, ranked, req, reply>>
        BY <1>5 DEF Decide, EndRun
  <2>2. signal' \in Signals
        BY <1>5, <2>1 DEF Decide, FinalSignal, TypeOK, RequestRecord
  <2>3. PackInv' BY <2>1, <2>2 DEF PackInv, TypeOK, Nodes
  <2>4. ~DeniedOnly' BY <2>1 DEF DeniedOnly
  <2> QED BY <1>0, <2>1, <2>3, <2>4, SameRequest
<1>6. CASE Respond
  <2>1. /\ stage = "respond" /\ stage' = "done" /\ reply' = ReplyFor(req.surface, outcome)
        /\ UNCHANGED packerVars /\ UNCHANGED <<req, ranked, outcome>>
        BY <1>6 DEF Respond
  <2>2. reply' \in [plan : BOOLEAN, code : {0, 1, 200, 400, 500}]
    <3>1. req.surface \in Surfaces /\ outcome \in Outcomes BY <2>1 DEF RequestRecord
    <3> QED BY <2>1, <3>1, ReplyType
  <2>3. PackInv' /\ pc' = pc /\ input' = input BY <2>1, SamePacker DEF packerVars
  <2>4. DeniedOnly' = DeniedOnly BY <2>1 DEF DeniedOnly
  <2> QED BY <1>0, <2>1, <2>2, <2>3, <2>4, SameRequest
<1>7. CASE UNCHANGED vars
  <2>1. PackInv' /\ UNCHANGED <<pc, input, stage, req, ranked, outcome, reply>>
        BY <1>7, SamePacker DEF vars, packerVars, runVars
  <2>2. DeniedOnly' = DeniedOnly BY <2>1 DEF DeniedOnly
  <2> QED BY <1>0, <2>1, <2>2, SameRequest
<1> QED BY <1>1, <1>2, <1>3, <1>4, <1>5, <1>6, <1>7 DEF RunNext, RunStep

\* The types of the packer's and the pipeline's variables.
THEOREM RunTypeCorrect == RunSpec => []RunTypeOK
<1>1. RunSpec => []RunInv BY InitRun, RunKept, PTL DEF RunSpec
<1>2. RunInv => RunTypeOK BY DEF RunInv
<1> QED BY <1>1, <1>2, PTL

\* A request whose access denies every node gets no plan, although the packer's
\* own gate would let some of the nodes through.
THEOREM DeniedGetsNothing == RunSpec => []NothingFromDenied
<1>1. RunSpec => []RunInv BY InitRun, RunKept, PTL DEF RunSpec
<1>2. RunInv => NothingFromDenied
      BY DEF RunInv, PackInv, NothingFromDenied, DeniedOnly
<1> QED BY <1>1, <1>2, PTL

-----------------------------------------------------------------------------
(* Red plans.                                                              *)

\* Run returns a red plan without an error only to a caller that accepts
\* degraded plans, whether the packer or the hygiene report made it red.
THEOREM RedNeedsConsent == RunSpec => []RedOnlyByConsent
<1>1. RunInit => RedOnlyByConsent BY DEF RunInit, RedOnlyByConsent
<1>2. RunInv /\ RedOnlyByConsent /\ [RunNext]_vars => RedOnlyByConsent'
  <2> SUFFICES ASSUME RunInv, RedOnlyByConsent, [RunNext]_vars PROVE RedOnlyByConsent'
      OBVIOUS
  <2>1. CASE Decide BY <2>1 DEF Decide, EndRun, RedOnlyByConsent
  <2>2. CASE Respond \/ UNCHANGED vars
        BY <2>2 DEF Respond, RedOnlyByConsent, vars, packerVars, runVars
  <2>3. CASE RunNext /\ ~Decide /\ ~Respond
    <3>1. outcome' # "ok"
          BY <2>3 DEF RunNext, RunStep, Receive, RejectInvalid, Rank, RefuseDenied, CallPack,
                      PackStep, EndRun, RunInv, runVars
    <3> QED BY <3>1 DEF RedOnlyByConsent
  <2> QED BY <2>1, <2>2, <2>3
<1>3. RunSpec => [](RunInv /\ RedOnlyByConsent)
      BY <1>1, <1>2, InitRun, RunKept, PTL DEF RunSpec
<1> QED BY <1>3, PTL

-----------------------------------------------------------------------------
(* The two gates.  Rank is asked with the request's access context, Pack   *)
(* asks again with its clearance alone.  Everything the packer considers   *)
(* has passed the second gate.                                             *)

GatedInv == slots \subseteq Visible /\ todo \subseteq Visible /\ ApprovalInv

\* The gates agree on tenants, sensitivities and approvers: the second differs
\* on nodes that need an approval and have none.
LEMMA GatesCompared ==
    ASSUME NEW ctx \in AccessContext, NEW node \in NodeRecord,
           CanSeeNode(PackerContext(ctx.clearance), node),
           ~CanSeeNode(ctx, node)
    PROVE  RequiresAgenticApproval(node.chunk) /\ node.approvedBy = {}
<1>1. node.tenant = "" BY DEF CanSeeNode, PackerContext
<1>2. SensitivityOrdinal(node.sensitivity) <= ClearanceOrdinal(ctx.clearance)
      BY DEF CanSeeNode, PackerContext
<1>3. ~(SensitivityOrdinal(node.sensitivity) >= 2 /\ node.approvedBy # {})
      BY DEF CanSeeNode, PackerContext
<1> QED BY <1>1, <1>2, <1>3 DEF CanSeeNode

\* Such a node is a controlling one, which an Agentic plan refuses by itself.
LEMMA ControllingChunk ==
    ASSUME NEW node, RequiresAgenticApproval(node.chunk)
    PROVE  IsControllingSlot(SlotTypeFor(node))
BY DEF RequiresAgenticApproval, IsControllingSlot, SlotTypeFor

LEMMA GatedKept == RunInv /\ GatedInv /\ [RunNext]_vars => GatedInv'
<1> SUFFICES ASSUME RunInv, GatedInv, [RunNext]_vars PROVE GatedInv' OBVIOUS
<1>1. PackInv BY DEF RunInv
<1>2. CASE CallPack
  <2>1. Pack(PackArguments) /\ pc = "idle" BY <1>2 DEF CallPack, Pack
  <2>2. slots' = {} /\ todo' = Visible' BY <1>1, <2>1 DEF Pack, PackInv
  <2> QED BY <2>2 DEF GatedInv, ApprovalInv
<1>3. CASE PackStep
  <2>1. Packing BY <1>3 DEF PackStep
  <2>2. ApprovalInv' BY <1>1, <2>1, ApprovalPacking DEF GatedInv
  <2>3. CASE \E n \in Nodes : Round(n)
    <3> PICK n \in Nodes : Round(n) BY <2>3
    <3>1. input' = input BY <1>1, RoundType
    <3>2. Visible' = Visible BY <3>1 DEF Visible, Nodes, Node
    <3>3. todo' \subseteq todo /\ slots' \subseteq slots \cup todo
          BY <1>1, RoundAccount
    <3> QED BY <2>2, <3>2, <3>3 DEF GatedInv
  <2>4. CASE Finish
    <3>1. UNCHANGED <<input, todo, slots>> BY <2>4 DEF Finish
    <3> QED BY <2>2, <3>1 DEF GatedInv, Visible, Nodes, Node
  <2> QED BY <2>1, <2>3, <2>4 DEF Packing
<1>4. CASE UNCHANGED <<input, todo, slots>>
  <2>1. Visible' = Visible BY <1>4 DEF Visible, Nodes, Node
  <2>2. ApprovalInv' BY <1>4 DEF GatedInv, ApprovalInv, SlotOf, Node
  <2> QED BY <1>4, <2>1, <2>2 DEF GatedInv
<1>5. [RunNext]_vars => CallPack \/ PackStep \/ UNCHANGED <<input, todo, slots>>
      BY DEF RunNext, RunStep, Receive, RejectInvalid, Rank, RefuseDenied, Decide, Respond,
             vars, packerVars
<1> QED BY <1>2, <1>3, <1>4, <1>5

\* Whatever the nodes and the caller's rights, the plan exceeds what Rank allows
\* the request only by unapproved permissions, decisions and procedures in a plan
\* that is not Agentic: no tenant's, no restricted and no untrusted node.
THEOREM PlanExceedsRankOnlyByApproval == RunSpec => []GateDifference
<1>1. RunInit => GatedInv BY DEF RunInit, Init, GatedInv, ApprovalInv
<1>2. RunSpec => [](RunInv /\ GatedInv)
      BY <1>1, InitRun, RunKept, GatedKept, PTL DEF RunSpec
<1>3. RunInv /\ GatedInv => GateDifference
  <2> SUFFICES ASSUME RunInv, GatedInv, NEW n \in slots \ ranked
               PROVE  /\ RequiresAgenticApproval(Node(n).chunk)
                      /\ Node(n).approvedBy = {} /\ input.type # "Agentic"
      BY DEF GateDifference
  <2>1. /\ n \in Nodes /\ CanSeeNode(PackerContext(input.clearance), Node(n))
        BY DEF GatedInv, Visible
  <2>2. pc # "idle" BY DEF RunInv, PackInv
  <2>3. /\ ranked = Allowed /\ req \in RequestRecord
        /\ input.nodes = req.nodes /\ input.clearance = req.access.clearance
        BY <2>2 DEF RunInv, RunTypeOK, PackArguments
  <2>4. Node(n) \in NodeRecord /\ req.access \in AccessContext
    <3>1. req.nodes \in Seq(NodeRecord) /\ req.access \in AccessContext
          BY <2>3 DEF RequestRecord
    <3> QED BY <2>1, <2>3, <3>1 DEF Nodes, Node
  <2>5. ~CanSeeNode(req.access, Node(n)) BY <2>1, <2>3 DEF Allowed, Nodes, Node
  <2>6. RequiresAgenticApproval(Node(n).chunk) /\ Node(n).approvedBy = {}
        BY <2>1, <2>3, <2>4, <2>5, GatesCompared
  <2>7. input.type # "Agentic" BY <2>6, ControllingChunk DEF GatedInv, ApprovalInv, SlotOf
  <2> QED BY <2>6, <2>7
<1> QED BY <1>2, <1>3, PTL
=============================================================================
