---------------------------- MODULE ContextPacker ----------------------------
(***************************************************************************)
(* DefaultPacker.Pack (pkg/packer): from ranked nodes to a context plan.   *)
(*                                                                         *)
(* The nodes of a call are numbered in the order Rank gives them (total    *)
(* score descending, then node ID): a smaller number is a better score,    *)
(* and from lowFrom on the scores are below 55.  The plan's slots are a    *)
(* set of these numbers; their order is computed when the plan is done.    *)
(***************************************************************************)
EXTENDS SequencesExt, Ordering, AccessGate

CONSTANTS
    Principals,   \* approvers and trusted approvers
    Tenants,      \* tenant IDs
    Inputs        \* the calls of Pack

QueryTypes == {"Factual", "Comparative", "Procedural", "Exploratory", "Temporal",
               "Adversarial", "Agentic"}
SlotTypes == {"overview", "foundation", "bridge", "counterpoint", "procedure",
              "permission", "decision", "support"}
Roles   == {"overview", "foundation", "bridge", "counterpoint", "other"}
Signals == {"green", "yellow", "red"}
Reasons == {"access-control", "slot-policy", "stale", "duplicate", "budget"}

NodeRecord ==
    [chunk : ChunkTypes, role : Roles, tokens : Nat, superseded : BOOLEAN,
     approvedBy : SUBSET Principals, sensitivity : Sensitivities,
     tenant : Tenants \cup {""},
     cluster : Nat,      \* its duplicate cluster, 0 for none
     hops : SUBSET Nat]  \* its community members or decision-basis targets

InputRecord ==
    [type : QueryTypes, historical : BOOLEAN, budget : Int,
     clearance : Clearances, lowFrom : Nat, nodes : Seq(NodeRecord)]

ASSUME InputsAssumption == Inputs \subseteq InputRecord

VARIABLES
    pc,          \* "idle", "pack" or "done"
    input,       \* the arguments of the call
    todo,        \* ranked nodes not yet considered
    slots,       \* the nodes packed
    suppressed,  \* the suppressed entries: [node, reason]
    firsts,      \* seenDuplicateClusters: the first node seen of each cluster
    signal       \* plan.HygieneSignal

packerVars == <<pc, input, todo, slots, suppressed, firsts, signal>>

NoInput == [type |-> "Factual", historical |-> FALSE, budget |-> 0,
            clearance |-> "", lowFrom |-> 0, nodes |-> <<>>]

-----------------------------------------------------------------------------
(* Slot policy (slots.go).                                                 *)

RequiredSlots ==
    [Factual     |-> [foundation |-> 1],
     Comparative |-> [foundation |-> 2, bridge |-> 1, counterpoint |-> 1],
     Procedural  |-> [foundation |-> 1, procedure |-> 1],
     Exploratory |-> [overview |-> 1, bridge |-> 1],
     Temporal    |-> [foundation |-> 1],
     Adversarial |-> [foundation |-> 1, counterpoint |-> 1],
     Agentic     |-> [foundation |-> 1, procedure |-> 1, permission |-> 1, decision |-> 1]]

\* The caps above 1; support has none to speak of.
Caps ==
    [Factual     |-> [foundation |-> 3],
     Comparative |-> [foundation |-> 4, bridge |-> 2],
     Procedural  |-> [foundation |-> 2, procedure |-> 3],
     Exploratory |-> [overview |-> 3, foundation |-> 2, bridge |-> 3],
     Temporal    |-> [foundation |-> 3],
     Adversarial |-> [foundation |-> 3, counterpoint |-> 2],
     Agentic     |-> [foundation |-> 2, procedure |-> 3, permission |-> 2, decision |-> 2]]

SlotMax(type, slot) ==
    IF slot = "support" THEN 99
    ELSE IF slot \in DOMAIN Caps[type] THEN Caps[type][slot] ELSE 1

SlotAllowed(type, slot) ==
    /\ slot = "procedure" => type \in {"Procedural", "Adversarial", "Agentic"}
    /\ slot = "permission" => type # "Exploratory"

\* The chunk type decides before the role does.
SlotTypeFor(node) ==
    CASE node.chunk = "permission-record" -> "permission"
      [] node.chunk = "decision"          -> "decision"
      [] node.chunk = "procedure"         -> "procedure"
      [] node.chunk = "community-summary" -> "overview"
      [] OTHER -> IF node.role = "other" THEN "support" ELSE node.role

IsControllingSlot(slot) == slot \in {"permission", "procedure", "decision"}

-----------------------------------------------------------------------------
(* The plan under construction.                                            *)

Nodes       == DOMAIN input.nodes
Node(n)     == input.nodes[n]
SlotOf(n)   == SlotTypeFor(Node(n))
OfType(S, slot) == {n \in S : SlotOf(n) = slot}
\* Mutant of Visible: Pack does not gate its nodes again.
Ungated     == Nodes
Visible     == {n \in Nodes : CanSeeNode(PackerContext(input.clearance), Node(n))}
TokensOf(nodes, S) == SumOf([n \in DOMAIN nodes |-> IF n \in S THEN nodes[n].tokens ELSE 0])
TokensUsed  == TokensOf(input.nodes, slots)
Entry(n, r) == [node |-> n, reason |-> r]

\* buildSlot: the hops it always adds name the node itself, the others the
\* members of a community summary and the basis of a decision.
SourceTrail(n) ==
    {n} \cup (IF Node(n).chunk \in {"community-summary", "decision"}
              THEN Node(n).hops ELSE {})

\* duplicateSuppressed: a cluster's first member decides for the later ones.
SeenCluster(n) == {m \in firsts : Node(m).cluster = Node(n).cluster}
DuplicateSuppressed(n) ==
    \E m \in SeenCluster(n) :
        ~(input.type \in {"Comparative", "Adversarial"} /\ Node(m).chunk # Node(n).chunk)
\* Mutants of MarkSeen: the cluster is never recorded; its number is taken for a node.
MarkNothing(n) == UNCHANGED firsts
MarkCluster(n) == firsts' = firsts \cup {Node(n).cluster}
MarkSeen(n) ==
    firsts' = IF Node(n).cluster # 0 /\ SeenCluster(n) = {} THEN firsts \cup {n} ELSE firsts

PositionFor(n) ==
    LET slot == SlotOf(n) IN
    CASE slot = "permission" /\ input.type = "Agentic"   -> "front"
      [] slot \in {"foundation", "procedure"}            -> "front"
      [] slot = "decision"                               -> "back"
      [] slot = "counterpoint" /\ input.type \in {"Adversarial", "Comparative", "Agentic"} -> "back"
      [] slot = "bridge" /\ input.type = "Comparative"   -> "front"
      [] OTHER                                           -> "middle"

SlotPriority(n) ==
    LET slot == SlotOf(n) IN
    CASE input.type = "Agentic" /\ slot = "permission"   -> 0
      [] input.type = "Agentic" /\ slot = "foundation"   -> 1
      [] input.type = "Agentic" /\ slot = "procedure"    -> 2
      [] input.type = "Exploratory" /\ slot = "overview" -> 0
      [] input.type = "Comparative" /\ slot = "bridge"   -> 1
      [] OTHER                                           -> 3

\* orderedSlots: bands, then priority, then score and node ID.
Band(n) == [front |-> 1, middle |-> 2, back |-> 3][PositionFor(n)]
\* Mutant of Before: ties go to the worse score.
BeforeReversed(m, n) ==
    \/ Band(m) < Band(n)
    \/ Band(m) = Band(n) /\ SlotPriority(m) < SlotPriority(n)
    \/ Band(m) = Band(n) /\ SlotPriority(m) = SlotPriority(n) /\ m > n
Before(m, n) ==
    \/ Band(m) < Band(n)
    \/ Band(m) = Band(n) /\ SlotPriority(m) < SlotPriority(n)
    \/ Band(m) = Band(n) /\ SlotPriority(m) = SlotPriority(n) /\ m < n

\* rebuildPlanIndexes: the path follows the slots.
EvidencePath == InOrder(slots, {p \in slots \X slots : Before(p[1], p[2])})

\* trimCandidate: the worst of the middle slots of a type; support goes first,
\* then overviews, then bridges.
Middle(slot) == {n \in OfType(slots, slot) : PositionFor(n) = "middle"}
\* Mutant of Trimmable: bridges are never given up.
TrimmableNoBridge ==
    IF Middle("support") # {} THEN Middle("support") ELSE Middle("overview")
Trimmable ==
    IF Middle("support") # {} THEN Middle("support")
    ELSE IF Middle("overview") # {} THEN Middle("overview") ELSE Middle("bridge")
OverBudget == input.budget > 0 /\ TokensUsed > input.budget

AgenticHardFailure ==
    \/ OfType(slots, "permission") = {} \/ OfType(slots, "procedure") = {}
    \/ \E n \in slots : IsControllingSlot(SlotOf(n)) /\ SourceTrail(n) = {}

\* A slot under its minimum.
Unfilled ==
    \E slot \in DOMAIN RequiredSlots[input.type] :
        Cardinality(OfType(slots, slot)) < RequiredSlots[input.type][slot]

\* Mutant of HygieneSignal: red only when every required slot is missing.
AllMissingSignal ==
    IF \A slot \in DOMAIN RequiredSlots[input.type] : OfType(slots, slot) = {}
    THEN "red"
    ELSE IF \E n \in slots : n >= input.lowFrom THEN "yellow" ELSE "green"

HygieneSignal ==
    IF Unfilled \/ (input.type = "Agentic" /\ AgenticHardFailure) THEN "red"
    ELSE IF \E n \in slots : n >= input.lowFrom THEN "yellow" ELSE "green"

-----------------------------------------------------------------------------
Init ==
    /\ pc = "idle" /\ input = NoInput
    /\ todo = {} /\ slots = {} /\ suppressed = {} /\ firsts = {}
    /\ signal = "green"

\* Pack ranks again, with the clearance alone, and drops what that may not see.
Pack(in) ==
    /\ pc = "idle"
    /\ pc' = "pack"
    /\ input' = in
    /\ todo' = Visible'
    /\ suppressed' = {Entry(n, "access-control") : n \in (DOMAIN in.nodes) \ Visible'}
    /\ UNCHANGED <<slots, firsts, signal>>

\* One round of the selection loop on n, the best node left.
Consider(n) ==
    /\ pc = "pack"
    /\ n \in todo /\ \A m \in todo : n <= m
    /\ todo' = todo \ {n}

Suppress(n, reason) ==
    /\ suppressed' = suppressed \cup {Entry(n, reason)}
    /\ UNCHANGED <<pc, input, slots, signal>>

Stale(n) == Node(n).superseded /\ ~(input.type = "Temporal" /\ input.historical)
\* Mutant of Unapproved: the packer relies on Rank for approvals.
NeverUnapproved(n) == FALSE
Unapproved(n) ==
    input.type = "Agentic" /\ IsControllingSlot(SlotOf(n)) /\ Node(n).approvedBy = {}
Eligible(n) == SlotAllowed(input.type, SlotOf(n)) /\ ~Stale(n) /\ ~Unapproved(n)
\* Mutant of Full: one slot too many.
Overfull(n) == Cardinality(OfType(slots, SlotOf(n))) > SlotMax(input.type, SlotOf(n))
Full(n) == Cardinality(OfType(slots, SlotOf(n))) >= SlotMax(input.type, SlotOf(n))

SuppressForbidden(n) ==
    /\ Consider(n)
    /\ ~SlotAllowed(input.type, SlotOf(n))
    /\ Suppress(n, "slot-policy")
    /\ UNCHANGED firsts

SuppressStale(n) ==
    /\ Consider(n)
    /\ SlotAllowed(input.type, SlotOf(n)) /\ Stale(n)
    /\ Suppress(n, "stale")
    /\ UNCHANGED firsts

SuppressUnapproved(n) ==
    /\ Consider(n)
    /\ SlotAllowed(input.type, SlotOf(n)) /\ ~Stale(n) /\ Unapproved(n)
    /\ Suppress(n, "slot-policy")
    /\ UNCHANGED firsts

\* Mutant of SuppressDuplicate: the duplicate is dropped without an entry.
DropDuplicate(n) ==
    /\ Consider(n)
    /\ Eligible(n) /\ DuplicateSuppressed(n)
    /\ UNCHANGED <<pc, input, slots, suppressed, firsts, signal>>

SuppressDuplicate(n) ==
    /\ Consider(n)
    /\ Eligible(n) /\ DuplicateSuppressed(n)
    /\ Suppress(n, "duplicate")
    /\ UNCHANGED firsts

\* The cluster counts as seen although its member finds the slot full.
SuppressFull(n) ==
    /\ Consider(n)
    /\ Eligible(n) /\ ~DuplicateSuppressed(n) /\ Full(n)
    /\ Suppress(n, "slot-policy")
    /\ MarkSeen(n)

Select(n) ==
    /\ Consider(n)
    /\ Eligible(n) /\ ~DuplicateSuppressed(n) /\ ~Full(n)
    /\ slots' = slots \cup {n}
    /\ MarkSeen(n)
    /\ UNCHANGED <<pc, input, suppressed, signal>>

\* Mutants of Trim: the best slot goes first; the trimmed slot leaves no entry.
TrimBest(n) ==
    /\ pc = "pack" /\ todo = {}
    /\ OverBudget
    /\ n \in Trimmable /\ \A m \in Trimmable : n <= m
    /\ slots' = slots \ {n}
    /\ suppressed' = suppressed \cup {Entry(n, "budget")}
    /\ UNCHANGED <<pc, input, todo, firsts, signal>>
TrimSilently(n) ==
    /\ pc = "pack" /\ todo = {}
    /\ OverBudget
    /\ n \in Trimmable /\ \A m \in Trimmable : m <= n
    /\ slots' = slots \ {n}
    /\ UNCHANGED <<pc, input, todo, suppressed, firsts, signal>>

\* One round of trimToBudget.
Trim(n) ==
    /\ pc = "pack" /\ todo = {}
    /\ OverBudget
    /\ n \in Trimmable /\ \A m \in Trimmable : m <= n
    /\ slots' = slots \ {n}
    /\ suppressed' = suppressed \cup {Entry(n, "budget")}
    /\ UNCHANGED <<pc, input, todo, firsts, signal>>

\* Mutant of Finish: trimToBudget has no way out when nothing may go.
FinishInBudget ==
    /\ pc = "pack" /\ todo = {}
    /\ ~OverBudget
    /\ signal' = HygieneSignal
    /\ pc' = "done"
    /\ UNCHANGED <<input, todo, slots, suppressed, firsts>>

\* The plan fits, or nothing more may go.  In that case trimToBudget sets the
\* signal to red, and hygieneSignal overwrites it.
Finish ==
    /\ pc = "pack" /\ todo = {}
    /\ OverBudget => Trimmable = {}
    /\ signal' = HygieneSignal
    /\ pc' = "done"
    /\ UNCHANGED <<input, todo, slots, suppressed, firsts>>

Round(n) ==
    \/ SuppressForbidden(n) \/ SuppressStale(n) \/ SuppressUnapproved(n)
    \/ SuppressDuplicate(n) \/ SuppressFull(n) \/ Select(n) \/ Trim(n)

Packing == (\E n \in Nodes : Round(n)) \/ Finish
Next == (pc = "idle" /\ \E in \in Inputs : Pack(in)) \/ Packing

Spec == Init /\ [][Next]_packerVars
\* Pack is a loop of one goroutine.
FairSpec == Spec /\ WF_packerVars(Packing)

-----------------------------------------------------------------------------
(* Properties.                                                             *)

TypeOK ==
    /\ pc \in {"idle", "pack", "done"}
    /\ input \in InputRecord
    /\ todo \subseteq Nodes /\ slots \subseteq Nodes /\ firsts \subseteq Nodes
    /\ suppressed \subseteq [node : Nodes, reason : Reasons]
    /\ signal \in Signals

\* Every ranked node ends in a slot or in one suppressed entry, never in both
\* and never in neither: no suppression is silent.
Accounted ==
    pc = "done" =>
      \A n \in Nodes : Cardinality({e \in suppressed : e.node = n})
                       = (IF n \in slots THEN 0 ELSE 1)

\* At every moment no slot type exceeds its maximum.
SlotCaps ==
    \A slot \in SlotTypes : Cardinality(OfType(slots, slot)) <= SlotMax(input.type, slot)

\* A finished plan that lacks a required slot is red, also when trimming to the
\* budget took it.
RequiredOrRed ==
    pc = "done" /\ signal # "red" =>
      \A slot \in DOMAIN RequiredSlots[input.type] :
        Cardinality(OfType(slots, slot)) >= RequiredSlots[input.type][slot]

\* An Agentic plan that is not red rests on an approved permission record, an
\* approved procedure and an approved decision, and on nothing unapproved.
AgenticFailClosed ==
    pc = "done" /\ input.type = "Agentic" /\ signal # "red" =>
      /\ {"permission", "procedure", "decision"} \subseteq {SlotOf(n) : n \in slots}
      /\ \A n \in slots : IsControllingSlot(SlotOf(n)) => Node(n).approvedBy # {}

\* A duplicate cluster contributes at most one slot, except to Comparative and
\* Adversarial plans.
OnePerCluster ==
    input.type \notin {"Comparative", "Adversarial"} =>
      \A m, n \in slots : Node(m).cluster = Node(n).cluster /\ Node(m).cluster # 0 => m = n

Trimmed == {e.node : e \in {x \in suppressed : x.reason = "budget"}}
TrimRank(n) == [support |-> 1, overview |-> 2, bridge |-> 3][SlotOf(n)]

\* Trimming gives up the lowest-scored middle support first, then overviews,
\* then bridges, stops as soon as the plan fits, and never touches other slots.
TrimmedInOrder ==
    pc = "done" =>
      /\ \A n \in Trimmed : SlotOf(n) \in {"support", "overview", "bridge"}
      /\ \A n \in Trimmed, m \in slots :
           SlotOf(m) \in {"support", "overview", "bridge"} /\ PositionFor(m) = "middle" =>
             TrimRank(n) < TrimRank(m) \/ (TrimRank(n) = TrimRank(m) /\ m < n)
      /\ Trimmed # {} =>
           \E n \in Trimmed : TokensUsed + Node(n).tokens > input.budget

\* A plan over its budget keeps only slots that trimming may not take.
BudgetOrExhausted ==
    pc = "done" /\ OverBudget =>
      \A n \in slots : SlotOf(n) \in {"support", "overview", "bridge"} =>
                         PositionFor(n) # "middle"

\* A plan over its budget is not green.
OverBudgetFlagged == pc = "done" /\ OverBudget => signal # "green"

\* The evidence path lists each slot once: front, middle, back, with permission
\* before foundation before procedure in Agentic plans, and within a slot type
\* of a band the better score first.
PathOrdered ==
    pc = "done" =>
      LET path == EvidencePath
      IN  /\ ToSet(path) = slots /\ Len(path) = Cardinality(slots)
          /\ \A i, j \in 1..Len(path) :
               i < j =>
                 /\ PositionFor(path[i]) = "back" => PositionFor(path[j]) = "back"
                 /\ PositionFor(path[j]) = "front" => PositionFor(path[i]) = "front"
                 /\ input.type = "Agentic" /\ SlotOf(path[j]) = "permission" =>
                      SlotOf(path[i]) = "permission"
                 /\ input.type = "Agentic" /\ SlotOf(path[j]) = "foundation" =>
                      SlotOf(path[i]) # "procedure"
                 /\ SlotOf(path[i]) = SlotOf(path[j]) => path[i] < path[j]

\* Packing ends.
PackReturns == pc = "pack" ~> pc = "done"
=============================================================================
