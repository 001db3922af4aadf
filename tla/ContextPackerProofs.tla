------------------------- MODULE ContextPackerProofs -------------------------
(***************************************************************************)
(* Theorems about DefaultPacker.Pack, for every list of ranked nodes,      *)
(* every query type, budget and clearance.                                 *)
(***************************************************************************)
EXTENDS ContextPacker, OrderingProofs

-----------------------------------------------------------------------------
(* Types, and what is empty before the first call.                         *)

PackInv ==
    /\ TypeOK
    /\ pc = "idle" => /\ input = NoInput
                      /\ slots = {} /\ firsts = {} /\ suppressed = {} /\ todo = {}
    /\ pc = "done" => todo = {}

LEMMA InitPack == Init => PackInv
<1>1. NoInput \in InputRecord
      BY DEF NoInput, InputRecord, QueryTypes, Clearances, Sensitivities
<1> QED BY <1>1 DEF Init, PackInv, TypeOK, Signals

\* An action of one node concerns a node of the call.
LEMMA EntryType ==
    ASSUME NEW n \in Nodes, NEW r \in Reasons
    PROVE  Entry(n, r) \in [node : Nodes, reason : Reasons]
BY DEF Entry

LEMMA SignalType == HygieneSignal \in Signals
BY DEF HygieneSignal, Signals

LEMMA PackCallType ==
    ASSUME PackInv, NEW in \in InputRecord, Pack(in)
    PROVE  PackInv'
<1>1. input' = in /\ Nodes' = DOMAIN in.nodes BY DEF Pack, Nodes
<1>2. todo' \subseteq Nodes' BY <1>1 DEF Pack, Visible, Nodes
<1>3. suppressed' \subseteq [node : Nodes', reason : Reasons]
      BY <1>1 DEF Pack, Entry, Reasons
<1>4. slots' = {} /\ firsts' = {} /\ signal' = signal /\ pc' = "pack"
      BY DEF Pack, PackInv
<1> QED BY <1>1, <1>2, <1>3, <1>4 DEF PackInv, TypeOK

LEMMA RoundType ==
    ASSUME PackInv, NEW n \in Nodes, Round(n)
    PROVE  PackInv' /\ input' = input /\ Nodes' = Nodes /\ pc' = "pack"
<1>1. input' = input /\ pc = "pack" /\ pc' = "pack" /\ signal' = signal
      BY DEF Round, SuppressForbidden, SuppressStale, SuppressUnapproved,
             SuppressDuplicate, SuppressFull, Select, Trim, Suppress, Consider
<1>2. Nodes' = Nodes BY <1>1 DEF Nodes
<1>3. todo' \subseteq todo
      BY DEF Round, SuppressForbidden, SuppressStale, SuppressUnapproved,
             SuppressDuplicate, SuppressFull, Select, Trim, Suppress, Consider
<1>4. firsts' \subseteq firsts \cup {n}
      BY DEF Round, SuppressForbidden, SuppressStale, SuppressUnapproved,
             SuppressDuplicate, SuppressFull, Select, Trim, MarkSeen
<1>5. slots' \subseteq slots \cup {n}
      BY DEF Round, SuppressForbidden, SuppressStale, SuppressUnapproved,
             SuppressDuplicate, SuppressFull, Select, Trim, Suppress
<1>6. \E r \in Reasons : suppressed' \subseteq suppressed \cup {Entry(n, r)}
      BY DEF Round, SuppressForbidden, SuppressStale, SuppressUnapproved,
             SuppressDuplicate, SuppressFull, Select, Trim, Suppress, Reasons
<1> QED BY <1>1, <1>2, <1>3, <1>4, <1>5, <1>6, EntryType DEF PackInv, TypeOK

LEMMA FinishType ==
    ASSUME PackInv, Finish
    PROVE  PackInv' /\ input' = input /\ Nodes' = Nodes
BY SignalType DEF PackInv, TypeOK, Finish, Nodes

LEMMA NextPack == PackInv /\ [Next]_packerVars => PackInv'
<1> SUFFICES ASSUME PackInv, [Next]_packerVars PROVE PackInv' OBVIOUS
<1>1. CASE UNCHANGED packerVars BY <1>1 DEF packerVars, PackInv, TypeOK, Nodes
<1>2. CASE Next
      BY <1>2, PackCallType, RoundType, FinishType, InputsAssumption DEF Next, Packing
<1> QED BY <1>1, <1>2

\* Every slot, first member and entry is a node of the call.
THEOREM PackerTypeCorrect == Spec => []TypeOK
<1>1. Spec => []PackInv BY InitPack, NextPack, PTL DEF Spec
<1>2. PackInv => TypeOK BY DEF PackInv
<1> QED BY <1>1, <1>2, PTL

-----------------------------------------------------------------------------
(* What a round keeps: the call, and with it what a node is.               *)

LEMMA SameCall ==
    ASSUME input' = input
    PROVE  /\ Nodes' = Nodes
           /\ \A n : Node(n)' = Node(n) /\ SlotOf(n)' = SlotOf(n)
BY DEF Nodes, Node, SlotOf

\* A round selects an eligible node that the slot policy has room for, or
\* leaves the slots or takes one from them.
LEMMA RoundSlots ==
    ASSUME NEW n \in Nodes, Round(n)
    PROVE  \/ slots' \subseteq slots /\ firsts \subseteq firsts'
           \/ /\ slots' = slots \cup {n}
              /\ Eligible(n) /\ ~DuplicateSuppressed(n) /\ ~Full(n) /\ MarkSeen(n)
<1>1. MarkSeen(n) => firsts \subseteq firsts' BY DEF MarkSeen
<1> QED BY <1>1 DEF Round, SuppressForbidden, SuppressStale, SuppressUnapproved,
                    SuppressDuplicate, SuppressFull, Select, Trim, Suppress

-----------------------------------------------------------------------------
(* Duplicates.  That the slots hold one member of a cluster at most rests  *)
(* on the first members: a cluster with a slot has one.                    *)

Lenient == input.type \in {"Comparative", "Adversarial"}
ClusterInv ==
    /\ OnePerCluster
    /\ ~Lenient => \A n \in slots : Node(n).cluster # 0 => SeenCluster(n) # {}

LEMMA RoundCluster ==
    ASSUME PackInv, ClusterInv, NEW n \in Nodes, Round(n)
    PROVE  ClusterInv'
<1>1. input' = input BY RoundType
<1>2. Lenient' = Lenient BY <1>1 DEF Lenient
<1>3. \A m : Node(m)' = Node(m) BY <1>1, SameCall
<1> SUFFICES ASSUME ~Lenient PROVE ClusterInv'
    BY <1>2 DEF ClusterInv, OnePerCluster, Lenient
<1>4. \A m : SeenCluster(m)' = {k \in firsts' : Node(k).cluster = Node(m).cluster}
      BY <1>3 DEF SeenCluster
<1>5. CASE slots' \subseteq slots /\ firsts \subseteq firsts'
      BY <1>1, <1>2, <1>3, <1>4, <1>5 DEF ClusterInv, OnePerCluster, Lenient, SeenCluster
<1>6. CASE slots' = slots \cup {n} /\ ~DuplicateSuppressed(n) /\ MarkSeen(n)
  <2>1. SeenCluster(n) = {} BY <1>6 DEF DuplicateSuppressed, Lenient
  <2>2. \A m \in slots : Node(m).cluster # 0 => Node(m).cluster # Node(n).cluster
        BY <2>1 DEF ClusterInv, SeenCluster
  <2>3. OnePerCluster' BY <1>1, <1>3, <1>6, <2>2 DEF ClusterInv, OnePerCluster, Lenient
  <2>4. firsts \subseteq firsts' /\ (Node(n).cluster # 0 => n \in firsts')
        BY <1>6, <2>1 DEF MarkSeen
  <2>5. \A m \in slots' : Node(m)'.cluster # 0 => SeenCluster(m)' # {}
        BY <1>3, <1>4, <1>6, <2>4 DEF ClusterInv, SeenCluster
  <2> QED BY <2>3, <2>5 DEF ClusterInv
<1> QED BY <1>5, <1>6, RoundSlots

\* The slots hold at most one member of a duplicate cluster, unless the query is
\* Comparative or Adversarial, whatever the clusters and their order.
THEOREM ClustersContributeOnce == Spec => []OnePerCluster
<1>1. Init => ClusterInv
      BY DEF Init, ClusterInv, OnePerCluster, Lenient
<1>2. PackInv /\ ClusterInv /\ [Next]_packerVars => ClusterInv'
  <2> SUFFICES ASSUME PackInv, ClusterInv, [Next]_packerVars PROVE ClusterInv' OBVIOUS
  <2>1. CASE \E in \in Inputs : Pack(in)
    <3>1. slots' = {} BY <2>1 DEF Pack, PackInv
    <3> QED BY <3>1 DEF ClusterInv, OnePerCluster
  <2>2. CASE \E n \in Nodes : Round(n) BY <2>2, RoundCluster
  <2>3. CASE Finish \/ UNCHANGED packerVars
    <3>1. UNCHANGED <<input, slots, firsts>> BY <2>3 DEF Finish, packerVars
    <3> QED BY <3>1 DEF ClusterInv, OnePerCluster, Lenient, SeenCluster, Node
  <2> QED BY <2>1, <2>2, <2>3 DEF Next, Packing
<1>3. Spec => [](PackInv /\ ClusterInv)
      BY <1>1, <1>2, InitPack, NextPack, PTL DEF Spec
<1>4. ClusterInv => OnePerCluster BY DEF ClusterInv
<1> QED BY <1>3, <1>4, PTL

-----------------------------------------------------------------------------
(* Agentic plans.                                                          *)

\* The counts of hygieneSignal are of finite sets.
LEMMA SlotsFinite ==
    ASSUME PackInv
    PROVE  IsFiniteSet(slots) /\ \A slot : IsFiniteSet(OfType(slots, slot))
<1>1. input.nodes \in Seq(NodeRecord) /\ slots \subseteq 1..Len(input.nodes)
      BY DEF PackInv, TypeOK, InputRecord, Nodes
<1>2. IsFiniteSet(1..Len(input.nodes)) BY <1>1, FS_Interval
<1>3. IsFiniteSet(slots) BY <1>1, <1>2, FS_Subset
<1>4. \A slot : OfType(slots, slot) \in SUBSET slots BY DEF OfType
<1> QED BY <1>3, <1>4, FS_Subset

\* What the signal of a finished plan says of its slots.
SignalInv == pc = "done" => signal = HygieneSignal

LEMMA SignalKept == PackInv /\ SignalInv /\ [Next]_packerVars => SignalInv'
<1> SUFFICES ASSUME PackInv, SignalInv, [Next]_packerVars, pc' = "done"
             PROVE  signal' = HygieneSignal'
    BY DEF SignalInv
<1>1. \A in : ~Pack(in) BY DEF Pack
<1>2. \A n \in Nodes : ~Round(n) BY RoundType
<1>3. CASE Finish
  <2>1. UNCHANGED <<input, slots>> /\ signal' = HygieneSignal BY <1>3 DEF Finish
  <2> QED BY <2>1 DEF HygieneSignal, Unfilled, OfType, SlotOf, Node, AgenticHardFailure, SourceTrail
<1>4. CASE UNCHANGED packerVars
  <2>1. UNCHANGED <<input, slots, signal, pc>> BY <1>4 DEF packerVars
  <2> QED BY <2>1 DEF SignalInv, HygieneSignal, Unfilled, OfType, SlotOf, Node, AgenticHardFailure, SourceTrail
<1> QED BY <1>1, <1>2, <1>3, <1>4 DEF Next, Packing

ApprovalInv ==
    input.type = "Agentic" =>
      \A n \in slots : IsControllingSlot(SlotOf(n)) => Node(n).approvedBy # {}

LEMMA ApprovalPacking ==
    ASSUME PackInv, ApprovalInv, Packing \/ UNCHANGED packerVars
    PROVE  ApprovalInv'
<1>1. CASE \E n \in Nodes : Round(n)
  <2> PICK n \in Nodes : Round(n) BY <1>1
  <2>1. input' = input BY RoundType
  <2>2. \A m : Node(m)' = Node(m) /\ SlotOf(m)' = SlotOf(m) BY <2>1, SameCall
  <2>3. slots' \subseteq slots \/ (slots' = slots \cup {n} /\ Eligible(n)) BY RoundSlots
  <2> QED BY <2>1, <2>2, <2>3 DEF ApprovalInv, Eligible, Unapproved
<1>2. CASE Finish \/ UNCHANGED packerVars
  <2>1. UNCHANGED <<input, slots>> BY <1>2 DEF Finish, packerVars
  <2> QED BY <2>1 DEF ApprovalInv, SlotOf, Node
<1> QED BY <1>1, <1>2 DEF Packing

LEMMA ApprovalKept == PackInv /\ ApprovalInv /\ [Next]_packerVars => ApprovalInv'
<1> SUFFICES ASSUME PackInv, ApprovalInv, [Next]_packerVars PROVE ApprovalInv' OBVIOUS
<1>1. CASE \E in \in Inputs : Pack(in)
  <2>1. slots' = {} BY <1>1 DEF Pack, PackInv
  <2> QED BY <2>1 DEF ApprovalInv
<1>2. CASE Packing \/ UNCHANGED packerVars BY <1>2, ApprovalPacking
<1> QED BY <1>1, <1>2 DEF Next

\* Every query type has a slot policy, with whole numbers.
LEMMA PolicyType ==
    ASSUME NEW type \in QueryTypes
    PROVE  /\ \A slot \in DOMAIN RequiredSlots[type] : RequiredSlots[type][slot] \in Nat
           /\ \A slot : SlotMax(type, slot) \in Nat
<1>1. CASE type = "Factual"     BY <1>1 DEF RequiredSlots, SlotMax, Caps
<1>2. CASE type = "Comparative" BY <1>2 DEF RequiredSlots, SlotMax, Caps
<1>3. CASE type = "Procedural"  BY <1>3 DEF RequiredSlots, SlotMax, Caps
<1>4. CASE type = "Exploratory" BY <1>4 DEF RequiredSlots, SlotMax, Caps
<1>5. CASE type = "Temporal"    BY <1>5 DEF RequiredSlots, SlotMax, Caps
<1>6. CASE type = "Adversarial" BY <1>6 DEF RequiredSlots, SlotMax, Caps
<1>7. CASE type = "Agentic"     BY <1>7 DEF RequiredSlots, SlotMax, Caps
<1> QED BY <1>1, <1>2, <1>3, <1>4, <1>5, <1>6, <1>7 DEF QueryTypes

\* A required slot of a plan that is not red is filled.
LEMMA RequiredFilled ==
    ASSUME PackInv, SignalInv
    PROVE  RequiredOrRed
<1> SUFFICES ASSUME pc = "done", signal # "red",
                    NEW slot \in DOMAIN RequiredSlots[input.type]
             PROVE  Cardinality(OfType(slots, slot)) >= RequiredSlots[input.type][slot]
    BY DEF RequiredOrRed
<1>1. HygieneSignal # "red" BY DEF SignalInv
<1>2. ~(Cardinality(OfType(slots, slot)) < RequiredSlots[input.type][slot])
      BY <1>1 DEF HygieneSignal, Unfilled
<1>3. Cardinality(OfType(slots, slot)) \in Nat BY SlotsFinite, FS_CardinalityType
<1>4. RequiredSlots[input.type][slot] \in Nat
      BY PolicyType DEF PackInv, TypeOK, InputRecord
<1> QED BY <1>2, <1>3, <1>4

LEMMA AgenticFilled ==
    ASSUME PackInv, SignalInv, ApprovalInv
    PROVE  AgenticFailClosed
<1> SUFFICES ASSUME pc = "done", input.type = "Agentic", signal # "red"
             PROVE  {"permission", "procedure", "decision"} \subseteq {SlotOf(n) : n \in slots}
    BY DEF AgenticFailClosed, ApprovalInv
<1>1. DOMAIN RequiredSlots[input.type] = {"foundation", "procedure", "permission", "decision"}
      /\ \A slot \in DOMAIN RequiredSlots[input.type] : RequiredSlots[input.type][slot] = 1
      BY DEF RequiredSlots
<1>2. \A slot \in {"permission", "procedure", "decision"} :
          Cardinality(OfType(slots, slot)) >= 1
      BY <1>1, RequiredFilled DEF RequiredOrRed
<1>3. \A slot \in {"permission", "procedure", "decision"} : OfType(slots, slot) # {}
      BY <1>2, FS_EmptySet
<1> QED BY <1>3 DEF OfType

\* A finished plan that lacks a required slot is red, for every query type, also when
\* trimming to the budget took the slot.
THEOREM RequiredSlotsOrRed == Spec => []RequiredOrRed
<1>1. Init => SignalInv BY DEF Init, SignalInv
<1>2. Spec => [](PackInv /\ SignalInv)
      BY <1>1, InitPack, NextPack, SignalKept, PTL DEF Spec
<1>3. PackInv /\ SignalInv => RequiredOrRed BY RequiredFilled
<1> QED BY <1>2, <1>3, PTL

\* Agentic plans fail closed: one that is not red has an approved permission, an
\* approved procedure and an approved decision, also after trimming.
THEOREM AgenticPlansFailClosed == Spec => []AgenticFailClosed
<1>1. Init => SignalInv /\ ApprovalInv BY DEF Init, SignalInv, ApprovalInv
<1>2. Spec => [](PackInv /\ SignalInv /\ ApprovalInv)
      BY <1>1, InitPack, NextPack, SignalKept, ApprovalKept, PTL DEF Spec
<1>3. PackInv /\ SignalInv /\ ApprovalInv => AgenticFailClosed
      BY AgenticFilled
<1> QED BY <1>2, <1>3, PTL

-----------------------------------------------------------------------------
(* Slot limits, the budget, and the record of what was left out.           *)

LEMMA RoundCaps ==
    ASSUME PackInv, SlotCaps, NEW n \in Nodes, Round(n)
    PROVE  SlotCaps'
<1>1. input' = input BY RoundType
<1>2. \A m : SlotOf(m)' = SlotOf(m) BY <1>1, SameCall
<1>3. input.type \in QueryTypes BY DEF PackInv, TypeOK, InputRecord
<1> SUFFICES ASSUME NEW slot \in SlotTypes
             PROVE  Cardinality(OfType(slots, slot)') <= SlotMax(input.type, slot)
    BY <1>1 DEF SlotCaps, OfType
<1> DEFINE old == OfType(slots, slot)
           new == OfType(slots, slot)'
<1>4. /\ IsFiniteSet(old) /\ Cardinality(old) \in Nat
      /\ SlotMax(input.type, slot) \in Nat /\ Cardinality(old) <= SlotMax(input.type, slot)
      BY <1>3, SlotsFinite, FS_CardinalityType, PolicyType DEF SlotCaps
<1>5. new = {m \in slots' : SlotOf(m) = slot} BY <1>2 DEF OfType
<1>6. CASE new \subseteq old
  <2>1. Cardinality(new) \in Nat /\ Cardinality(new) <= Cardinality(old)
        BY <1>4, <1>6, FS_Subset, FS_CardinalityType
  <2> QED BY <1>4, <2>1
<1>7. CASE ~(new \subseteq old)
  <2>1. slots' = slots \cup {n} /\ ~Full(n) BY <1>5, <1>7, RoundSlots DEF OfType
  <2>2. SlotOf(n) = slot BY <1>5, <1>7, <2>1 DEF OfType
  <2>3. new = old \cup {n} BY <1>5, <2>1, <2>2 DEF OfType
  <2> HIDE DEF old, new
  <2>4. Cardinality(new) = IF n \in old THEN Cardinality(old) ELSE Cardinality(old) + 1
        BY <1>4, <2>3, FS_AddElement
  <2>5. Cardinality(new) \in Nat BY <1>4, <2>3, FS_AddElement, FS_CardinalityType
  <2>6. ~(Cardinality(old) >= SlotMax(input.type, slot)) BY <2>1, <2>2 DEF Full, old
  <2>7. Cardinality(new) <= SlotMax(input.type, slot) BY <1>4, <2>4, <2>5, <2>6
  <2> QED BY <2>7 DEF new
<1> QED BY <1>6, <1>7

\* No slot type exceeds its maximum at any moment.
THEOREM SlotsWithinCaps == Spec => []SlotCaps
<1>1. ASSUME slots = {}, input.type \in QueryTypes PROVE SlotCaps
  <2>1. \A slot : OfType(slots, slot) = {} BY <1>1 DEF OfType
  <2>2. \A slot : SlotMax(input.type, slot) \in Nat BY <1>1, PolicyType
  <2> QED BY <2>1, <2>2, FS_EmptySet DEF SlotCaps
<1>2. Init => SlotCaps
      BY <1>1, InitPack DEF Init, PackInv, TypeOK, InputRecord
<1>3. PackInv /\ SlotCaps /\ [Next]_packerVars => SlotCaps'
  <2> SUFFICES ASSUME PackInv, SlotCaps, [Next]_packerVars PROVE SlotCaps' OBVIOUS
  <2>1. CASE \E in \in Inputs : Pack(in)
    <3>1. slots' = {} BY <2>1 DEF Pack, PackInv
    <3>2. input'.type \in QueryTypes BY NextPack DEF PackInv, TypeOK, InputRecord
    <3>3. \A slot : OfType(slots, slot)' = {} BY <3>1 DEF OfType
    <3>4. \A slot : SlotMax(input'.type, slot) \in Nat BY <3>2, PolicyType
    <3> QED BY <3>3, <3>4, FS_EmptySet DEF SlotCaps
  <2>2. CASE \E n \in Nodes : Round(n) BY <2>2, RoundCaps
  <2>3. CASE Finish \/ UNCHANGED packerVars
    <3>1. UNCHANGED <<input, slots>> BY <2>3 DEF Finish, packerVars
    <3> QED BY <3>1 DEF SlotCaps, OfType, SlotOf, Node
  <2> QED BY <2>1, <2>2, <2>3 DEF Next, Packing
<1>4. Spec => [](PackInv /\ SlotCaps) BY <1>2, <1>3, InitPack, NextPack, PTL DEF Spec
<1> QED BY <1>4, PTL

\* Trimming has nothing left to take from a finished plan over its budget.
TrimmedOut == pc = "done" => (OverBudget => Trimmable = {})

LEMMA TrimmedOutKept == PackInv /\ TrimmedOut /\ [Next]_packerVars => TrimmedOut'
<1> SUFFICES ASSUME PackInv, TrimmedOut, [Next]_packerVars, pc' = "done"
             PROVE  (OverBudget => Trimmable = {})'
    BY DEF TrimmedOut
<1>1. /\ UNCHANGED <<input, slots>>
      /\ OverBudget => Trimmable = {}
  <2>1. \A in : ~Pack(in) BY DEF Pack
  <2>2. \A n \in Nodes : ~Round(n) BY RoundType
  <2> QED BY <2>1, <2>2 DEF Next, Packing, Finish, packerVars, TrimmedOut
<1>2. OverBudget' = OverBudget BY <1>1 DEF OverBudget, TokensUsed
<1>3. Trimmable' = Trimmable BY <1>1 DEF Trimmable, Middle, OfType, SlotOf, Node, PositionFor
<1> QED BY <1>1, <1>2, <1>3

\* A plan leaves the packer over its budget only when every support, overview
\* and bridge slot left stands at the front or the back.
THEOREM BudgetKept == Spec => []BudgetOrExhausted
<1>1. Init => TrimmedOut BY DEF Init, TrimmedOut
<1>2. TrimmedOut => BudgetOrExhausted
  <2> SUFFICES ASSUME TrimmedOut, pc = "done", OverBudget, NEW n \in slots,
                      SlotOf(n) \in {"support", "overview", "bridge"}
               PROVE  PositionFor(n) # "middle"
      BY DEF BudgetOrExhausted
  <2>1. \A slot \in {"support", "overview", "bridge"} : Middle(slot) = {}
        BY DEF TrimmedOut, Trimmable
  <2> QED BY <2>1 DEF Middle, OfType
<1>3. Spec => [](PackInv /\ TrimmedOut)
      BY <1>1, InitPack, NextPack, TrimmedOutKept, PTL DEF Spec
<1> QED BY <1>2, <1>3, PTL

\* The record of what was left out: a node waits, is packed, or has one entry.
EntriesOf(n) == {e \in suppressed : e.node = n}
AccountInv ==
    \A n \in Nodes :
        \/ n \in todo /\ n \notin slots /\ EntriesOf(n) = {}
        \/ n \notin todo /\ n \in slots /\ EntriesOf(n) = {}
        \/ n \notin todo /\ n \notin slots /\ \E r \in Reasons : EntriesOf(n) = {Entry(n, r)}

\* The three things a round can do to a node.
LEMMA RoundAccount ==
    ASSUME NEW n \in Nodes, Round(n), PackInv
    PROVE  \/ /\ n \in todo /\ todo' = todo \ {n} /\ slots' = slots
              /\ \E r \in Reasons : suppressed' = suppressed \cup {Entry(n, r)}
           \/ /\ n \in todo /\ todo' = todo \ {n} /\ slots' = slots \cup {n}
              /\ suppressed' = suppressed
           \/ /\ n \in slots /\ todo' = todo /\ slots' = slots \ {n}
              /\ suppressed' = suppressed \cup {Entry(n, "budget")}
<1>1. Trim(n) => n \in slots BY DEF Trim, Trimmable, Middle, OfType
<1> QED BY <1>1
        DEF Round, SuppressForbidden, SuppressStale, SuppressUnapproved, SuppressDuplicate,
            SuppressFull, Select, Trim, Suppress, Consider, Reasons
LEMMA AccountKept == PackInv /\ AccountInv /\ [Next]_packerVars => AccountInv'
<1> SUFFICES ASSUME PackInv, AccountInv, [Next]_packerVars PROVE AccountInv' OBVIOUS
<1>1. ASSUME NEW in \in Inputs, Pack(in) PROVE AccountInv'
  <2>1. /\ input' = in /\ slots' = {} /\ todo' = Visible' /\ Nodes' = DOMAIN in.nodes
        /\ suppressed' = {Entry(n, "access-control") : n \in (DOMAIN in.nodes) \ Visible'}
        BY <1>1 DEF Pack, PackInv, Nodes
  <2> SUFFICES ASSUME NEW n \in Nodes'
               PROVE  \/ n \in todo' /\ EntriesOf(n)' = {}
                      \/ n \notin todo' /\ EntriesOf(n)' = {Entry(n, "access-control")}
      BY <2>1 DEF AccountInv, Reasons, Entry
  <2> QED BY <2>1 DEF EntriesOf, Entry
<1>2. ASSUME NEW n \in Nodes, Round(n) PROVE AccountInv'
  <2>1. Nodes' = Nodes BY <1>2, RoundType
  <2>2. \A m \in Nodes \ {n} : EntriesOf(m)' = EntriesOf(m)
        BY <1>2, RoundAccount DEF EntriesOf, Entry
  <2>3. \A m \in Nodes \ {n} : (m \in todo' <=> m \in todo) /\ (m \in slots' <=> m \in slots)
        BY <1>2, RoundAccount
  <2>4. ASSUME EntriesOf(n) = {}, NEW r \in Reasons, suppressed' = suppressed \cup {Entry(n, r)}
        PROVE  EntriesOf(n)' = {Entry(n, r)}
        BY <2>4 DEF EntriesOf, Entry
  <2>5. \/ n \notin todo' /\ n \in slots' /\ EntriesOf(n)' = {}
        \/ n \notin todo' /\ n \notin slots' /\ \E r \in Reasons : EntriesOf(n)' = {Entry(n, r)}
    <3>1. CASE n \in todo /\ todo' = todo \ {n} /\ slots' = slots
               /\ \E r \in Reasons : suppressed' = suppressed \cup {Entry(n, r)}
          BY <2>4, <3>1 DEF AccountInv
    <3>2. CASE n \in todo /\ todo' = todo \ {n} /\ slots' = slots \cup {n}
               /\ suppressed' = suppressed
          BY <3>2 DEF AccountInv, EntriesOf
    <3>3. CASE n \in slots /\ todo' = todo /\ slots' = slots \ {n}
               /\ suppressed' = suppressed \cup {Entry(n, "budget")}
          BY <2>4, <3>3 DEF AccountInv, Reasons
    <3> QED BY <1>2, <3>1, <3>2, <3>3, RoundAccount
  <2> QED BY <2>1, <2>2, <2>3, <2>5 DEF AccountInv, Entry
<1>3. CASE Finish \/ UNCHANGED packerVars
  <2>1. UNCHANGED <<input, todo, slots, suppressed>> BY <1>3 DEF Finish, packerVars
  <2> QED BY <2>1 DEF AccountInv, EntriesOf, Nodes, Entry
<1> QED BY <1>1, <1>2, <1>3 DEF Next, Packing

\* No suppression is silent, and none is recorded twice: when Pack returns, every
\* ranked node is a slot or has exactly one suppressed entry.
THEOREM NothingUnaccounted == Spec => []Accounted
<1>1. Init => AccountInv
  <2>1. NoInput.nodes = <<>> BY DEF NoInput
  <2>2. DOMAIN NoInput.nodes = 1..0 BY <2>1
  <2>3. Init => Nodes = {} BY <2>2 DEF Init, Nodes
  <2> QED BY <2>3 DEF AccountInv
<1>2. PackInv /\ AccountInv => Accounted
  <2> SUFFICES ASSUME PackInv, AccountInv, pc = "done", NEW n \in Nodes
               PROVE  Cardinality(EntriesOf(n)) = (IF n \in slots THEN 0 ELSE 1)
      BY DEF Accounted, EntriesOf
  <2>1. todo = {} BY DEF PackInv
  <2> QED BY <2>1, FS_EmptySet, FS_Singleton DEF AccountInv
<1>3. Spec => [](PackInv /\ AccountInv)
      BY <1>1, InitPack, NextPack, AccountKept, PTL DEF Spec
<1> QED BY <1>2, <1>3, PTL

-----------------------------------------------------------------------------
(* The order of trimming.  While a node waits nothing is trimmed, so the    *)
(* packed slots only shrink once trimming has begun; and with its last      *)
(* victim back the plan would exceed the budget.                            *)

TrimTypes == {"support", "overview", "bridge"}
GivenUpBefore(n, m) == TrimRank(n) < TrimRank(m) \/ (TrimRank(n) = TrimRank(m) /\ m < n)
TrimInv ==
    /\ Trimmed # {} => todo = {}
    /\ \A n \in Trimmed : n \in Nodes /\ SlotOf(n) \in TrimTypes
    /\ \A n \in Trimmed, m \in slots :
         SlotOf(m) \in TrimTypes /\ PositionFor(m) = "middle" => GivenUpBefore(n, m)
    /\ Trimmed # {} => \E n \in Trimmed : TokensUsed + Node(n).tokens > input.budget

LEMMA TrimKept ==
    ASSUME input' = input, slots' = slots, Trimmed' = Trimmed, todo' \subseteq todo, TrimInv
    PROVE  TrimInv'
<1>1. \A n : SlotOf(n)' = SlotOf(n) /\ Node(n)' = Node(n) BY SameCall
<1>2. Nodes' = Nodes BY SameCall
<1>3. \A n : PositionFor(n)' = PositionFor(n) BY <1>1 DEF PositionFor
<1>4. \A n, m : GivenUpBefore(n, m)' = GivenUpBefore(n, m) BY <1>1 DEF GivenUpBefore, TrimRank
<1>5. TokensUsed' = TokensUsed BY DEF TokensUsed
<1> QED BY <1>1, <1>2, <1>3, <1>4, <1>5 DEF TrimInv

\* The tokens of a plan lose those of the node it gives up.
LEMMA TokensWithout ==
    ASSUME PackInv, NEW n \in slots
    PROVE  /\ TokensUsed \in Int /\ Node(n).tokens \in Nat
           /\ TokensOf(input.nodes, slots \ {n}) = TokensUsed - Node(n).tokens
<1> DEFINE nodes == input.nodes
           w(S) == [m \in DOMAIN nodes |-> IF m \in S THEN nodes[m].tokens ELSE 0]
<1>1. nodes \in Seq(NodeRecord) /\ n \in DOMAIN nodes
  BY DEF PackInv, TypeOK, InputRecord, Nodes
<1>2. Len(nodes) \in Nat /\ DOMAIN nodes = 1..Len(nodes) BY <1>1
<1>3. \A m \in 1..Len(nodes) : nodes[m].tokens \in Nat
  <2>1. \A m \in 1..Len(nodes) : nodes[m] \in NodeRecord BY <1>1
  <2>2. \A node \in NodeRecord : node.tokens \in Nat BY DEF NodeRecord
  <2> QED BY <2>1, <2>2
<1> HIDE DEF nodes
<1>4. ASSUME NEW S PROVE w(S) \in Seq(Int) /\ Len(w(S)) = Len(nodes)
  <2>1. \A m \in 1..Len(nodes) : (IF m \in S THEN nodes[m].tokens ELSE 0) \in Int BY <1>3
  <2>2. w(S) \in [1..Len(nodes) -> Int] BY <1>2, <2>1
  <2> HIDE DEF w
  <2> QED BY <1>2, <2>2
<1>5. \A S : \A m \in 1..Len(nodes) : w(S)[m] = IF m \in S THEN nodes[m].tokens ELSE 0
  BY <1>2
<1> HIDE DEF w
<1>6. SumOf(w(slots \ {n})) - w(slots \ {n})[n] = SumOf(w(slots)) - w(slots)[n]
  <2> DEFINE all == w(slots)
             less == w(slots \ {n})
  <2>1. \A m \in 1..Len(nodes) : m # n => less[m] = all[m] BY <1>5
  <2>2. all \in Seq(Int) /\ less \in Seq(Int) /\ Len(less) = Len(all) /\ Len(all) = Len(nodes)
    BY <1>4
  <2>3. n \in 1..Len(nodes) BY <1>1, <1>2
  <2> HIDE DEF all, less
  <2>4. SumOf(less) - less[n] = SumOf(all) - all[n] BY <2>1, <2>2, <2>3, SumChange
  <2> QED BY <2>4 DEF all, less
<1>7. w(slots \ {n})[n] = 0 /\ w(slots)[n] = nodes[n].tokens /\ nodes[n].tokens \in Nat
  BY <1>1, <1>2, <1>3, <1>5
<1>8. SumOf(w(slots \ {n})) \in Int /\ SumOf(w(slots)) \in Int BY <1>4, SumType
<1>9. SumOf(w(slots \ {n})) = SumOf(w(slots)) - nodes[n].tokens BY <1>6, <1>7, <1>8
<1> QED BY <1>7, <1>8, <1>9 DEF TokensUsed, TokensOf, Node, w, nodes

LEMMA TrimStep ==
    ASSUME PackInv, TrimInv, NEW n \in Nodes, Trim(n)
    PROVE  TrimInv'
<1>1. /\ input' = input /\ todo = {} /\ todo' = {} /\ slots' = slots \ {n}
      /\ suppressed' = suppressed \cup {Entry(n, "budget")}
      /\ OverBudget /\ n \in Trimmable /\ \A m \in Trimmable : m <= n
  BY DEF Trim
<1>2. \A m : Node(m)' = Node(m) /\ SlotOf(m)' = SlotOf(m) BY <1>1, SameCall
<1>3. Nodes' = Nodes BY <1>1, SameCall
<1>4. \A m : PositionFor(m)' = PositionFor(m) BY <1>1, <1>2 DEF PositionFor
<1>5. \A k, m : GivenUpBefore(k, m)' = GivenUpBefore(k, m)
  BY <1>2 DEF GivenUpBefore, TrimRank
<1>6. Trimmed' = Trimmed \cup {n}
  <2>1. Entry(n, "budget").node = n /\ Entry(n, "budget").reason = "budget" BY DEF Entry
  <2>2. {x \in suppressed' : x.reason = "budget"} =
          {x \in suppressed : x.reason = "budget"} \cup {Entry(n, "budget")}
    BY <1>1, <2>1
  <2> QED BY <2>1, <2>2 DEF Trimmed
<1>7. n \in slots /\ SlotOf(n) \in TrimTypes
  BY <1>1 DEF Trimmable, Middle, OfType, TrimTypes
<1>8. ASSUME NEW m \in slots, m # n, SlotOf(m) \in TrimTypes, PositionFor(m) = "middle"
      PROVE  GivenUpBefore(n, m)
  <2>1. m \in Middle(SlotOf(m)) BY <1>8 DEF Middle, OfType
  <2>2. m \in Nat /\ n \in Nat
    <3>1. input.nodes \in Seq(NodeRecord) BY DEF PackInv, TypeOK, InputRecord
    <3>2. slots \subseteq 1..Len(input.nodes) BY <3>1 DEF PackInv, TypeOK, Nodes
    <3> QED BY <1>7, <3>2
  <2>3. CASE Trimmable = Middle("support") /\ SlotOf(n) = "support"
    <3>1. TrimRank(n) = 1 BY <2>3 DEF TrimRank
    <3>2. CASE SlotOf(m) = "support"
      <4>1. m <= n BY <1>1, <2>1, <2>3, <3>2
      <4> QED BY <1>8, <2>2, <3>1, <3>2, <4>1 DEF GivenUpBefore, TrimRank
    <3>3. CASE SlotOf(m) # "support"
      BY <1>8, <3>1, <3>3 DEF GivenUpBefore, TrimRank, TrimTypes
    <3> QED BY <3>2, <3>3
  <2>4. CASE Trimmable = Middle("overview") /\ SlotOf(n) = "overview" /\ Middle("support") = {}
    <3>1. TrimRank(n) = 2 BY <2>4 DEF TrimRank
    <3>2. CASE SlotOf(m) = "overview"
      <4>1. m <= n BY <1>1, <2>1, <2>4, <3>2
      <4> QED BY <1>8, <2>2, <3>1, <3>2, <4>1 DEF GivenUpBefore, TrimRank
    <3>3. CASE SlotOf(m) # "overview"
      <4>1. SlotOf(m) = "bridge" BY <1>8, <2>1, <2>4, <3>3 DEF TrimTypes
      <4> QED BY <3>1, <4>1 DEF GivenUpBefore, TrimRank
    <3> QED BY <3>2, <3>3
  <2>5. CASE /\ Trimmable = Middle("bridge") /\ SlotOf(n) = "bridge"
             /\ Middle("support") = {} /\ Middle("overview") = {}
    <3>1. SlotOf(m) = "bridge" BY <1>8, <2>1, <2>5 DEF TrimTypes
    <3>2. m <= n BY <1>1, <2>1, <2>5, <3>1
    <3> QED BY <1>8, <2>2, <2>5, <3>1, <3>2 DEF GivenUpBefore, TrimRank
  <2>6. \A slot : n \in Middle(slot) => SlotOf(n) = slot BY DEF Middle, OfType
  <2> QED BY <1>1, <2>3, <2>4, <2>5, <2>6 DEF Trimmable
<1>9. TokensUsed' + Node(n)'.tokens > input'.budget
  <2>1. TokensUsed' = TokensOf(input.nodes, slots \ {n}) BY <1>1 DEF TokensUsed
  <2>2. /\ TokensUsed \in Int /\ Node(n).tokens \in Nat
        /\ TokensOf(input.nodes, slots \ {n}) = TokensUsed - Node(n).tokens
    BY <1>7, TokensWithout
  <2>3. TokensUsed > input.budget BY <1>1 DEF OverBudget
  <2>4. Node(n)' = Node(n) BY <1>2
  <2> QED BY <1>1, <2>1, <2>2, <2>3, <2>4
<1>10. \A k \in Trimmed', m \in slots' :
         SlotOf(m)' \in TrimTypes /\ PositionFor(m)' = "middle" => GivenUpBefore(k, m)'
  BY <1>1, <1>2, <1>4, <1>5, <1>6, <1>8 DEF TrimInv
<1>11. \A k \in Trimmed' : k \in Nodes' /\ SlotOf(k)' \in TrimTypes
  BY <1>2, <1>3, <1>6, <1>7 DEF TrimInv
<1> QED BY <1>1, <1>6, <1>9, <1>10, <1>11 DEF TrimInv

LEMMA NextTrim == PackInv /\ TrimInv /\ [Next]_packerVars => TrimInv'
<1> SUFFICES ASSUME PackInv, TrimInv, [Next]_packerVars PROVE TrimInv' OBVIOUS
<1>1. ASSUME NEW in \in Inputs, Pack(in) PROVE TrimInv'
  <2>1. \A e \in suppressed' : e.reason = "access-control" BY <1>1 DEF Pack, Entry
  <2>2. Trimmed' = {} BY <2>1 DEF Trimmed
  <2> QED BY <2>2 DEF TrimInv
<1>2. ASSUME NEW n \in Nodes, Round(n), ~Trim(n) PROVE TrimInv'
  <2>1. /\ n \in todo
        /\ \/ suppressed' = suppressed
           \/ \E r \in Reasons \ {"budget"} : suppressed' = suppressed \cup {Entry(n, r)}
    BY <1>2 DEF Round, SuppressForbidden, SuppressStale, SuppressUnapproved,
           SuppressDuplicate, SuppressFull, Select, Suppress, Consider, Reasons
  <2>2. Trimmed = {} BY <2>1 DEF TrimInv
  <2>3. Trimmed' = {} BY <2>1, <2>2 DEF Trimmed, Entry
  <2> QED BY <2>3 DEF TrimInv
<1>3. CASE Finish \/ UNCHANGED packerVars
  <2>1. UNCHANGED <<input, slots, suppressed, todo>> BY <1>3 DEF Finish, packerVars
  <2> QED BY <2>1, TrimKept DEF Trimmed
<1> QED BY <1>1, <1>2, <1>3, TrimStep DEF Next, Packing

\* Trimming gives up the lowest-scored middle support first, then overviews,
\* then bridges, touches nothing else, and would exceed the budget with its last
\* victim back, for every plan and budget.
THEOREM TrimsInOrder == Spec => []TrimmedInOrder
<1>1. Init => TrimInv
  <2>1. Init => Trimmed = {} BY DEF Init, Trimmed
  <2> QED BY <2>1 DEF TrimInv
<1>2. TrimInv => TrimmedInOrder
  BY DEF TrimInv, TrimmedInOrder, TrimTypes, GivenUpBefore
<1>3. Spec => [](PackInv /\ TrimInv)
  BY <1>1, InitPack, NextPack, NextTrim, PTL DEF Spec
<1> QED BY <1>2, <1>3, PTL

-----------------------------------------------------------------------------
(* The evidence path.  Before puts the slots in one order, so the path      *)
(* lists each once, and an earlier slot is one that Before puts first.      *)

LEMMA Stations ==
    ASSUME NEW n
    PROVE  /\ PositionFor(n) \in {"front", "middle", "back"}
           /\ Band(n) = IF PositionFor(n) = "front" THEN 1
                        ELSE IF PositionFor(n) = "middle" THEN 2 ELSE 3
           /\ SlotPriority(n) \in 0..3
<1>1. PositionFor(n) \in {"front", "middle", "back"} BY DEF PositionFor
<1>2. SlotPriority(n) \in 0..3 BY DEF SlotPriority
<1> QED BY <1>1, <1>2 DEF Band

\* Slots of one type stand in one band with one priority.
LEMMA TypeDecides ==
    ASSUME NEW m, NEW n, SlotOf(m) = SlotOf(n)
    PROVE  Band(m) = Band(n) /\ SlotPriority(m) = SlotPriority(n)
BY DEF Band, PositionFor, SlotPriority

\* In Agentic plans permissions, foundations and procedures lead, in this order.
LEMMA AgenticLead ==
    ASSUME NEW n, input.type = "Agentic"
    PROVE  /\ SlotOf(n) = "permission" => Band(n) = 1 /\ SlotPriority(n) = 0
           /\ SlotOf(n) = "foundation" => Band(n) = 1 /\ SlotPriority(n) = 1
           /\ SlotOf(n) = "procedure"  => Band(n) = 1 /\ SlotPriority(n) = 2
           /\ SlotPriority(n) = 0 => SlotOf(n) = "permission"
BY DEF Band, PositionFor, SlotPriority

LEMMA PathIs ==
    ASSUME PackInv
    PROVE  /\ EvidencePath \in Seq(slots)
           /\ Len(EvidencePath) \in Nat /\ Len(EvidencePath) = Cardinality(slots)
           /\ \A n \in slots : \E k \in 1..Len(EvidencePath) : EvidencePath[k] = n
           /\ \A i, j \in 1..Len(EvidencePath) :
                i < j => Before(EvidencePath[i], EvidencePath[j])
<1> DEFINE R == {p \in slots \X slots : Before(p[1], p[2])}
<1>1. slots \subseteq Int
  <2>1. input.nodes \in Seq(NodeRecord) BY DEF PackInv, TypeOK, InputRecord
  <2>2. slots \subseteq 1..Len(input.nodes) BY <2>1 DEF PackInv, TypeOK, Nodes
  <2> QED BY <2>2
<1>2. \A n \in slots : n \in Int /\ Band(n) \in Int /\ SlotPriority(n) \in Int
  BY <1>1, Stations
<1>3. \A m, n \in slots : <<m, n>> \in R <=> Before(m, n) OBVIOUS
<1>4. Orders(R, slots)
  <2> HIDE DEF R
  <2>1. \A m \in slots : ~Before(m, m) BY <1>2 DEF Before
  <2>2. \A m, n \in slots : m # n => Before(m, n) \/ Before(n, m) BY <1>2 DEF Before
  <2>3. \A k, m, n \in slots : Before(k, m) /\ Before(m, n) => Before(k, n)
    BY <1>2 DEF Before
  <2> QED BY <1>3, <2>1, <2>2, <2>3 DEF Orders
<1> HIDE DEF R
<1>5. IsFiniteSet(slots) BY SlotsFinite
<1> DEFINE path == InOrder(slots, R)
<1>6. /\ Cardinality(slots) \in Nat /\ path \in Seq(slots) /\ Len(path) = Cardinality(slots)
      /\ \A n \in slots : \E k \in 1..Cardinality(slots) : path[k] = n
      /\ \A i, j \in 1..Cardinality(slots) : i < j <=> <<path[i], path[j]>> \in R
  BY <1>4, <1>5, InOrderType
<1>7. EvidencePath = path BY DEF EvidencePath, R
<1> HIDE DEF path
<1>8. \A i \in 1..Len(path) : path[i] \in slots BY <1>6
<1> QED BY <1>3, <1>6, <1>7, <1>8

LEMMA Follows ==
    ASSUME NEW m \in Int, NEW n \in Int, Before(m, n)
    PROVE  /\ PositionFor(m) = "back" => PositionFor(n) = "back"
           /\ PositionFor(n) = "front" => PositionFor(m) = "front"
           /\ input.type = "Agentic" /\ SlotOf(n) = "permission" => SlotOf(m) = "permission"
           /\ input.type = "Agentic" /\ SlotOf(n) = "foundation" => SlotOf(m) # "procedure"
           /\ SlotOf(m) = SlotOf(n) => m < n
<1>1. /\ Band(m) \in 1..3 /\ Band(n) \in 1..3
      /\ SlotPriority(m) \in 0..3 /\ SlotPriority(n) \in 0..3
  BY Stations
<1>2. Band(m) <= Band(n) BY <1>1 DEF Before
<1>3. PositionFor(m) = "back" => PositionFor(n) = "back" BY <1>2, Stations
<1>4. PositionFor(n) = "front" => PositionFor(m) = "front" BY <1>2, Stations
<1>5. ASSUME input.type = "Agentic", SlotOf(n) = "permission" PROVE SlotOf(m) = "permission"
  <2>1. Band(n) = 1 /\ SlotPriority(n) = 0 BY <1>5, AgenticLead
  <2>2. SlotPriority(m) = 0 BY <1>1, <2>1 DEF Before
  <2> QED BY <1>5, <2>2, AgenticLead
<1>6. ASSUME input.type = "Agentic", SlotOf(n) = "foundation" PROVE SlotOf(m) # "procedure"
  <2>1. Band(n) = 1 /\ SlotPriority(n) = 1 BY <1>6, AgenticLead
  <2>2. SlotPriority(m) <= 1 BY <1>1, <2>1 DEF Before
  <2>3. SlotOf(m) = "procedure" => SlotPriority(m) = 2 BY <1>6, AgenticLead
  <2> QED BY <2>2, <2>3
<1>7. ASSUME SlotOf(m) = SlotOf(n) PROVE m < n
  <2>1. Band(m) = Band(n) /\ SlotPriority(m) = SlotPriority(n) BY <1>7, TypeDecides
  <2> QED BY <1>1, <2>1 DEF Before
<1> QED BY <1>3, <1>4, <1>5, <1>6, <1>7

\* The evidence path lists each slot once: front, middle, back, with permission
\* before foundation before procedure in Agentic plans, and within a slot type
\* the better score first, for every plan.
THEOREM PathsInOrder == Spec => []PathOrdered
<1>1. ASSUME PackInv PROVE PathOrdered
  <2>1. /\ EvidencePath \in Seq(slots)
        /\ Len(EvidencePath) \in Nat /\ Len(EvidencePath) = Cardinality(slots)
        /\ \A n \in slots : \E k \in 1..Len(EvidencePath) : EvidencePath[k] = n
        /\ \A i, j \in 1..Len(EvidencePath) :
             i < j => Before(EvidencePath[i], EvidencePath[j])
    BY <1>1, PathIs
  <2>2. \A i \in 1..Len(EvidencePath) : EvidencePath[i] \in slots /\ EvidencePath[i] \in Int
    <3>1. input.nodes \in Seq(NodeRecord) BY <1>1 DEF PackInv, TypeOK, InputRecord
    <3>2. slots \subseteq 1..Len(input.nodes) BY <1>1, <3>1 DEF PackInv, TypeOK, Nodes
    <3>3. \A i \in 1..Len(EvidencePath) : EvidencePath[i] \in slots BY <2>1
    <3>4. \A n \in slots : n \in Int BY <3>2
    <3> QED BY <3>3, <3>4
  <2>3. DOMAIN EvidencePath = 1..Len(EvidencePath) BY <2>1
  <2>4. ToSet(EvidencePath) = slots BY <2>1, <2>2, <2>3 DEF ToSet
  <2> DEFINE path == EvidencePath
  <2>5. ASSUME NEW i \in 1..Len(path), NEW j \in 1..Len(path), i < j
        PROVE  /\ PositionFor(path[i]) = "back" => PositionFor(path[j]) = "back"
               /\ PositionFor(path[j]) = "front" => PositionFor(path[i]) = "front"
               /\ input.type = "Agentic" /\ SlotOf(path[j]) = "permission" =>
                    SlotOf(path[i]) = "permission"
               /\ input.type = "Agentic" /\ SlotOf(path[j]) = "foundation" =>
                    SlotOf(path[i]) # "procedure"
               /\ SlotOf(path[i]) = SlotOf(path[j]) => path[i] < path[j]
    <3>1. path[i] \in Int /\ path[j] \in Int /\ Before(path[i], path[j]) BY <2>1, <2>2, <2>5
    <3> HIDE DEF path
    <3> QED BY <3>1, Follows
  <2> QED BY <2>1, <2>4, <2>5 DEF PathOrdered
<1>2. Spec => []PackInv BY InitPack, NextPack, PTL DEF Spec
<1> QED BY <1>1, <1>2, PTL
=============================================================================
