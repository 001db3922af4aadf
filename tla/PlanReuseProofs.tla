---------------------------- MODULE PlanReuseProofs ----------------------------
(***************************************************************************)
(* Theorems about reading prior plans back, for any plans, nodes, callers  *)
(* and number of records.                                                  *)
(***************************************************************************)
EXTENDS PlanReuse, OrderingProofs

-----------------------------------------------------------------------------
(* Types.                                                                  *)

LEMMA KeptType ==
    ASSUME NEW slots \in Seq(Slot)
    PROVE  Kept(slots) \in SUBSET (DOMAIN slots)
BY DEF Kept

LEMMA NodesOfType ==
    ASSUME NEW slots \in Seq(Slot)
    PROVE  NodesOf(slots) \in Seq(Nodes) /\ Len(NodesOf(slots)) = Len(slots)
<1>1. Len(slots) \in Nat /\ DOMAIN slots = 1..Len(slots) OBVIOUS
<1>2. \A i \in 1..Len(slots) : slots[i] \in Slot OBVIOUS
<1>3. \A i \in 1..Len(slots) : slots[i].node \in Nodes BY <1>2 DEF Slot
<1> QED BY <1>1, <1>3 DEF NodesOf

LEMMA TopicsOfType ==
    ASSUME NEW slots \in Seq(Slot)
    PROVE  TopicsOf(slots) \in SUBSET {Topic[n] : n \in Nodes}
<1>2. \A i \in DOMAIN slots : slots[i] \in Slot OBVIOUS
<1>1. \A i \in DOMAIN slots : slots[i].topic \in {Topic[n] : n \in Nodes} BY <1>2 DEF Slot
<1> QED BY <1>1 DEF TopicsOf

LEMMA RegateType ==
    ASSUME NEW p \in Plan
    PROVE  /\ Regate(p) \in Plan
           /\ Regate(p).slots = Filtered(p.slots) /\ Regate(p).path = NodesOf(Filtered(p.slots))
           /\ Regate(p).query = p.query /\ Regate(p).type = p.type
           /\ Regate(p).suppressed = p.suppressed
                \cup {n \in ToSet(NodesOf(p.slots)) : Denied(n)}
<1>1. p.slots \in Seq(Slot) BY DEF Plan
<1>2. Filtered(p.slots) \in Seq(Slot) BY <1>1, KeptType, CutType DEF Filtered
<1>3. NodesOf(Filtered(p.slots)) \in Seq(Nodes) BY <1>2, NodesOfType
<1>4. ToSet(NodesOf(p.slots)) \in SUBSET Nodes BY <1>1, NodesOfType DEF ToSet
<1> QED BY <1>2, <1>3, <1>4 DEF Regate, Plan

LEMMA OverwrittenType ==
    ASSUME NEW slots \in Seq(Slot)
    PROVE  Overwritten(slots) \in Seq(Slot)
<1>1. Kept(slots) \in SUBSET (DOMAIN slots) BY KeptType
<1>2. \A k \in 1..Cardinality(Kept(slots)) : Filtered(slots)[k] \in Slot
  <2>1. Filtered(slots) \in Seq(Slot) /\ Len(Filtered(slots)) = Cardinality(Kept(slots))
    BY <1>1, CutType DEF Filtered
  <2> QED BY <2>1
<1>3. Len(slots) \in Nat /\ DOMAIN slots = 1..Len(slots) OBVIOUS
<1>4. Cardinality(Kept(slots)) \in Nat BY <1>1, <1>3, BelowFinite
<1>5. \A k \in 1..Len(slots) :
        (IF k <= Cardinality(Kept(slots)) THEN Filtered(slots)[k] ELSE slots[k]) \in Slot
  BY <1>2, <1>3, <1>4
<1> QED BY <1>3, <1>5 DEF Overwritten

\* When nothing is denied, filtering in place changes nothing.
LEMMA OverwrittenWhole ==
    ASSUME NEW slots \in Seq(Slot), Cardinality(Kept(slots)) = Len(slots)
    PROVE  Kept(slots) = DOMAIN slots /\ Overwritten(slots) = slots
<1>1. Kept(slots) \in SUBSET (DOMAIN slots) BY KeptType
<1>2. Kept(slots) = DOMAIN slots /\ Filtered(slots) = slots
  BY <1>1, CutWhole DEF Filtered
<1>3. Len(slots) \in Nat OBVIOUS
<1>4. Overwritten(slots) = [k \in 1..Len(slots) |-> slots[k]]
  BY <1>2, <1>3 DEF Overwritten
<1> QED BY <1>2, <1>4

LEMMA CurrentType ==
    ASSUME ReuseTypeOK
    PROVE  \A n \in DOMAIN current : n \in Nodes /\ current[n] \in NodeInfo
BY DEF ReuseTypeOK

LEMMA InitReuse == Init => ReuseTypeOK
<1> SUFFICES ASSUME Init PROVE ReuseTypeOK OBVIOUS
<1>1. current = FirstNode /\ FirstNode \in [Nodes -> NodeInfo]
  BY ReuseAssumption DEF Init
<1>2. changes \in 0..MaxChanges BY ReuseAssumption DEF Init
<1> QED BY <1>1, <1>2 DEF Init, ReuseTypeOK, Verdicts

\* What is stored of a plan, under whichever ID.
LEMMA RecordOfType ==
    ASSUME ReuseTypeOK, NEW p \in Packings, \A n \in ToSet(p.nodes) : n \in DOMAIN current
    PROVE  RecordOf(p) \in Record /\ RecordOf(p).plan.suppressed = {}
<1>1. p \in [session : Queries, query : Queries, type : Types, nodes : Seq(Nodes)]
  BY ReuseAssumption
<1> DEFINE slots == [i \in 1..Len(p.nodes) |-> SlotOf(p.nodes[i])]
           plan == [query |-> QueryOf(p), type |-> p.type, slots |-> slots,
                    path |-> p.nodes, suppressed |-> {}]
<1>2. slots \in Seq(Slot)
  <2>1. /\ Len(p.nodes) \in Nat
        /\ \A i \in 1..Len(p.nodes) : p.nodes[i] \in ToSet(p.nodes) /\ p.nodes[i] \in Nodes
    BY <1>1 DEF ToSet
  <2>2. \A i \in 1..Len(p.nodes) : SlotOf(p.nodes[i]) \in Slot
    BY <2>1, CurrentType DEF SlotOf, Slot, NodeInfo
  <2> QED BY <2>1, <2>2
<1>3. SessionOf(p) \in Queries /\ QueryOf(p) \in Queries BY <1>1 DEF SessionOf, QueryOf
<1>4. TopicsOf(slots) \in SUBSET {Topic[n] : n \in Nodes} BY <1>2, TopicsOfType
<1>5. RecordOf(p) = [session |-> SessionOf(p), topics |-> TopicsOf(slots), plan |-> plan]
  BY DEF RecordOf
<1> HIDE DEF slots
<1>6. plan \in Plan BY <1>1, <1>2, <1>3 DEF Plan
<1> QED BY <1>3, <1>4, <1>5, <1>6 DEF Record

LEMMA StoreType ==
    ASSUME ReuseTypeOK, StoreContextPlan
    PROVE  ReuseTypeOK'
<1>1. PICK p \in Packings :
        /\ \A n \in ToSet(p.nodes) : n \in DOMAIN current
        /\ stored' = Append(stored, RecordOf(p))
  BY DEF StoreContextPlan
<1>2. RecordOf(p) \in Record BY <1>1, RecordOfType
<1>3. stored' \in Seq(Record) BY <1>1, <1>2 DEF ReuseTypeOK
<1>4. UNCHANGED <<caller, current, returned, verdict, offer, changes>> BY DEF StoreContextPlan
<1> QED BY <1>3, <1>4 DEF ReuseTypeOK

LEMMA ReturnType ==
    ASSUME ReuseTypeOK, NEW plans \in Seq(Plan), NEW topics \in Requests \cup {NoOffer},
           Return(plans, topics)
    PROVE  ReuseTypeOK'
BY DEF Return, ReuseTypeOK, Verdicts

LEMMA SessionType ==
    ASSUME ReuseTypeOK, NEW s
    PROVE  OfSession(s) \in Seq(Record)
<1>1. stored \in Seq(Record) BY DEF ReuseTypeOK
<1> QED BY <1>1, CutType DEF OfSession

LEMMA LoadType ==
    ASSUME ReuseTypeOK, NEW s, LoadPriorPlan(s) \/ Load(s)
    PROVE  ReuseTypeOK'
<1> DEFINE found == OfSession(s)
<1>1. found \in Seq(Record) /\ Len(found) \in Nat BY SessionType
<1>2. \A i \in 1..Len(found) : Regate(found[i].plan) \in Plan
  <2>1. \A i \in 1..Len(found) : found[i] \in Record BY <1>1
  <2>2. \A i \in 1..Len(found) : found[i].plan \in Plan BY <2>1 DEF Record
  <2> QED BY <2>2, RegateType
<1>3. CASE LoadPriorPlan(s)
  <2>1. CASE Len(found) = 0
    <3>1. Return(<<>>, NoOffer) BY <1>3, <2>1 DEF LoadPriorPlan
    <3>2. <<>> \in Seq(Plan) OBVIOUS
    <3> HIDE DEF found
    <3> QED BY <3>1, <3>2, ReturnType
  <2>2. CASE Len(found) # 0
    <3>1. <<Regate(found[Len(found)].plan)>> \in Seq(Plan)
      <4>1. Len(found) \in 1..Len(found) BY <1>1, <2>2
      <4> QED BY <1>2, <4>1
    <3>2. Return(<<Regate(found[Len(found)].plan)>>, NoOffer)
      BY <1>3, <2>2 DEF LoadPriorPlan
    <3> QED BY <3>1, <3>2, ReturnType
  <2> QED BY <2>1, <2>2
<1>4. CASE Load(s)
  <2> DEFINE plans == [i \in 1..Len(found) |-> Regate(found[i].plan)]
  <2>1. plans \in Seq(Plan) BY <1>1, <1>2
  <2>2. Return(plans, NoOffer) BY <1>4 DEF Load
  <2> HIDE DEF plans
  <2> QED BY <2>1, <2>2, ReturnType
<1> QED BY <1>3, <1>4

\* Which plans SimilarPriorPlans returns.
LEMMA SimilarReturns ==
    ASSUME ReuseTypeOK, NEW topics \in Requests, NEW limit \in Limits,
           SimilarPriorPlans(topics, limit)
    PROVE  \E plans \in Seq(Plan) :
             /\ Return(plans, topics)
             /\ \A k \in DOMAIN plans :
                  \E i \in Reusable(topics) : plans[k] = Regate(stored[i].plan)
<1> DEFINE all == Cardinality(Reusable(topics))
           n == IF limit <= 0 \/ limit > all THEN all ELSE limit
<1>1. stored \in Seq(Record) /\ Len(stored) \in Nat /\ DOMAIN stored = 1..Len(stored)
  BY DEF ReuseTypeOK
<1>2. Reusable(topics) \in SUBSET (1..Len(stored)) BY <1>1 DEF Reusable
<1>3. all \in Nat BY <1>1, <1>2, BelowFinite
<1>4. n \in Nat /\ n <= all BY <1>3, ReuseAssumption
<1>5. PICK found \in Rankings(topics) :
        Return([k \in 1..n |-> Regate(stored[found[k]].plan)], topics)
  BY DEF SimilarPriorPlans
<1>6. \A k \in 1..all : found[k] \in Reusable(topics) BY <1>5 DEF Rankings
<1> DEFINE plans == [k \in 1..n |-> Regate(stored[found[k]].plan)]
<1>7. \A k \in 1..n : found[k] \in Reusable(topics)
  <2> HIDE DEF all, n
  <2> QED BY <1>3, <1>4, <1>6
<1>8. \A i \in Reusable(topics) : Regate(stored[i].plan) \in Plan
  <2>1. \A i \in 1..Len(stored) : stored[i] \in Record BY <1>1
  <2>2. \A i \in 1..Len(stored) : stored[i].plan \in Plan BY <2>1 DEF Record
  <2> QED BY <1>2, <2>2, RegateType
<1> HIDE DEF n
<1>9. plans \in Seq(Plan) /\ DOMAIN plans = 1..n BY <1>4, <1>7, <1>8
<1> QED BY <1>5, <1>7, <1>9

LEMMA RejectionType ==
    ASSUME ReuseTypeOK, NEW k \in DOMAIN returned, NEW topics, NEW type,
           ReuseRejection(k, topics, type)
    PROVE  ReuseTypeOK'
<1>1. returned \in Seq(Plan) /\ k \in 1..Len(returned) /\ returned[k] \in Plan
  BY DEF ReuseTypeOK
<1>2. UNCHANGED <<stored, caller, current, offer, changes>> BY DEF ReuseRejection
<1>3. verdict' \in Verdicts
  BY DEF ReuseRejection, Rejections, PolicyReasons, StaleReasons, Verdicts
<1>4. returned' \in Seq(Plan)
  <2>1. CASE returned' = returned BY <1>1, <2>1
  <2>2. CASE returned' = [returned EXCEPT ![k].slots = Overwritten(@)]
    <3>1. Overwritten(returned[k].slots) \in Seq(Slot)
      BY <1>1, OverwrittenType DEF Plan
    <3>2. [returned[k] EXCEPT !.slots = Overwritten(returned[k].slots)] \in Plan
      BY <1>1, <3>1 DEF Plan
    <3>3. returned' = [returned EXCEPT ![k] =
                         [returned[k] EXCEPT !.slots = Overwritten(returned[k].slots)]]
      BY <2>2
    <3> QED BY <1>1, <3>2, <3>3
  <2> QED BY <2>1, <2>2 DEF ReuseRejection
<1> QED BY <1>2, <1>3, <1>4 DEF ReuseTypeOK

LEMMA ChangeType ==
    ASSUME ReuseTypeOK, ChangeCaller \/ \E n \in Nodes : ChangeNode(n) \/ ForgetNode(n)
    PROVE  ReuseTypeOK'
<1>1. /\ UNCHANGED <<stored, returned, verdict>> /\ offer' = NoOffer
      /\ changes' \in 0..MaxChanges
  <2>1. Change BY DEF ChangeCaller, ChangeNode, ForgetNode
  <2>2. changes \in Nat /\ MaxChanges \in Nat BY ReuseAssumption DEF ReuseTypeOK
  <2> QED BY <2>1, <2>2 DEF Change
<1>2. CASE ChangeCaller
  BY <1>1, <1>2 DEF ChangeCaller, ReuseTypeOK
<1>3. ASSUME NEW n \in Nodes, ChangeNode(n) \/ ForgetNode(n) PROVE ReuseTypeOK'
  <2>1. caller' = caller BY <1>3 DEF ChangeNode, ForgetNode
  <2>2. DOMAIN current \subseteq Nodes /\ current \in [DOMAIN current -> NodeInfo]
    BY DEF ReuseTypeOK
  <2>3. DOMAIN current' \subseteq Nodes /\ current' \in [DOMAIN current' -> NodeInfo]
    <3>1. CASE ForgetNode(n) BY <2>2, <3>1 DEF ForgetNode
    <3>2. CASE ChangeNode(n)
      <4>1. n \in DOMAIN current /\ current[n] \in NodeInfo BY <2>2, <3>2 DEF ChangeNode
      <4>2. PICK new \in {[current[n] EXCEPT !.version = @ + 1],
                          [current[n] EXCEPT !.superseded = TRUE],
                          [current[n] EXCEPT !.sensitivity = "confidential"]} :
               current' = [current EXCEPT ![n] = new]
        BY <3>2 DEF ChangeNode
      <4>3. new \in NodeInfo
        <5>1. current[n].version + 1 \in Nat BY <4>1 DEF NodeInfo
        <5>2. [current[n] EXCEPT !.version = @ + 1] \in NodeInfo BY <4>1, <5>1 DEF NodeInfo
        <5>3. [current[n] EXCEPT !.superseded = TRUE] \in NodeInfo BY <4>1 DEF NodeInfo
        <5>4. [current[n] EXCEPT !.sensitivity = "confidential"] \in NodeInfo
          BY <4>1 DEF NodeInfo, Sensitivities
        <5> QED BY <4>2, <5>2, <5>3, <5>4
      <4> QED BY <2>2, <4>1, <4>2, <4>3
    <3> QED BY <1>3, <3>1, <3>2
  <2> QED BY <1>1, <2>1, <2>3 DEF ReuseTypeOK
<1> QED BY <1>2, <1>3

LEMMA ReuseTypeKept == ReuseTypeOK /\ [Next]_vars => ReuseTypeOK'
<1> SUFFICES ASSUME ReuseTypeOK, [Next]_vars PROVE ReuseTypeOK' OBVIOUS
<1>1. CASE Reads
  <2>1. ASSUME NEW s \in Queries, LoadPriorPlan(s) \/ Load(s) PROVE ReuseTypeOK'
    BY <2>1, LoadType
  <2>2. ASSUME NEW t \in Requests, NEW l \in Limits, SimilarPriorPlans(t, l) PROVE ReuseTypeOK'
    <3>1. PICK plans \in Seq(Plan) : Return(plans, t) BY <2>2, SimilarReturns
    <3> QED BY <3>1, ReturnType
  <2> QED BY <1>1, <2>1, <2>2 DEF Reads
<1>2. CASE UNCHANGED vars
  BY <1>2 DEF vars, ReuseTypeOK
<1> QED BY <1>1, <1>2, StoreType, RejectionType, ChangeType DEF Next

\* The types of what is stored, known of the nodes and handed out.
THEOREM ReuseTypeCorrect == Spec => []ReuseTypeOK
BY InitReuse, ReuseTypeKept, PTL DEF Spec

-----------------------------------------------------------------------------
(* What may be reused.                                                     *)

\* A plan without a reason against it is not filtered, whatever is asked about it.
LEMMA RejectionKeeps ==
    ASSUME ReuseTypeOK, NEW k \in DOMAIN returned, NEW topics, NEW type,
           ReuseRejection(k, topics, type), AllKept(returned[k])
    PROVE  returned' = returned
<1>1. returned[k] \in Plan
  <2>1. returned \in Seq(Plan) BY DEF ReuseTypeOK
  <2> QED BY <2>1
<1>2. returned[k].slots \in Seq(Slot) BY <1>1 DEF Plan
<1>3. Overwritten(returned[k].slots) = returned[k].slots
  BY <1>2, OverwrittenWhole DEF AllKept
<1>4. [returned[k] EXCEPT !.slots = returned[k].slots] = returned[k] BY <1>1 DEF Plan
<1>5. [returned EXCEPT ![k].slots = Overwritten(@)] = [returned EXCEPT ![k] = returned[k]]
  BY <1>3, <1>4
<1>6. [returned EXCEPT ![k] = returned[k]] = returned BY DEF ReuseTypeOK
<1> QED BY <1>5, <1>6 DEF ReuseRejection

\* Only a plan without a reason against it is accepted; it keeps all its slots.
LEMMA Accepted ==
    ASSUME ReuseTypeOK, NEW k \in DOMAIN returned, NEW topics, NEW type,
           ReuseRejection(k, topics, type), verdict' = "none"
    PROVE  /\ Rejections(returned[k], topics, type) = {}
           /\ AllKept(returned[k])
           /\ returned' = returned
<1>1. Rejections(returned[k], topics, type) = {}
  BY DEF ReuseRejection, Rejections, PolicyReasons, StaleReasons
<1>2. AllKept(returned[k]) BY <1>1 DEF Rejections
<1> QED BY <1>1, <1>2, RejectionKeeps

\* Being told that a plan may be reused leaves every plan held as it was, although
\* ReuseRejection filters the slots in place.
THEOREM AcceptanceIsHarmless == Spec => AcceptanceChangesNothing
<1>1. ReuseTypeOK /\ [Next]_vars =>
        [\A k \in DOMAIN returned, t \in Requests, type \in Types :
           verdict' = "none" /\ ReuseRejection(k, t, type) => returned' = returned]_vars
  BY Accepted
<1> QED BY <1>1, ReuseTypeCorrect, PTL DEF Spec, AcceptanceChangesNothing

\* The reasons against a plan depend on the caller and the nodes alone.
LEMMA SameReasons ==
    ASSUME UNCHANGED <<caller, current>>
    PROVE  \A p, topics, type : Rejections(p, topics, type)' = Rejections(p, topics, type)
BY DEF Rejections, PolicyReasons, StaleReasons, AllKept, Kept, Denied

\* What SimilarPriorPlans found reusable stays so through every call that leaves the
\* caller and the nodes as they are, rejections included: the offer is not spent.
THEOREM OffersAreReusable == Spec => []OfferedIsReusable
<1>1. Init => OfferedIsReusable BY DEF Init, OfferedIsReusable
<1>2. ReuseTypeOK /\ OfferedIsReusable /\ [Next]_vars => OfferedIsReusable'
  <2> SUFFICES ASSUME ReuseTypeOK, OfferedIsReusable, [Next]_vars PROVE OfferedIsReusable'
    OBVIOUS
  <2>1. CASE UNCHANGED <<caller, current, returned, offer>>
    BY <2>1, SameReasons DEF OfferedIsReusable
  <2>2. CASE offer' = NoOffer
    BY <2>2 DEF OfferedIsReusable
  <2>3. ASSUME NEW t \in Requests, NEW l \in Limits, SimilarPriorPlans(t, l)
        PROVE  OfferedIsReusable'
    <3>1. PICK plans \in Seq(Plan) :
             /\ Return(plans, t)
             /\ \A k \in DOMAIN plans :
                  \E i \in Reusable(t) : plans[k] = Regate(stored[i].plan)
      BY <2>3, SimilarReturns
    <3>2. returned' = plans /\ offer' = t /\ UNCHANGED <<caller, current>>
      BY <3>1 DEF Return
    <3>3. ASSUME NEW k \in DOMAIN plans PROVE Rejections(plans[k], t, plans[k].type) = {}
      <4>1. PICK i \in Reusable(t) : plans[k] = Regate(stored[i].plan) BY <3>1
      <4>2. stored[i].plan \in Plan
        <5>1. stored \in Seq(Record) /\ i \in DOMAIN stored BY DEF ReuseTypeOK, Reusable
        <5>2. stored[i] \in Record BY <5>1
        <5> QED BY <5>2 DEF Record
      <4>3. plans[k].type = stored[i].plan.type BY <4>1, <4>2, RegateType
      <4> QED BY <4>1, <4>3 DEF Reusable
    <3> QED BY <3>2, <3>3, SameReasons DEF OfferedIsReusable
  <2>4. ASSUME NEW k \in DOMAIN returned, NEW t \in Requests, NEW type \in Types,
               ReuseRejection(k, t, type)
        PROVE  OfferedIsReusable'
    <3>1. UNCHANGED <<caller, current, offer>> BY <2>4 DEF ReuseRejection
    <3>2. CASE offer = NoOffer BY <3>1, <3>2 DEF OfferedIsReusable
    <3>3. CASE offer # NoOffer
      <4>1. AllKept(returned[k]) BY <3>3 DEF OfferedIsReusable, Rejections
      <4>2. returned' = returned BY <2>4, <4>1, RejectionKeeps
      <4> QED BY <3>1, <4>2, SameReasons DEF OfferedIsReusable
    <3> QED BY <3>2, <3>3
  <2>5. StoreContextPlan => UNCHANGED <<caller, current, returned, offer>>
    BY DEF StoreContextPlan
  <2>6. ChangeCaller \/ (\E n \in Nodes : ChangeNode(n) \/ ForgetNode(n)) => offer' = NoOffer
    BY DEF ChangeCaller, ChangeNode, ForgetNode, Change
  <2>7. ASSUME NEW s, LoadPriorPlan(s) \/ Load(s) PROVE offer' = NoOffer
    BY <2>7 DEF LoadPriorPlan, Load, Return
  <2>8. UNCHANGED vars => UNCHANGED <<caller, current, returned, offer>>
    BY DEF vars
  <2> QED BY <2>1, <2>2, <2>3, <2>4, <2>5, <2>6, <2>7, <2>8 DEF Next, Reads
<1> QED BY <1>1, <1>2, ReuseTypeKept, InitReuse, PTL DEF Spec

-----------------------------------------------------------------------------
(* What is handed out.                                                     *)

\* A stored plan has not been filtered yet.
StoredInv == \A i \in DOMAIN stored : stored[i].plan.suppressed = {}

\* How a plan handed out relates to the one stored.
GatedFrom(p, r) ==
    /\ p.path = NodesOf(p.slots)
    /\ \A i \in DOMAIN p.slots :
         p.slots[i].node \in DOMAIN current => CanSeeNode(caller, current[p.slots[i].node])
    /\ \A n \in p.suppressed : n \in DOMAIN current /\ ~CanSeeNode(caller, current[n])
    /\ r.plan.query = p.query /\ r.plan.type = p.type
    /\ p.slots = Unsuppressed(r.plan, p.suppressed)

LEMMA RegateGates ==
    ASSUME NEW r \in Record, r.plan.suppressed = {}
    PROVE  GatedFrom(Regate(r.plan), r)
<1> DEFINE p == r.plan
           q == Regate(r.plan)
           S == Kept(p.slots)
<1>1. p \in Plan /\ p.slots \in Seq(Slot) /\ S \in SUBSET (DOMAIN p.slots)
  BY KeptType DEF Record, Plan
<1>2. /\ q.slots = Cut(p.slots, S) /\ q.path = NodesOf(q.slots)
      /\ q.query = p.query /\ q.type = p.type
      /\ q.suppressed = {n \in ToSet(NodesOf(p.slots)) : Denied(n)}
  BY <1>1, RegateType DEF Filtered
<1>3. /\ q.slots \in Seq(Slot) /\ Len(q.slots) = Cardinality(S)
      /\ \A k \in 1..Cardinality(S) : Place(S, k) \in S /\ q.slots[k] = p.slots[Place(S, k)]
  <2> HIDE DEF p, q, S
  <2> QED BY <1>1, <1>2, CutType
<1>4. \A i \in DOMAIN q.slots : ~Denied(q.slots[i].node)
  <2>1. DOMAIN q.slots = 1..Cardinality(S) BY <1>3
  <2>2. \A i \in S : ~Denied(p.slots[i].node) BY DEF Kept
  <2> HIDE DEF p, q, S
  <2> QED BY <1>3, <2>1, <2>2
<1>5. {i \in DOMAIN p.slots : p.slots[i].node \notin q.suppressed} = S
  <2>1. \A i \in DOMAIN p.slots : p.slots[i].node \in ToSet(NodesOf(p.slots))
    <3>1. DOMAIN NodesOf(p.slots) = DOMAIN p.slots
          /\ \A i \in DOMAIN p.slots : NodesOf(p.slots)[i] = p.slots[i].node
      BY DEF NodesOf
    <3> HIDE DEF p, q, S
    <3> QED BY <3>1 DEF ToSet
  <2> QED BY <1>2, <2>1 DEF Kept
<1>6. q.slots = Unsuppressed(p, q.suppressed)
  <2> HIDE DEF p, q, S
  <2> QED BY <1>2, <1>5 DEF Unsuppressed
<1> HIDE DEF S
<1> QED BY <1>2, <1>4, <1>6 DEF GatedFrom, Denied

LEMMA StoredKept == ReuseTypeOK /\ StoredInv /\ [Next]_vars => StoredInv'
<1> SUFFICES ASSUME ReuseTypeOK, StoredInv, [Next]_vars PROVE StoredInv' OBVIOUS
<1>1. CASE UNCHANGED stored BY <1>1 DEF StoredInv
<1>2. CASE StoreContextPlan
  <2>1. PICK p \in Packings :
          /\ \A n \in ToSet(p.nodes) : n \in DOMAIN current
          /\ stored' = Append(stored, RecordOf(p))
    BY <1>2 DEF StoreContextPlan
  <2>2. RecordOf(p).plan.suppressed = {} BY <2>1, RecordOfType
  <2>3. stored \in Seq(Record) BY DEF ReuseTypeOK
  <2>4. \A i \in DOMAIN stored' :
          stored'[i] = RecordOf(p) \/ (i \in DOMAIN stored /\ stored'[i] = stored[i])
    BY <2>1, <2>3
  <2> QED BY <2>2, <2>4 DEF StoredInv
<1>3. [Next]_vars => StoreContextPlan \/ UNCHANGED stored
  BY DEF Next, Reads, LoadPriorPlan, Load, SimilarPriorPlans, Return, ReuseRejection,
         ChangeCaller, ChangeNode, ForgetNode, Change, vars
<1> QED BY <1>1, <1>2, <1>3

\* The records a read returns are of the file.
LEMMA ReadsGate ==
    ASSUME ReuseTypeOK, StoredInv, Reads, NEW k \in DOMAIN returned'
    PROVE  \E r \in ToSet(stored) : GatedFrom(returned'[k], r)
<1>1. stored \in Seq(Record) BY DEF ReuseTypeOK
<1>2. ASSUME NEW i \in DOMAIN stored
      PROVE  stored[i] \in ToSet(stored) /\ GatedFrom(Regate(stored[i].plan), stored[i])
  <2>1. stored[i] \in Record /\ stored[i].plan.suppressed = {} BY <1>1 DEF StoredInv
  <2> QED BY <2>1, RegateGates DEF ToSet
<1>3. ASSUME NEW s, LoadPriorPlan(s) \/ Load(s)
      PROVE  \E i \in DOMAIN stored : returned'[k] = Regate(stored[i].plan)
  <2> DEFINE S == {i \in DOMAIN stored : stored[i].session = s}
             found == OfSession(s)
  <2>1. /\ found \in Seq(Record) /\ Len(found) = Cardinality(S) /\ Len(found) \in Nat
        /\ \A j \in 1..Cardinality(S) : Place(S, j) \in S /\ found[j] = stored[Place(S, j)]
    BY <1>1, CutType DEF OfSession
  <2>2. \A j \in 1..Len(found) : \E i \in DOMAIN stored : found[j] = stored[i] BY <2>1
  <2>3. \E j \in 1..Len(found) : returned'[k] = Regate(found[j].plan)
    <3> HIDE DEF S, found
    <3>1. CASE returned' = [i \in 1..Len(found) |-> Regate(found[i].plan)] BY <3>1
    <3>2. CASE returned' = <<>> BY <3>2
    <3>3. CASE Len(found) # 0 /\ returned' = <<Regate(found[Len(found)].plan)>>
      BY <2>1, <3>3
    <3> QED BY <1>3, <3>1, <3>2, <3>3 DEF LoadPriorPlan, Load, Return, found
  <2> QED BY <2>2, <2>3
<1>4. ASSUME NEW t \in Requests, NEW l \in Limits, SimilarPriorPlans(t, l)
      PROVE  \E i \in DOMAIN stored : returned'[k] = Regate(stored[i].plan)
  <2>1. PICK plans \in Seq(Plan) :
           /\ Return(plans, t)
           /\ \A j \in DOMAIN plans :
                \E i \in Reusable(t) : plans[j] = Regate(stored[i].plan)
    BY <1>4, SimilarReturns
  <2> QED BY <2>1 DEF Return, Reusable
<1>5. \E i \in DOMAIN stored : returned'[k] = Regate(stored[i].plan)
  BY <1>3, <1>4 DEF Reads
<1> QED BY <1>2, <1>5

\* Every read gates what it returns as far as the host still knows the nodes, and loses,
\* reorders or adds nothing else.
THEOREM KnownNodesAreGated == Spec => KnownNodesGated
<1>1. Init => StoredInv BY DEF Init, StoredInv
<1>2. ReuseTypeOK /\ StoredInv /\ [Next]_vars =>
        [Reads => \A k \in DOMAIN returned' :
           LET p == returned'[k]
           IN  /\ p.path = NodesOf(p.slots)
               /\ \A i \in DOMAIN p.slots :
                    p.slots[i].node \in DOMAIN current =>
                      CanSeeNode(caller, current[p.slots[i].node])
               /\ \A n \in p.suppressed :
                    n \in DOMAIN current /\ ~CanSeeNode(caller, current[n])
               /\ \E r \in ToSet(stored) :
                    /\ r.plan.query = p.query /\ r.plan.type = p.type
                    /\ p.slots = Unsuppressed(r.plan, p.suppressed)]_vars
  BY ReadsGate DEF GatedFrom
<1> QED BY <1>1, <1>2, StoredKept, ReuseTypeKept, InitReuse, PTL DEF Spec, KnownNodesGated

-----------------------------------------------------------------------------
(* What a refusal leaves.                                                  *)

\* Filtering in place changes nothing or leaves a slot in two places: a kept slot from
\* behind the last place written is still where it was.
LEMMA OverwrittenRepeats ==
    ASSUME NEW slots \in Seq(Slot)
    PROVE  \/ Overwritten(slots) = slots
           \/ \E i, j \in DOMAIN Overwritten(slots) :
                i < j /\ Overwritten(slots)[i] = Overwritten(slots)[j]
<1> DEFINE S == Kept(slots)
           m == Cardinality(S)
           n == Len(slots)
<1>1. n \in Nat /\ DOMAIN slots = 1..n /\ S \in SUBSET (1..n) BY KeptType
<1>2. IsFiniteSet(S) /\ m \in Nat BY <1>1, BelowFinite
<1>3. \A k \in 1..m : Place(S, k) \in S /\ Filtered(slots)[k] = slots[Place(S, k)]
  BY <1>1, CutType DEF Filtered
<1>4. /\ DOMAIN Overwritten(slots) = 1..n
      /\ \A k \in 1..n : Overwritten(slots)[k] = IF k <= m THEN Filtered(slots)[k] ELSE slots[k]
  BY DEF Overwritten
<1> HIDE DEF S, m, n
<1>5. CASE \E e \in S : e > m
  <2>1. PICK e \in S : e > m BY <1>5
  <2>2. PICK j \in 1..m : Place(S, j) = e BY <1>1, <2>1, CutPlaces DEF m
  <2>3. j \in 1..n /\ e \in 1..n /\ j < e BY <1>1, <1>2, <2>1, <2>2
  <2>4. Overwritten(slots)[j] = slots[e] BY <1>2, <1>3, <1>4, <2>2, <2>3
  <2>5. Overwritten(slots)[e] = slots[e] BY <1>2, <1>4, <2>1, <2>3
  <2> QED BY <1>4, <2>3, <2>4, <2>5
<1>6. CASE \A e \in S : e <= m
  <2>1. S = 1..m
    <3>1. S \in SUBSET (1..m) BY <1>1, <1>2, <1>6
    <3>2. IsFiniteSet(1..m) /\ Cardinality(1..m) = m BY <1>2, UpTo
    <3> QED BY <3>1, <3>2, FS_Subset DEF m
  <2>2. ASSUME NEW k \in 1..m PROVE Place(S, k) = k
    <3>1. Below(S, k) = 1..(k - 1) BY <1>2, <2>1 DEF Below
    <3>2. Cardinality(1..(k - 1)) = k - 1 BY <1>2, UpTo
    <3>3. k \in S /\ k \in Int BY <1>2, <2>1
    <3>4. Cardinality(Below(S, k)) = k - 1 BY <3>1, <3>2
    <3> QED BY <1>1, <3>3, <3>4, PlaceIs
  <2>3. \A k \in 1..n : Overwritten(slots)[k] = slots[k] BY <1>1, <1>2, <1>3, <1>4, <2>2
  <2>4. Overwritten(slots) = [k \in 1..n |-> Overwritten(slots)[k]]
    BY DEF Overwritten, n
  <2>5. slots = [k \in 1..n |-> slots[k]] BY <1>1 DEF n
  <2> QED BY <2>3, <2>4, <2>5
<1> QED BY <1>1, <1>2, <1>5, <1>6

\* How a plan held looks: as it was read, or overwritten.
AsRead(p)     == /\ p.path = NodesOf(p.slots)
                 /\ \E r \in ToSet(stored) : p.slots = Unsuppressed(r.plan, p.suppressed)
Repeating(p)  == \E i, j \in DOMAIN p.slots : i < j /\ p.slots[i] = p.slots[j]

LEMMA Looks == OverwrittenShows <=> \A k \in DOMAIN returned : AsRead(returned[k]) \/ Repeating(returned[k])
BY DEF OverwrittenShows, AsRead, Repeating

LEMMA RefusalShows ==
    ASSUME ReuseTypeOK, OverwrittenShows, NEW k \in DOMAIN returned, NEW topics, NEW type,
           ReuseRejection(k, topics, type), NEW l \in DOMAIN returned'
    PROVE  AsRead(returned[l])' \/ Repeating(returned[l])'
<1>1. stored' = stored BY DEF ReuseRejection
<1>2. returned \in Seq(Plan) /\ returned[k] \in Plan
  <2>1. returned \in Seq(Plan) BY DEF ReuseTypeOK
  <2> QED BY <2>1
<1>3. CASE returned'[l] = returned[l] /\ l \in DOMAIN returned
  <2>1. AsRead(returned[l]) \/ Repeating(returned[l]) BY <1>3, Looks
  <2> QED BY <1>1, <1>3, <2>1 DEF AsRead, Repeating, Unsuppressed
<1>4. CASE returned' = [returned EXCEPT ![k].slots = Overwritten(@)]
  <2> DEFINE slots == returned[k].slots
  <2>1. DOMAIN returned' = DOMAIN returned BY <1>4
  <2>2. CASE l # k
    <3>1. returned'[l] = returned[l] BY <1>4, <2>1, <2>2
    <3> QED BY <1>3, <2>1, <3>1
  <2>3. CASE l = k
    <3>1. returned'[k] = [returned[k] EXCEPT !.slots = Overwritten(slots)] BY <1>4
    <3>2. slots \in Seq(Slot) BY <1>2 DEF Plan
    <3>3. CASE Overwritten(slots) = slots
      <4>1. [returned[k] EXCEPT !.slots = slots] = returned[k] BY <1>2 DEF Plan
      <4> QED BY <1>3, <2>3, <3>1, <3>3, <4>1
    <3>4. CASE \E i, j \in DOMAIN Overwritten(slots) :
                 i < j /\ Overwritten(slots)[i] = Overwritten(slots)[j]
      <4>1. returned'[k].slots = Overwritten(slots) BY <1>2, <3>1 DEF Plan
      <4> HIDE DEF slots
      <4> QED BY <2>3, <3>4, <4>1 DEF Repeating
    <3> QED BY <3>2, <3>3, <3>4, OverwrittenRepeats
  <2> QED BY <2>2, <2>3
<1> QED BY <1>3, <1>4 DEF ReuseRejection

LEMMA ShowsKept == ReuseTypeOK /\ StoredInv /\ OverwrittenShows /\ [Next]_vars => OverwrittenShows'
<1> SUFFICES ASSUME ReuseTypeOK, StoredInv, OverwrittenShows, [Next]_vars,
                    NEW l \in DOMAIN returned'
             PROVE  AsRead(returned[l])' \/ Repeating(returned[l])'
  BY DEF OverwrittenShows, AsRead, Repeating
<1>1. CASE Reads
  <2>1. PICK r \in ToSet(stored) : GatedFrom(returned'[l], r) BY <1>1, ReadsGate
  <2>2. stored' = stored
    BY <1>1 DEF Reads, LoadPriorPlan, Load, SimilarPriorPlans, Return
  <2> QED BY <2>1, <2>2 DEF GatedFrom, AsRead, Unsuppressed
<1>2. ASSUME NEW k \in DOMAIN returned, NEW t \in Requests, NEW type \in Types,
             ReuseRejection(k, t, type)
      PROVE  AsRead(returned[l])' \/ Repeating(returned[l])'
  BY <1>2, RefusalShows
<1>3. CASE UNCHANGED returned /\ ToSet(stored) \subseteq ToSet(stored')
  <2>1. AsRead(returned[l]) \/ Repeating(returned[l]) BY <1>3, Looks
  <2> QED BY <1>3, <2>1 DEF AsRead, Repeating, Unsuppressed
<1>4. CASE StoreContextPlan
  <2>1. PICK p : stored' = Append(stored, RecordOf(p)) BY <1>4 DEF StoreContextPlan
  <2>2. stored \in Seq(Record) BY DEF ReuseTypeOK
  <2>3. \A i \in DOMAIN stored : i \in DOMAIN stored' /\ stored'[i] = stored[i] BY <2>1, <2>2
  <2>4. ToSet(stored) \subseteq ToSet(stored') BY <2>3 DEF ToSet
  <2>5. UNCHANGED returned BY <1>4 DEF StoreContextPlan
  <2> QED BY <1>3, <2>4, <2>5
<1>5. CASE ChangeCaller \/ (\E n \in Nodes : ChangeNode(n) \/ ForgetNode(n)) \/ UNCHANGED vars
  <2>1. UNCHANGED <<stored, returned>>
    BY <1>5 DEF ChangeCaller, ChangeNode, ForgetNode, Change, vars
  <2> QED BY <1>3, <2>1 DEF ToSet
<1> QED BY <1>1, <1>2, <1>4, <1>5 DEF Next

\* A plan that a refusal filtered in its caller's hands never passes for one as read:
\* it repeats a slot.
THEOREM OverwritingShows == Spec => []OverwrittenShows
<1>1. Init => StoredInv BY DEF Init, StoredInv
<1>2. Init => OverwrittenShows BY DEF Init, OverwrittenShows
<1> QED BY <1>1, <1>2, ShowsKept, StoredKept, ReuseTypeKept, InitReuse, PTL DEF Spec
=============================================================================
