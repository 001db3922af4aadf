---------------------------- MODULE RagGraphProofs ----------------------------
(***************************************************************************)
(* Theorems about the engine, the graph built from a handoff, the router   *)
(* and the hygiene report, for every backlog file, handoff, command line   *)
(* and caller: the reading queue, redaction, suggested edges, routing, the *)
(* two computations of hygiene, the types of all that is kept, and the     *)
(* scores when items are read.                                             *)
(***************************************************************************)
EXTENDS ClusterProofs

\* PlanQueue has its call and its record.
KnownCalls == Calls \cup {NoCall, RagCall}
QueueShape ==
    /\ call \in KnownCalls
    /\ pc = "queue" => call \in Calls
    /\ queue = [entries |-> queue.entries, skipped |-> queue.skipped, used |-> queue.used,
                exceeded |-> queue.exceeded, budget |-> queue.budget]
    /\ queue.entries \in Seq(IDs(backlog))

Weighed == \A id \in IDs(backlog) : Minutes(id) \in Nat
TakenAhead ==
    \A i \in DOMAIN queue.entries : \A w \in waiting : Ahead(queue.entries[i], w)

\* What was skipped did not fit then and does not fit now.
StillTooLong == \A s \in queue.skipped : Full \/ Over(s)

QueueOrder ==
    pc = "queue" => /\ TakenAhead
                    /\ Weighed => queue.used \in Int /\ queue.budget \in Int /\ StillTooLong

QueueInv == QueueShape /\ EveryCandidateOnce /\ OverBudgetAlone /\ QueueOrder /\ PassedOverIsLonger

\* A step that is not one of PlanQueue's.
Quiet ==
    /\ pc' # "queue"
    /\ call' \in KnownCalls \/ call' = call
    /\ queue' = EmptyQueue(0) \/ (queue' = queue /\ backlog' = backlog)

\* The steps of PlanQueue are the only ones that leave a queue.
LEMMA OnlyPlanQueue ==
    ASSUME RagNext
    PROVE  \/ Quiet
           \/ StartQueue
           \/ \E id \in waiting : Take(id) \/ Skip(id)
<1>1. ASSUME NEW code, Exit(code) PROVE Quiet
  BY <1>1 DEF Exit, Quiet, KnownCalls
<1>2. ASSUME NEW b, BeginAnalysis(b), call' \in KnownCalls PROVE Quiet
  BY <1>2 DEF BeginAnalysis, Quiet
<1>3. CASE CitewiseNext
  <2>1. CASE \E c \in Calls : Run(c) \/ RunRefused(c)
    <3>1. PICK c \in Calls : Run(c) \/ RunRefused(c)
      BY <2>1
    <3>2. CASE Run(c)
      BY <3>2, <1>2 DEF Run, KnownCalls
    <3>3. CASE RunRefused(c)
      BY <3>3, <1>1 DEF RunRefused
    <3> QED BY <3>1, <3>2, <3>3
  <2>2. CASE EngineStep
    <3>1. CASE JoinPair
      BY <3>1 DEF JoinPair, Quiet, queueVars
    <3>2. CASE Analyze
      BY <3>2 DEF Analyze, Quiet, queueVars
    <3> QED BY <2>2, <3>1, <3>2 DEF EngineStep
  <2>3. CASE Write
    BY <2>3, <1>1 DEF Write
  <2>4. CASE QueueStep
    <3>1. CASE EndQueue
      BY <3>1, <1>1 DEF EndQueue
    <3> QED BY <2>4, <3>1 DEF QueueStep
  <2>5. CASE ReadItem
    BY <2>5 DEF ReadItem, Quiet, queueVars, engineVars
  <2> QED BY <1>3, <2>1, <2>2, <2>3, <2>4, <2>5 DEF CitewiseNext, Next
<1>4. CASE \E h \in Handoffs : Receive(h)
  BY <1>4 DEF Receive, Quiet, citewiseVars, queueVars, engineVars
<1>5. CASE \E ctx \in Callers : RedactHandoff(ctx)
  BY <1>5 DEF RedactHandoff, Quiet, citewiseVars, queueVars, engineVars
<1>6. CASE BuildAnalysis
  BY <1>6, <1>1, <1>2 DEF BuildAnalysis, KnownCalls
<1>7. CASE RouteQuery
  BY <1>7 DEF RouteQuery, Quiet, queueVars, engineVars
<1>8. CASE \E degraded \in BOOLEAN : AnalyzeHygiene(degraded)
  BY <1>8 DEF AnalyzeHygiene, Quiet, queueVars, engineVars
<1>9. CASE Discard
  BY <1>9, <1>1 DEF Discard, Respond
<1>10. CASE \E e \in report.suggestions : AddSuggestion(e)
  BY <1>10, <1>1 DEF AddSuggestion, Respond
<1> QED BY <1>3, <1>4, <1>5, <1>6, <1>7, <1>8, <1>9, <1>10 DEF RagNext

LEMMA QueueInvInit == RagInit => QueueInv
<1> SUFFICES ASSUME RagInit PROVE QueueInv
  OBVIOUS
<1>1. pc = "idle" /\ queue = EmptyQueue(0)
  BY DEF RagInit, Init
<1>2. QueueShape
  BY <1>1 DEF RagInit, Init, QueueShape, EmptyQueue, KnownCalls
<1>3. OverBudgetAlone
  BY <1>1 DEF OverBudgetAlone, EmptyQueue
<1> QED BY <1>1, <1>2, <1>3 DEF QueueInv, EveryCandidateOnce, QueueOrder, PassedOverIsLonger

LEMMA QueueInvQuiet == QueueInv /\ Quiet => QueueInv'
<1> SUFFICES ASSUME QueueInv, Quiet PROVE QueueInv'
  OBVIOUS
<1>1. QueueShape'
  <2>1. CASE queue' = EmptyQueue(0)
    BY <2>1 DEF QueueInv, QueueShape, Quiet, EmptyQueue, KnownCalls, NoCall, RagCall
  <2>2. CASE queue' = queue /\ backlog' = backlog
    BY <2>2 DEF QueueInv, QueueShape, Quiet, KnownCalls, NoCall, RagCall, IDs
  <2> QED BY <2>1, <2>2 DEF Quiet
<1>2. OverBudgetAlone'
  BY DEF QueueInv, OverBudgetAlone, Quiet, EmptyQueue
<1> QED BY <1>1, <1>2 DEF Quiet, QueueInv, EveryCandidateOnce, QueueOrder, PassedOverIsLonger

LEMMA QueueInvStart == QueueInv /\ StartQueue => QueueInv'
<1> SUFFICES ASSUME call \in KnownCalls, StartQueue PROVE QueueInv'
  BY DEF QueueInv, QueueShape
<1>1. call \in Calls /\ call' = call /\ backlog' = backlog
  BY DEF StartQueue, NoCall, RagCall, KnownCalls, engineVars
<1>2. PICK budget \in Int : budget > 0 /\ queue' = EmptyQueue(budget)
  <2>1. call.budget \in Int
    BY <1>1, CallsAssumption DEF CallType
  <2> QED BY <2>1 DEF StartQueue
<1>3. /\ waiting' = Unread(backlog)
      /\ queue'.entries = <<>> /\ queue'.skipped = {} /\ queue'.used = 0 /\ queue'.budget = budget
  BY <1>2 DEF StartQueue, EmptyQueue
<1>4. QueueShape'
  BY <1>1, <1>2 DEF QueueShape, KnownCalls, EmptyQueue
<1>5. EveryCandidateOnce'
  <2>1. Limit' \in Int /\ Limit' > 0
    BY <1>1, CallsAssumption DEF CallType, Limit
  <2> QED BY <1>1, <1>3, <2>1 DEF EveryCandidateOnce, Unread, IDs, Item
<1>6. OverBudgetAlone'
  BY <1>2, <1>3 DEF OverBudgetAlone
<1>7. QueueOrder'
  BY <1>2, <1>3 DEF QueueOrder, TakenAhead, StillTooLong
<1>8. PassedOverIsLonger'
  BY <1>3 DEF PassedOverIsLonger
<1> QED BY <1>4, <1>5, <1>6, <1>7, <1>8 DEF QueueInv

\* One item is taken or skipped: what both steps leave alone.
Dealt(id) ==
    /\ pc = "queue" /\ pc' = "queue"
    /\ id \in waiting /\ waiting' = waiting \ {id}
    /\ call' = call /\ backlog' = backlog /\ scores' = scores

LEMMA TakeQueue ==
    ASSUME QueueInv, NEW id \in waiting, Take(id)
    PROVE  QueueInv'
<1>1. Dealt(id) /\ ~Full /\ (Over(id) => queue.entries = <<>>)
  BY DEF Take, First, Dealt, engineVars
<1>2. /\ queue'.entries = Append(queue.entries, id) /\ queue'.used = queue.used + Minutes(id)
      /\ queue'.exceeded = (queue.exceeded \/ Over(id))
      /\ queue'.skipped = queue.skipped /\ queue'.budget = queue.budget
      /\ queue' = [entries |-> queue'.entries, skipped |-> queue'.skipped, used |-> queue'.used,
                   exceeded |-> queue'.exceeded, budget |-> queue'.budget]
  BY DEF Take, QueueInv, QueueShape
<1>3. Unread(backlog)' = Unread(backlog) /\ IDs(backlog)' = IDs(backlog) /\ Limit' = Limit
  BY <1>1 DEF Dealt, Unread, IDs, Item, Limit
<1>4. \A x : Minutes(x)' = Minutes(x)
  BY <1>1 DEF Dealt, Minutes, Item
<1>5. \A x, y : Ahead(x, y)' <=> Ahead(x, y)
  BY <1>1 DEF Dealt, Ahead
<1>6. id \in IDs(backlog) /\ queue.entries \in Seq(IDs(backlog))
  BY <1>1 DEF Dealt, QueueInv, QueueShape, EveryCandidateOnce, Unread
<1>7. /\ queue'.entries \in Seq(IDs(backlog)) /\ Len(queue'.entries) = Len(queue.entries) + 1
      /\ \A i \in DOMAIN queue.entries : queue'.entries[i] = queue.entries[i]
      /\ queue'.entries[Len(queue.entries) + 1] = id
      /\ DOMAIN queue'.entries = DOMAIN queue.entries \cup {Len(queue.entries) + 1}
      /\ DOMAIN queue.entries = 1 .. Len(queue.entries) /\ Len(queue.entries) \in Nat
  BY <1>2, <1>6
<1>8. QueueShape'
  BY <1>1, <1>2, <1>3, <1>7 DEF Dealt, QueueInv, QueueShape, KnownCalls, NoCall, RagCall
<1>9. EveryCandidateOnce'
  <2> DEFINE taken == {queue.entries[i] : i \in DOMAIN queue.entries}
  <2>1. /\ taken \cup queue.skipped \cup waiting = Unread(backlog)
        /\ \A i, j \in DOMAIN queue.entries : queue.entries[i] = queue.entries[j] => i = j
        /\ taken \cap queue.skipped = {} /\ (taken \cup queue.skipped) \cap waiting = {}
    BY <1>1 DEF Dealt, QueueInv, EveryCandidateOnce
  <2>2. {queue'.entries[i] : i \in DOMAIN queue'.entries} = taken \cup {id}
    BY <1>7
  <2>3. \A i, j \in DOMAIN queue'.entries : queue'.entries[i] = queue'.entries[j] => i = j
    BY <2>1, <1>1, <1>7 DEF Dealt
  <2>4. Len(queue'.entries) <= Limit
    <3>1. Limit \in Int
      BY <1>1, CallsAssumption DEF CallType, Dealt, QueueInv, QueueShape, Limit
    <3> QED BY <3>1, <1>1, <1>7 DEF Full
  <2>5. queue'.entries # <<>>
    BY <1>7
  <2> QED BY <2>1, <2>2, <2>3, <2>4, <2>5, <1>1, <1>2, <1>3 DEF Dealt, EveryCandidateOnce
<1>10. OverBudgetAlone'
  <2>1. ASSUME Over(id) PROVE queue'.exceeded /\ Len(queue'.entries) = 1
    <3>1. queue'.exceeded
      BY <2>1, <1>2, Zenon
    <3>2. Len(queue'.entries) = 1
      BY <2>1, <1>1, <1>7
    <3> QED BY <3>1, <3>2
  <2> QED BY <2>1, <1>2 DEF OverBudgetAlone, Over
<1>11. TakenAhead'
  <2>1. \A w \in waiting \ {id} : Ahead(id, w)
    BY DEF Take, First
  <2>2. \A i \in DOMAIN queue.entries : \A w \in waiting : Ahead(queue.entries[i], w)
    BY <1>1 DEF Dealt, QueueInv, QueueOrder, TakenAhead
  <2> QED BY <2>1, <2>2, <1>1, <1>5, <1>7 DEF Dealt, TakenAhead
<1>12. ASSUME Weighed
       PROVE  /\ queue'.used \in Int /\ queue'.budget \in Int
              /\ \A s \in queue.skipped : queue'.used + Minutes(s) > queue'.budget
              /\ \A s \in queue.skipped : Minutes(s) > Minutes(id)
  <2>1. /\ queue.used \in Int /\ queue.budget \in Int
        /\ \A s \in queue.skipped : queue.used + Minutes(s) > queue.budget
    BY <1>1, <1>12 DEF Dealt, QueueInv, QueueOrder, StillTooLong, Over
  <2>2. Minutes(id) \in Nat /\ \A s \in queue.skipped : Minutes(s) \in Nat
    BY <1>1, <1>6, <1>12 DEF Dealt, Weighed, QueueInv, EveryCandidateOnce, Unread
  <2>3. queue.skipped # {} => ~Over(id)
    BY <1>1 DEF Dealt, QueueInv, EveryCandidateOnce
  <2> QED BY <2>1, <2>2, <2>3, <1>2 DEF Over
<1>13. Weighed' = Weighed
  BY <1>3, <1>4 DEF Weighed
<1>14. QueueOrder'
  BY <1>2, <1>4, <1>11, <1>12, <1>13 DEF QueueOrder, StillTooLong, Over
<1>15. PassedOverIsLonger'
  <2>1. ASSUME Weighed
        PROVE  \A s \in queue.skipped : \A i \in DOMAIN queue'.entries :
                  Ahead(queue'.entries[i], s) \/ Minutes(s) > Minutes(queue'.entries[i])
    <3>1. \A s \in queue.skipped : \A i \in DOMAIN queue.entries :
             Ahead(queue.entries[i], s) \/ Minutes(s) > Minutes(queue.entries[i])
      BY <2>1, <1>1 DEF Dealt, QueueInv, PassedOverIsLonger, Weighed
    <3> QED BY <3>1, <1>7, <1>12, <2>1
  <2> QED BY <2>1, <1>2, <1>4, <1>5, <1>13 DEF PassedOverIsLonger, Weighed
<1> QED BY <1>8, <1>9, <1>10, <1>14, <1>15 DEF QueueInv

LEMMA SkipQueue ==
    ASSUME QueueInv, NEW id \in waiting, Skip(id)
    PROVE  QueueInv'
<1>1. Dealt(id) /\ (Full \/ (Over(id) /\ queue.entries # <<>>))
  BY DEF Skip, First, Dealt, engineVars
<1>2. /\ queue'.entries = queue.entries /\ queue'.used = queue.used
      /\ queue'.exceeded = queue.exceeded
      /\ queue'.skipped = queue.skipped \cup {id} /\ queue'.budget = queue.budget
      /\ queue' = [entries |-> queue'.entries, skipped |-> queue'.skipped, used |-> queue'.used,
                   exceeded |-> queue'.exceeded, budget |-> queue'.budget]
  BY DEF Skip, QueueInv, QueueShape
<1>3. Unread(backlog)' = Unread(backlog) /\ IDs(backlog)' = IDs(backlog) /\ Limit' = Limit
  BY <1>1 DEF Dealt, Unread, IDs, Item, Limit
<1>4. \A x : Minutes(x)' = Minutes(x)
  BY <1>1 DEF Dealt, Minutes, Item
<1>5. \A x, y : Ahead(x, y)' <=> Ahead(x, y)
  BY <1>1 DEF Dealt, Ahead
<1>6. QueueShape'
  BY <1>1, <1>2, <1>3 DEF Dealt, QueueInv, QueueShape, KnownCalls, NoCall, RagCall
<1>7. EveryCandidateOnce'
  <2>1. queue.entries # <<>>
    <3>1. Limit \in Int /\ Limit > 0
      BY <1>1, CallsAssumption DEF CallType, Dealt, QueueInv, QueueShape, Limit
    <3> QED BY <3>1, <1>1 DEF Full
  <2> QED BY <2>1, <1>1, <1>2, <1>3 DEF Dealt, QueueInv, EveryCandidateOnce
<1>8. OverBudgetAlone'
  BY <1>2 DEF QueueInv, OverBudgetAlone
<1>9. Weighed' = Weighed
  BY <1>3, <1>4 DEF Weighed
<1>10. TakenAhead /\ TakenAhead'
  BY <1>1, <1>2, <1>5 DEF Dealt, QueueInv, QueueOrder, TakenAhead
<1>11. QueueOrder'
  BY <1>1, <1>2, <1>3, <1>4, <1>9, <1>10
     DEF Dealt, QueueInv, QueueOrder, StillTooLong, Over, Full
<1>12. PassedOverIsLonger'
  <2>1. \A i \in DOMAIN queue.entries : Ahead(queue.entries[i], id)
    BY <1>10 DEF TakenAhead
  <2> QED BY <2>1, <1>1, <1>2, <1>4, <1>5, <1>9 DEF Dealt, QueueInv, PassedOverIsLonger, Weighed
<1> QED BY <1>6, <1>7, <1>8, <1>11, <1>12 DEF QueueInv

LEMMA QueueInvNext == QueueInv /\ [RagNext]_vars => QueueInv'
<1> SUFFICES ASSUME QueueInv, [RagNext]_vars PROVE QueueInv'
  OBVIOUS
<1>1. CASE RagNext
  BY <1>1, OnlyPlanQueue, QueueInvQuiet, QueueInvStart, TakeQueue, SkipQueue
<1>2. CASE UNCHANGED vars
  <2>1. UNCHANGED <<pc, call, backlog, scores, waiting, queue>>
    BY <1>2 DEF vars, citewiseVars, engineVars, queueVars
  <2>2. CASE pc # "queue"
    BY <2>1, <2>2, QueueInvQuiet DEF Quiet
  <2>3. CASE pc = "queue"
    <3>1. QueueShape'
      BY <2>1 DEF QueueInv, QueueShape, KnownCalls, NoCall, RagCall, IDs
    <3>2. EveryCandidateOnce'
      <4>1. Unread(backlog)' = Unread(backlog) /\ Limit' = Limit
        BY <2>1 DEF Unread, IDs, Item, Limit
      <4> QED BY <4>1, <2>1 DEF QueueInv, EveryCandidateOnce
    <3>3. OverBudgetAlone'
      BY <2>1 DEF QueueInv, OverBudgetAlone
    <3>4. Weighed' = Weighed /\ \A x : Minutes(x)' = Minutes(x)
      BY <2>1 DEF Weighed, Minutes, IDs, Item
    <3>5. (Full' <=> Full) /\ \A x, y : Ahead(x, y)' <=> Ahead(x, y)
      BY <2>1 DEF Full, Limit, Ahead
    <3>6. QueueOrder'
      <4>1. TakenAhead'
        BY <2>1, <2>3, <3>5 DEF QueueInv, QueueOrder, TakenAhead
      <4> QED BY <2>1, <2>3, <3>4, <3>5, <4>1 DEF QueueInv, QueueOrder, StillTooLong, Over
    <3>7. PassedOverIsLonger'
      BY <2>1, <2>3, <3>4, <3>5 DEF QueueInv, PassedOverIsLonger, Weighed
    <3> QED BY <3>1, <3>2, <3>3, <3>6, <3>7 DEF QueueInv
  <2> QED BY <2>2, <2>3
<1> QED BY <1>1, <1>2

LEMMA QueueInvAlways == RagSpec => []QueueInv
BY QueueInvInit, QueueInvNext, PTL DEF RagSpec

\* PlanQueue deals with every unread item once and recommends none twice, none that was
\* read and none beyond the limit (pkg/citewise/engine.go, PlanQueue).
THEOREM EachCandidateOnce == RagSpec => []EveryCandidateOnce
<1>1. QueueInv => EveryCandidateOnce
  BY DEF QueueInv
<1> QED BY <1>1, QueueInvAlways, PTL

\* The budget is broken only by a first item that would fit no queue, and an item is
\* passed over only for shorter ones.
THEOREM BudgetIsRespected == RagSpec => []BudgetRespected
<1>1. QueueInv => BudgetRespected
  BY DEF QueueInv, BudgetRespected
<1> QED BY <1>1, QueueInvAlways, PTL

-----------------------------------------------------------------------------
(* Redaction.                                                              *)

LEMMA RedactBuildable ==
    ASSUME NEW h \in HybridType, NEW ctx, Buildable(MapHandoff(h))
    PROVE  Buildable(MapHandoff(RedactForReranker(ctx, h)))
<1> DEFINE V == {i \in DOMAIN h.nodes : CanSeeNode(ctx, h.nodes[i])}
           nodes == Cut(h.nodes, V)
           allowed == NodeIDs(nodes)
           W == {i \in DOMAIN h.edges : {h.edges[i].source, h.edges[i].target} \subseteq allowed}
           edges == Cut(h.edges, W)
           s == MapHandoff(RedactForReranker(ctx, h))
<1>1. h.nodes \in Seq(NodeType) /\ h.edges \in Seq(EdgeType) BY DEF HybridType
<1>2. /\ nodes \in Seq(NodeType) /\ Len(nodes) = Cardinality(V)
      /\ \A k \in 1..Cardinality(V) : Place(V, k) \in V /\ nodes[k] = h.nodes[Place(V, k)]
  BY <1>1, CutType, ZenonT(60)
<1>3. /\ edges \in Seq(EdgeType) /\ Len(edges) = Cardinality(W)
      /\ \A k \in 1..Cardinality(W) : Place(W, k) \in W /\ edges[k] = h.edges[Place(W, k)]
  BY <1>1, CutType, ZenonT(60)
<1>4. s.nodes = nodes /\ s.edges = edges /\ s.candidates = h.candidates \cap allowed
  BY DEF MapHandoff, RedactForReranker, VisibleNodes, EdgesWithin, HybridType
<1>5. /\ 0 \notin NodeIDs(h.nodes)
      /\ \A i, j \in DOMAIN h.nodes : h.nodes[i].item.id = h.nodes[j].item.id => i = j
  BY DEF Buildable, MapHandoff
<1>6. DOMAIN nodes = 1..Cardinality(V) /\ DOMAIN edges = 1..Cardinality(W)
  <2> HIDE DEF nodes, edges, V, W
  <2>1. DOMAIN nodes = 1..Cardinality(V) BY <1>2
  <2>2. DOMAIN edges = 1..Cardinality(W) BY <1>3
  <2> QED BY <2>1, <2>2
<1>7. \A i \in W : {h.edges[i].source, h.edges[i].target} \subseteq allowed OBVIOUS
<1>8. V \subseteq DOMAIN h.nodes OBVIOUS
<1>9. \A j, k \in 1..Cardinality(V) : Place(V, j) = Place(V, k) => j = k
  <2>1. Len(h.nodes) \in Nat /\ V \in SUBSET (1..Len(h.nodes)) BY <1>1
  <2>2. \A j, k \in 1..Cardinality(V) : j < k <=> Place(V, j) < Place(V, k) BY <2>1, CutPlaces
  <2>3. \A k \in 1..Cardinality(V) : Place(V, k) \in Int
    <3>1. \A i \in V : i \in Int BY <2>1
    <3> QED BY <1>2, <3>1
  <2>4. Cardinality(V) \in Int BY <1>2, <1>6
  <2> HIDE DEF V
  <2> QED BY <2>2, <2>3
<1> HIDE DEF nodes, edges, V, W
<1>10. 0 \notin allowed
  <2>1. \A k \in DOMAIN nodes : nodes[k].item.id \in NodeIDs(h.nodes)
    BY <1>2, <1>6, <1>8 DEF NodeIDs
  <2> QED BY <1>5, <2>1 DEF NodeIDs
<1>11. \A j, k \in DOMAIN nodes : nodes[j].item.id = nodes[k].item.id => j = k
  BY <1>2, <1>5, <1>6, <1>8, <1>9
<1>12. \A k \in DOMAIN edges : {edges[k].source, edges[k].target} \subseteq allowed
  BY <1>3, <1>6, <1>7
<1> QED BY <1>4, <1>10, <1>11, <1>12 DEF Buildable

\* What BuildAnalysis accepts of a hybrid handoff it still accepts after
\* RedactForReranker (pkg/integrations/hybrid/schema.go), whoever asks.
THEOREM RedactedIsBuildable == RagSpec => RedactionKeepsItBuildable
<1> DEFINE Step == \A ctx \in Callers :
                     RedactHandoff(ctx) /\ Buildable(MapHandoff(handoff)) => Buildable(set')
<1>1. ClusterInv /\ [RagNext]_vars => [Step]_vars
  <2> SUFFICES ASSUME ClusterInv, NEW ctx \in Callers, RedactHandoff(ctx),
                      Buildable(MapHandoff(handoff))
               PROVE  Buildable(set')
    OBVIOUS
  <2>1. /\ handoff.origin = "hybrid"
        /\ set' = MapHandoff(RedactForReranker(ctx, handoff))
    BY DEF RedactHandoff
  <2>2. handoff \in HybridType
    BY <2>1 DEF ClusterInv, Shape, HandoffKind, ExportType, ResultsType, FromBacklog, NoHandoff
  <2> QED BY <2>1, <2>2, RedactBuildable
<1> QED BY <1>1, ClusterInvAlways, PTL DEF RagSpec, RedactionKeepsItBuildable

-----------------------------------------------------------------------------
(* Suggestions.                                                            *)

\* Every suggestion of a kind has the same confidence.
ConfidenceOf(type) ==
    CASE type = "supersedes"          -> 100
      [] type = "community-member-of" -> 80
      [] type = "exception-to"        -> 55
      [] type = "same-question"       -> 70
      [] type = "duplicate"           -> 90
OneWayTypes == {"supersedes", "community-member-of", "exception-to"}
TwoWayTypes == {"same-question", "duplicate"}

\* What calls for a suggestion about two nodes, whatever edges there are.
CallsFor(m, n, type) ==
    \/ type = "supersedes" /\ m.supersededBy = n.item.id
    \/ type = "community-member-of" /\ SameCommunity(m, n) /\ m.chunk = "community-summary"
    \/ type = "exception-to" /\ "policy" \in m.item.title /\ "exception" \in n.item.title
    \/ type = "same-question" /\ SameCommunity(m, n) /\ TopicOverlap(m, n)
    \/ type = "duplicate" /\ SameTitle(m, n)

\* The edge a one-way suggestion looks for, and the one it asks for.
Found(s, a, b, type) ==
    IF type = "supersedes" THEN HasEdge(s, a, b, type) ELSE HasEdge(s, b, a, type)

LEMMA OneWayIs ==
    ASSUME NEW s, NEW m, NEW n, NEW e
    PROVE  e \in OneWaySuggestions(s, m, n) <=>
             \E type \in OneWayTypes :
               /\ e = Edge(n.item.id, m.item.id, type, ConfidenceOf(type))
               /\ CallsFor(m, n, type) /\ ~Found(s, m.item.id, n.item.id, type)
<1> DEFINE a == m.item.id
           b == n.item.id
           one == Edge(b, a, "supersedes", 100)
           two == Edge(b, a, "community-member-of", 80)
           three == Edge(b, a, "exception-to", 55)
<1>1. one.type = "supersedes" /\ two.type = "community-member-of" /\ three.type = "exception-to"
  BY DEF Edge
<1>2. one \in OneWaySuggestions(s, m, n) <=>
        CallsFor(m, n, "supersedes") /\ ~Found(s, a, b, "supersedes")
  BY <1>1, ZenonT(60) DEF OneWaySuggestions, CallsFor, Found
<1>3. two \in OneWaySuggestions(s, m, n) <=>
        CallsFor(m, n, "community-member-of") /\ ~Found(s, a, b, "community-member-of")
  BY <1>1, ZenonT(60) DEF OneWaySuggestions, CallsFor, Found
<1>4. three \in OneWaySuggestions(s, m, n) <=>
        CallsFor(m, n, "exception-to") /\ ~Found(s, a, b, "exception-to")
  BY <1>1, ZenonT(60) DEF OneWaySuggestions, CallsFor, Found
<1>5. e \in OneWaySuggestions(s, m, n) => e \in {one, two, three} BY DEF OneWaySuggestions
<1>6. /\ one = Edge(b, a, "supersedes", ConfidenceOf("supersedes"))
      /\ two = Edge(b, a, "community-member-of", ConfidenceOf("community-member-of"))
      /\ three = Edge(b, a, "exception-to", ConfidenceOf("exception-to"))
  BY DEF ConfidenceOf
<1> HIDE DEF a, b, one, two, three
<1> DEFINE Right(type) == /\ e = Edge(b, a, type, ConfidenceOf(type))
                          /\ CallsFor(m, n, type) /\ ~Found(s, a, b, type)
<1>7. e \in OneWaySuggestions(s, m, n) <=>
        Right("supersedes") \/ Right("community-member-of") \/ Right("exception-to")
  BY <1>2, <1>3, <1>4, <1>5, <1>6
<1> HIDE DEF Right
<1>8. e \in OneWaySuggestions(s, m, n) <=> \E type \in OneWayTypes : Right(type)
  BY <1>7 DEF OneWayTypes
<1> QED BY <1>8 DEF Right, a, b

LEMMA TwoWayIs ==
    ASSUME NEW s, NEW m, NEW n, NEW e
    PROVE  e \in TwoWaySuggestions(s, m, n) <=>
             \E type \in TwoWayTypes :
               /\ e = Edge(m.item.id, n.item.id, type, ConfidenceOf(type))
               /\ CallsFor(m, n, type) /\ ~HasAnyEdgeBetween(s, m.item.id, n.item.id, type)
<1> DEFINE a == m.item.id
           b == n.item.id
           one == Edge(a, b, "same-question", 70)
           two == Edge(a, b, "duplicate", 90)
<1>1. one.type = "same-question" /\ two.type = "duplicate"
  BY DEF Edge
<1>2. one \in TwoWaySuggestions(s, m, n) <=>
        CallsFor(m, n, "same-question") /\ ~HasAnyEdgeBetween(s, a, b, "same-question")
  BY <1>1 DEF TwoWaySuggestions, CallsFor
<1>3. two \in TwoWaySuggestions(s, m, n) <=>
        CallsFor(m, n, "duplicate") /\ ~HasAnyEdgeBetween(s, a, b, "duplicate")
  BY <1>1 DEF TwoWaySuggestions, CallsFor
<1>4. e \in TwoWaySuggestions(s, m, n) => e \in {one, two} BY DEF TwoWaySuggestions
<1>5. /\ one = Edge(a, b, "same-question", ConfidenceOf("same-question"))
      /\ two = Edge(a, b, "duplicate", ConfidenceOf("duplicate"))
  BY DEF ConfidenceOf
<1> HIDE DEF a, b, one, two
<1> DEFINE Right(type) == /\ e = Edge(a, b, type, ConfidenceOf(type))
                          /\ CallsFor(m, n, type) /\ ~HasAnyEdgeBetween(s, a, b, type)
<1>6. e \in TwoWaySuggestions(s, m, n) <=> Right("same-question") \/ Right("duplicate")
  BY <1>2, <1>3, <1>4, <1>5
<1> HIDE DEF Right
<1>7. e \in TwoWaySuggestions(s, m, n) <=> \E type \in TwoWayTypes : Right(type)
  BY <1>6 DEF TwoWayTypes
<1> QED BY <1>7 DEF Right, a, b

\* The suggestions about two nodes.
About(s, m, n, e) ==
    \/ \E type \in OneWayTypes :
         /\ e = Edge(n.item.id, m.item.id, type, ConfidenceOf(type))
         /\ CallsFor(m, n, type) /\ ~Found(s, m.item.id, n.item.id, type)
    \/ /\ m.item.id < n.item.id
       /\ \E type \in TwoWayTypes :
            /\ e = Edge(m.item.id, n.item.id, type, ConfidenceOf(type))
            /\ CallsFor(m, n, type) /\ ~HasAnyEdgeBetween(s, m.item.id, n.item.id, type)

LEMMA SuggestionsAre ==
    ASSUME NEW s, NEW e
    PROVE  e \in SuggestMissingEdges(s) <=>
             \E m, n \in ToSet(s.nodes) : m # n /\ About(s, m, n, e)
<1> DEFINE T == ToSet(s.nodes)
           ways == {p \in T \X T : p[1] # p[2]}
           later == {q \in ways : q[1].item.id < q[2].item.id}
           one == UNION {OneWaySuggestions(s, p[1], p[2]) : p \in ways}
           two == UNION {TwoWaySuggestions(s, p[1], p[2]) : p \in later}
<1>1. SuggestMissingEdges(s) = one \cup two BY DEF SuggestMissingEdges
<1>2. e \in one <=> \E m, n \in T : m # n /\ e \in OneWaySuggestions(s, m, n)
  <2>1. ASSUME NEW p \in ways, e \in OneWaySuggestions(s, p[1], p[2])
        PROVE  \E m, n \in T : m # n /\ e \in OneWaySuggestions(s, m, n)
    BY <2>1
  <2>2. ASSUME NEW m \in T, NEW n \in T, m # n, e \in OneWaySuggestions(s, m, n)
        PROVE  e \in one
    <3>1. <<m, n>> \in ways BY <2>2
    <3> QED BY <2>2, <3>1
  <2> QED BY <2>1, <2>2
<1>3. e \in two <=> \E m, n \in T : m # n /\ m.item.id < n.item.id /\ e \in TwoWaySuggestions(s, m, n)
  <2>1. ASSUME NEW p \in later, e \in TwoWaySuggestions(s, p[1], p[2])
        PROVE  \E m, n \in T : m # n /\ m.item.id < n.item.id /\ e \in TwoWaySuggestions(s, m, n)
    BY <2>1
  <2>2. ASSUME NEW m \in T, NEW n \in T, m # n, m.item.id < n.item.id, e \in TwoWaySuggestions(s, m, n)
        PROVE  e \in two
    <3>1. <<m, n>> \in later BY <2>2
    <3> QED BY <2>2, <3>1
  <2> QED BY <2>1, <2>2
<1> HIDE DEF T, ways, later, one, two
<1>4. e \in SuggestMissingEdges(s) <=>
        \E m, n \in T : m # n /\ \/ e \in OneWaySuggestions(s, m, n)
                                 \/ m.item.id < n.item.id /\ e \in TwoWaySuggestions(s, m, n)
  BY <1>1, <1>2, <1>3
<1>5. \A m, n : About(s, m, n, e) <=>
        \/ e \in OneWaySuggestions(s, m, n)
        \/ m.item.id < n.item.id /\ e \in TwoWaySuggestions(s, m, n)
  BY OneWayIs, TwoWayIs, Zenon DEF About
<1> QED BY <1>4, <1>5, Zenon DEF T

LEMMA EdgeIs ==
    ASSUME NEW a, NEW b, NEW t, NEW c, NEW x, NEW y, NEW u, NEW d
    PROVE  /\ Edge(a, b, t, c) = Edge(x, y, u, d) <=> a = x /\ b = y /\ t = u /\ c = d
           /\ Edge(a, b, t, c).source = a /\ Edge(a, b, t, c).target = b
           /\ Edge(a, b, t, c).type = t /\ Edge(a, b, t, c).confidence = c
BY DEF Edge

\* A graph with one more edge.
LEMMA HasEdgeAdded ==
    ASSUME NEW s \in SetKind, NEW new \in EdgeKind, new.type \in SuggestedTypes,
           NEW x, NEW y, NEW type
    PROVE  LET more == [s EXCEPT !.edges = Append(@, new)]
           IN  HasEdge(more, x, y, type) <=>
                 HasEdge(s, x, y, type) \/ (new.source = x /\ new.target = y /\ new.type = type)
<1> DEFINE edges == Append(s.edges, new)
           more == [s EXCEPT !.edges = edges]
           Is(e) == e.source = x /\ e.target = y /\ NormalizeEdge(e.type) = type
<1>1. s.edges \in Seq(EdgeKind) BY DEF SetKind
<1>2. /\ DOMAIN s.edges = 1..Len(s.edges) /\ Len(s.edges) \in Nat
      /\ DOMAIN edges = DOMAIN s.edges \cup {Len(s.edges) + 1}
      /\ \A i \in DOMAIN s.edges : edges[i] = s.edges[i]
      /\ edges[Len(s.edges) + 1] = new
  BY <1>1
<1>3. more.edges = edges BY DEF SetKind
<1>4. NormalizeEdge(new.type) = new.type BY DEF SuggestedTypes, NormalizeEdge
<1>5. HasEdge(s, x, y, type) <=> \E i \in DOMAIN s.edges : Is(s.edges[i])
  BY DEF HasEdge
<1>6. HasEdge(more, x, y, type) <=> \E i \in DOMAIN more.edges : Is(more.edges[i])
  BY DEF HasEdge
<1>7. Is(new) <=> new.source = x /\ new.target = y /\ new.type = type BY <1>4
<1> HIDE DEF edges, Is, more
<1>8. HasEdge(more, x, y, type) <=> HasEdge(s, x, y, type) \/ Is(new)
  BY <1>2, <1>3, <1>5, <1>6
<1> QED BY <1>7, <1>8 DEF more, edges

\* The suggestion that a new edge withdraws.
Withdrawn(new) ==
    IF new.type = "supersedes" THEN Edge(new.target, new.source, "supersedes", 100) ELSE new

\* A suggestion as it was made.
LEMMA SuggestionMade ==
    ASSUME NEW s \in SetKind, NEW new \in SuggestMissingEdges(s)
    PROVE  /\ new = Edge(new.source, new.target, new.type, ConfidenceOf(new.type))
           /\ new.type \in OneWayTypes \cup TwoWayTypes
           /\ new.type \in TwoWayTypes => new.source < new.target
<1>1. PICK m, n \in ToSet(s.nodes) : About(s, m, n, new) BY SuggestionsAre
<1>2. CASE \E type \in OneWayTypes : new = Edge(n.item.id, m.item.id, type, ConfidenceOf(type))
  <2>1. PICK type \in OneWayTypes : new = Edge(n.item.id, m.item.id, type, ConfidenceOf(type))
    BY <1>2
  <2>2. new.source = n.item.id /\ new.target = m.item.id /\ new.type = type BY <2>1, EdgeIs
  <2>3. type \notin TwoWayTypes BY DEF OneWayTypes, TwoWayTypes
  <2> QED BY <2>1, <2>2, <2>3
<1>3. CASE /\ m.item.id < n.item.id
           /\ \E type \in TwoWayTypes : new = Edge(m.item.id, n.item.id, type, ConfidenceOf(type))
  <2>1. PICK type \in TwoWayTypes : new = Edge(m.item.id, n.item.id, type, ConfidenceOf(type))
    BY <1>3
  <2>2. new.source = m.item.id /\ new.target = n.item.id /\ new.type = type BY <2>1, EdgeIs
  <2> QED BY <1>3, <2>1, <2>2
<1> QED BY <1>1, <1>2, <1>3 DEF About

LEMMA Settles ==
    ASSUME NEW s \in SetKind, NEW new \in SuggestMissingEdges(s)
    PROVE  SuggestMissingEdges([s EXCEPT !.edges = Append(@, new)])
             = SuggestMissingEdges(s) \ {Withdrawn(new)}
<1> DEFINE more == [s EXCEPT !.edges = Append(@, new)]
           gone == Withdrawn(new)
           Adds(x, y, type) == new.source = x /\ new.target = y /\ new.type = type
<1>1. /\ new = Edge(new.source, new.target, new.type, ConfidenceOf(new.type))
      /\ new.type \in OneWayTypes \cup TwoWayTypes
      /\ new.type \in TwoWayTypes => new.source < new.target
  BY SuggestionMade
<1>2. \A x, y, type : HasEdge(more, x, y, type) <=> HasEdge(s, x, y, type) \/ Adds(x, y, type)
  BY SuggestionKind, HasEdgeAdded
<1>3. more.nodes = s.nodes BY DEF SetKind
<1>4. \A i \in DOMAIN s.nodes : s.nodes[i].item.id \in Int
  <2>1. \A i \in DOMAIN s.nodes : s.nodes[i] \in NodeKind BY SeqElements DEF SetKind
  <2> QED BY <2>1 DEF NodeKind, ItemKind
<1>5. \A m \in ToSet(s.nodes) : m.item.id \in Int BY <1>4 DEF ToSet
<1> HIDE DEF more, Adds
<1>6. ASSUME NEW a \in Int, NEW b \in Int, NEW type \in OneWayTypes
      PROVE  Found(more, a, b, type) <=>
               Found(s, a, b, type) \/ gone = Edge(b, a, type, ConfidenceOf(type))
  <2>1. CASE type = "supersedes"
    <3>1. Found(more, a, b, type) <=> Found(s, a, b, type) \/ Adds(a, b, "supersedes")
      BY <1>2, <2>1 DEF Found
    <3>2. ConfidenceOf(type) = 100 BY <2>1 DEF ConfidenceOf
    <3>3. CASE new.type = "supersedes"
      <4>1. gone = Edge(new.target, new.source, "supersedes", 100) BY <3>3 DEF Withdrawn
      <4>2. gone = Edge(b, a, type, 100) <=> new.target = b /\ new.source = a
        BY <2>1, <4>1, EdgeIs
      <4> QED BY <3>1, <3>2, <3>3, <4>2 DEF Adds
    <3>4. CASE new.type # "supersedes"
      <4>1. gone.type # "supersedes" BY <3>4 DEF Withdrawn
      <4>2. Edge(b, a, type, 100).type = "supersedes" BY <2>1, EdgeIs
      <4>3. gone # Edge(b, a, type, 100) BY <4>1, <4>2
      <4> QED BY <3>1, <3>2, <3>4, <4>3 DEF Adds
    <3> QED BY <3>3, <3>4
  <2>2. CASE type # "supersedes"
    <3>1. Found(more, a, b, type) <=> Found(s, a, b, type) \/ Adds(b, a, type)
      BY <1>2, <2>2 DEF Found
    <3>2. CASE new.type = type
      <4>1. gone = new BY <2>2, <3>2 DEF Withdrawn
      <4>2. gone = Edge(b, a, type, ConfidenceOf(type)) <=> new.source = b /\ new.target = a
        BY <1>1, <3>2, <4>1, EdgeIs
      <4> QED BY <3>1, <3>2, <4>2 DEF Adds
    <3>3. CASE new.type # type
      <4>1. gone.type = new.type
        <5>1. Edge(new.target, new.source, "supersedes", 100).type = "supersedes" BY EdgeIs
        <5> QED BY <5>1 DEF Withdrawn
      <4>2. Edge(b, a, type, ConfidenceOf(type)).type = type BY EdgeIs
      <4>3. gone # Edge(b, a, type, ConfidenceOf(type)) BY <3>3, <4>1, <4>2
      <4> QED BY <3>1, <3>3, <4>3 DEF Adds
    <3> QED BY <3>2, <3>3
  <2> QED BY <2>1, <2>2
<1>7. ASSUME NEW a \in Int, NEW b \in Int, a < b, NEW type \in TwoWayTypes
      PROVE  HasAnyEdgeBetween(more, a, b, type) <=>
               HasAnyEdgeBetween(s, a, b, type) \/ gone = Edge(a, b, type, ConfidenceOf(type))
  <2>1. HasAnyEdgeBetween(more, a, b, type) <=>
          HasAnyEdgeBetween(s, a, b, type) \/ Adds(a, b, type) \/ Adds(b, a, type)
    BY <1>2 DEF HasAnyEdgeBetween
  <2>2. ~Adds(b, a, type) BY <1>1, <1>7 DEF Adds
  <2>3. type # "supersedes" BY DEF TwoWayTypes
  <2>4. CASE new.type = type
    <3>1. gone = new BY <2>3, <2>4 DEF Withdrawn
    <3>2. gone = Edge(a, b, type, ConfidenceOf(type)) <=> new.source = a /\ new.target = b
      BY <1>1, <2>4, <3>1, EdgeIs
    <3> QED BY <2>1, <2>2, <2>4, <3>2 DEF Adds
  <2>5. CASE new.type # type
    <3>1. gone.type = new.type
      <4>1. Edge(new.target, new.source, "supersedes", 100).type = "supersedes" BY EdgeIs
      <4> QED BY <4>1 DEF Withdrawn
    <3>2. Edge(a, b, type, ConfidenceOf(type)).type = type BY EdgeIs
    <3>3. gone # Edge(a, b, type, ConfidenceOf(type)) BY <2>5, <3>1, <3>2
    <3> QED BY <2>1, <2>2, <2>5, <3>3 DEF Adds
  <2> QED BY <2>4, <2>5
<1> HIDE DEF gone
<1>8. ASSUME NEW m \in ToSet(s.nodes), NEW n \in ToSet(s.nodes), NEW e
      PROVE  About(more, m, n, e) <=> About(s, m, n, e) /\ e # gone
  <2> DEFINE a == m.item.id
             b == n.item.id
  <2>1. a \in Int /\ b \in Int BY <1>5
  <2>2. \A type \in OneWayTypes :
           Found(more, a, b, type) <=>
             Found(s, a, b, type) \/ gone = Edge(b, a, type, ConfidenceOf(type))
    BY <1>6, <2>1
  <2>3. a < b => \A type \in TwoWayTypes :
           HasAnyEdgeBetween(more, a, b, type) <=>
             HasAnyEdgeBetween(s, a, b, type) \/ gone = Edge(a, b, type, ConfidenceOf(type))
    BY <1>7, <2>1
  <2> DEFINE one(type) == e = Edge(b, a, type, ConfidenceOf(type))
             two(type) == e = Edge(a, b, type, ConfidenceOf(type))
  <2>4. \A type \in OneWayTypes :
           one(type) => (~Found(more, a, b, type) <=> ~Found(s, a, b, type) /\ e # gone)
    BY <2>2
  <2>5. a < b => \A type \in TwoWayTypes :
           two(type) => (~HasAnyEdgeBetween(more, a, b, type) <=>
                           ~HasAnyEdgeBetween(s, a, b, type) /\ e # gone)
    BY <2>3
  <2>6. \A x : About(x, m, n, e) <=>
          \/ \E type \in OneWayTypes : one(type) /\ CallsFor(m, n, type) /\ ~Found(x, a, b, type)
          \/ a < b /\ \E type \in TwoWayTypes :
                         two(type) /\ CallsFor(m, n, type) /\ ~HasAnyEdgeBetween(x, a, b, type)
    BY Zenon DEF About
  <2> HIDE DEF a, b, one, two
  <2>7. About(more, m, n, e) => About(s, m, n, e) /\ e # gone BY <2>4, <2>5, <2>6
  <2>8. About(s, m, n, e) /\ e # gone => About(more, m, n, e) BY <2>4, <2>5, <2>6
  <2> QED BY <2>7, <2>8
<1>9. ASSUME NEW e
      PROVE  e \in SuggestMissingEdges(more) <=> e \in SuggestMissingEdges(s) /\ e # gone
  <2>1. e \in SuggestMissingEdges(more) <=> \E m, n \in ToSet(s.nodes) : m # n /\ About(more, m, n, e)
    BY <1>3, SuggestionsAre
  <2>2. e \in SuggestMissingEdges(s) <=> \E m, n \in ToSet(s.nodes) : m # n /\ About(s, m, n, e)
    BY SuggestionsAre
  <2> QED BY <1>8, <2>1, <2>2
<1> QED BY <1>9 DEF more, gone

\* A suggestion that is taken up settles itself and nothing else
\* (pkg/hygiene/suggestions.go, SuggestMissingEdges), in every graph.
THEOREM TakenUpSettles == RagSpec => SuggestionsSettle
<1> DEFINE new == Last(added')
           Step == Len(added') > Len(added) =>
                     SuggestMissingEdges(set') = SuggestMissingEdges(set) \ {Withdrawn(new)}
<1>1. ClusterInv /\ [RagNext]_vars => [Step]_vars
  <2> SUFFICES ASSUME ClusterInv, RagNext, Len(added') > Len(added) PROVE Step
    OBVIOUS
  <2>1. added \in Seq(EdgeKind) /\ set \in SetKind BY DEF ClusterInv, Shape
  <2>2. Len(added) \in Nat /\ Len(<<>>) = 0 BY <2>1
  <2>3. added' # added /\ added' # <<>> BY <2>2
  <2>4. PICK e \in report.suggestions : AddSuggestion(e)
    BY <2>3, GraphSteps DEF Unhanded, Receive, RedactHandoff
  <2>5. /\ pc = "reported" /\ set' = [set EXCEPT !.edges = Append(@, e)]
        /\ added' = Append(added, e)
    BY <2>4 DEF AddSuggestion, Respond
  <2>6. e \in SuggestMissingEdges(set) BY <2>5 DEF ClusterInv, OfTheGraph
  <2>7. new = e
    <3>1. e \in EdgeKind BY <2>1, <2>6, SuggestionKind
    <3> QED BY <2>1, <2>5, <3>1 DEF Last
  <2> QED BY <2>1, <2>5, <2>6, <2>7, Settles
<1>2. SuggestionsSettle <=> [][Step]_vars BY Zenon DEF SuggestionsSettle, Withdrawn
<1> QED BY <1>1, <1>2, ClusterInvAlways, PTL DEF RagSpec

-----------------------------------------------------------------------------
(* Reading an item.  A parsed backlog is normal: parsing it again changes  *)
(* nothing.                                                                *)

NormalItem(it) ==
    it.title # {} /\ it.id # 0 /\ it.status # "" /\ it.difficulty \in 1..5 /\ it.minutes # 0
NormalEdge(e) == NormEdgeType(e.type) = e.type /\ e.confidence # 0
Normal(b) ==
    /\ DistinctIDs(b.items)
    /\ \A i \in DOMAIN b.items : NormalItem(b.items[i])
    /\ \A i \in DOMAIN b.edges : NormalEdge(b.edges[i])

LEMMA NormalizedItem ==
    ASSUME NEW it \in ItemKind
    PROVE  /\ it.title # {} /\ it.id # 0 => NormalItem(NormalizeItem(it))
           /\ NormalizeItem(it).id = it.id
           /\ NormalItem(it) => NormalizeItem(it) = it
<1> DEFINE a == IF it.status = "" THEN "unread" ELSE it.status
           b == IF it.difficulty = 0 THEN 3
                ELSE IF it.difficulty < 1 THEN 1
                ELSE IF it.difficulty > 5 THEN 5 ELSE it.difficulty
           c == IF it.minutes = 0 THEN 45 ELSE it.minutes
<1>1. it.difficulty \in Int /\ it.minutes \in Int BY DEF ItemKind
<1>2. a # "" OBVIOUS
<1>3. b \in 1..5 BY <1>1
<1>4. c # 0 BY <1>1
<1>5. NormalizeItem(it) = [it EXCEPT !.status = a, !.difficulty = b, !.minutes = c]
  BY Zenon DEF NormalizeItem
<1>6. ASSUME NormalItem(it) PROVE a = it.status /\ b = it.difficulty /\ c = it.minutes
  <2>1. it.status # "" /\ it.difficulty \in 1..5 /\ it.minutes # 0 BY <1>6 DEF NormalItem
  <2>2. \A d \in 1..5 :
           (IF d = 0 THEN 3 ELSE IF d < 1 THEN 1 ELSE IF d > 5 THEN 5 ELSE d) = d
    OBVIOUS
  <2>3. b = it.difficulty BY <2>1, <2>2, Zenon
  <2> QED BY <2>1, <2>3
<1> HIDE DEF a, b, c
<1> DEFINE new == [it EXCEPT !.status = a, !.difficulty = b, !.minutes = c]
<1>7. /\ new.title = it.title /\ new.id = it.id
      /\ new.status = a /\ new.difficulty = b /\ new.minutes = c
  BY DEF ItemKind
<1>8. a = it.status /\ b = it.difficulty /\ c = it.minutes => new = it
  BY DEF ItemKind
<1> HIDE DEF new
<1>9. NormalizeItem(it) = new BY <1>5 DEF new
<1> QED BY <1>2, <1>3, <1>4, <1>6, <1>7, <1>8, <1>9 DEF NormalItem

LEMMA NormalizedEdge ==
    ASSUME NEW e \in EdgeKind
    PROVE  /\ NormalEdge(NormalizeBacklogEdge(e))
           /\ NormalEdge(e) => NormalizeBacklogEdge(e) = e
<1> DEFINE a == NormEdgeType(e.type)
           b == IF e.confidence = 0 THEN 100 ELSE e.confidence
           new == [e EXCEPT !.type = a, !.confidence = b]
<1>1. NormEdgeType(a) = a BY DEF NormEdgeType
<1>2. b # 0 OBVIOUS
<1>3. NormalizeBacklogEdge(e) = new BY Zenon DEF NormalizeBacklogEdge
<1>4. NormalEdge(e) => a = e.type /\ b = e.confidence BY DEF NormalEdge
<1> HIDE DEF a, b
<1>5. new.type = a /\ new.confidence = b BY DEF EdgeKind
<1>6. a = e.type /\ b = e.confidence => new = e BY DEF EdgeKind
<1> QED BY <1>1, <1>2, <1>3, <1>4, <1>5, <1>6 DEF NormalEdge

LEMMA ParsedNormal ==
    ASSUME NEW f \in FileKind
    PROVE  /\ Normal(ParseBacklog(f))
           /\ ParseBacklog(f).items # <<>> => ParseBacklog(f).ok
<1>1. CASE ParseBacklog(f) = Rejected
  BY <1>1 DEF Rejected, Normal, DistinctIDs
<1>2. ASSUME NEW items \in Seq(ItemKind), NEW edges \in Seq(EdgeKind), NEW goal \in GoalKind,
             ParseBacklog(f) = NormalizeBacklog(items, edges, goal), ParseBacklog(f) # Rejected
      PROVE  Normal(ParseBacklog(f)) /\ ParseBacklog(f).ok
  <2> DEFINE known == WithID(items)
             its == [i \in DOMAIN known |-> NormalizeItem(known[i])]
             eds == [i \in DOMAIN edges |-> NormalizeBacklogEdge(edges[i])]
  <2>1. /\ Titled(items) /\ DistinctIDs(known)
        /\ ParseBacklog(f) = [ok |-> TRUE, items |-> its, edges |-> eds, goal |-> goal]
    BY <1>2 DEF NormalizeBacklog
  <2>2. DOMAIN items = 1..Len(items) /\ \A i \in DOMAIN items : items[i] \in ItemKind /\ i \in Int /\ i # 0
    OBVIOUS
  <2>3. \A i \in DOMAIN edges : edges[i] \in EdgeKind OBVIOUS
  <2>4. DOMAIN known = DOMAIN items BY DEF WithID
  <2>5. ASSUME NEW i \in DOMAIN items
        PROVE  known[i] \in ItemKind /\ known[i].title # {} /\ known[i].id # 0
    <3>1. items[i].title # {} BY <2>1 DEF Titled
    <3>2. known[i] = IF items[i].id = 0 THEN [items[i] EXCEPT !.id = i] ELSE items[i]
      BY DEF WithID, SlugID
    <3>3. /\ [items[i] EXCEPT !.id = i] \in ItemKind /\ [items[i] EXCEPT !.id = i].id = i
          /\ [items[i] EXCEPT !.id = i].title = items[i].title
      BY <2>2 DEF ItemKind
    <3> QED BY <2>2, <3>1, <3>2, <3>3
  <2> HIDE DEF known
  <2>6. \A i \in DOMAIN its : NormalItem(its[i]) /\ its[i].id = known[i].id
    BY <2>4, <2>5, NormalizedItem
  <2>7. \A i \in DOMAIN eds : NormalEdge(eds[i]) BY <2>3, NormalizedEdge
  <2>8. DOMAIN its = DOMAIN known OBVIOUS
  <2> HIDE DEF its, eds
  <2>9. DistinctIDs(its) BY <2>1, <2>6, <2>8 DEF DistinctIDs
  <2> QED BY <2>1, <2>6, <2>7, <2>9 DEF Normal
<1> QED BY <1>1, <1>2, ParseKind DEF Rejected

\* Once it is read an item differs in its status alone, and nothing else does.
LEMMA ReadParsed ==
    ASSUME file \in FileKind, ReadItem
    PROVE  \E i \in DOMAIN ParseBacklog(file).items :
             /\ ParseBacklog(file).ok
             /\ ParseBacklog(file).items[i].status # "read"
             /\ ParseBacklog(file') = [ParseBacklog(file) EXCEPT !.items[i].status = "read"]
<1> DEFINE parsed == ParseBacklog(file)
<1>1. parsed \in ParsedKind BY ParseKind
<1>2. Normal(parsed) /\ (parsed.items # <<>> => parsed.ok) BY ParsedNormal
<1>3. PICK i \in DOMAIN parsed.items :
         /\ parsed.items[i].status # "read"
         /\ file' = [form |-> "object", edges |-> parsed.edges, rows |-> <<>>,
                     items |-> [parsed.items EXCEPT ![i].status = "read"], goal |-> parsed.goal]
  BY DEF ReadItem
<1> HIDE DEF parsed
<1> DEFINE one == [parsed.items[i] EXCEPT !.status = "read"]
           items == [parsed.items EXCEPT ![i] = one]
<1>4. /\ parsed.items \in Seq(ItemKind) /\ parsed.edges \in Seq(EdgeKind)
      /\ parsed = [ok |-> parsed.ok, items |-> parsed.items, edges |-> parsed.edges, goal |-> parsed.goal]
  BY <1>1 DEF ParsedKind
<1>5. /\ Len(parsed.items) \in Nat /\ DOMAIN parsed.items = 1..Len(parsed.items)
      /\ \A j \in DOMAIN parsed.items : parsed.items[j] \in ItemKind
      /\ \A j \in DOMAIN parsed.edges : parsed.edges[j] \in EdgeKind
      /\ parsed.edges = [j \in DOMAIN parsed.edges |-> parsed.edges[j]]
  BY <1>4
<1>6. /\ one \in ItemKind /\ NormalItem(one) /\ one.id = parsed.items[i].id
  <2>1. "read" \in Names BY DEF Names
  <2>2. /\ one \in ItemKind /\ one.id = parsed.items[i].id /\ one.status = "read"
        /\ one.title = parsed.items[i].title /\ one.difficulty = parsed.items[i].difficulty
        /\ one.minutes = parsed.items[i].minutes
    BY <1>5, <2>1 DEF ItemKind
  <2> HIDE DEF one
  <2> QED BY <1>2, <2>2 DEF Normal, NormalItem
<1>7. /\ DOMAIN items = DOMAIN parsed.items /\ items = [j \in DOMAIN items |-> items[j]]
      /\ \A j \in DOMAIN items : items[j] = IF j = i THEN one ELSE parsed.items[j]
  BY <1>4, <1>5
<1> HIDE DEF one, items
<1>8. \A j \in DOMAIN items : items[j] \in ItemKind /\ NormalItem(items[j])
                              /\ items[j].id = parsed.items[j].id
  BY <1>2, <1>5, <1>6, <1>7 DEF Normal
<1>9. WithID(items) = items
  <2>1. \A j \in DOMAIN items : items[j].id # 0 BY <1>8 DEF NormalItem
  <2> QED BY <1>7, <2>1 DEF WithID
<1>10. Titled(items) /\ DistinctIDs(items)
  BY <1>2, <1>7, <1>8, ZenonT(60) DEF Normal, NormalItem, Titled, DistinctIDs
<1>11. [j \in DOMAIN items |-> NormalizeItem(items[j])] = items
  <2>1. \A j \in DOMAIN items : NormalizeItem(items[j]) = items[j] BY <1>8, NormalizedItem
  <2> QED BY <1>7, <2>1
<1>12. [j \in DOMAIN parsed.edges |-> NormalizeBacklogEdge(parsed.edges[j])] = parsed.edges
  <2>1. \A j \in DOMAIN parsed.edges : NormalizeBacklogEdge(parsed.edges[j]) = parsed.edges[j]
    BY <1>2, <1>5, NormalizedEdge DEF Normal
  <2> QED BY <1>5, <2>1
<1>13. NormalizeBacklog(items, parsed.edges, parsed.goal)
         = [ok |-> TRUE, items |-> items, edges |-> parsed.edges, goal |-> parsed.goal]
  BY <1>9, <1>10, <1>11, <1>12 DEF NormalizeBacklog
<1>14. ParseBacklog(file') = NormalizeBacklog(items, parsed.edges, parsed.goal)
  BY <1>3 DEF ParseBacklog, items, one
<1>15. parsed.items # <<>> /\ parsed.ok
  <2>1. parsed.items # <<>> BY <1>3, <1>5
  <2> QED BY <1>2, <2>1 DEF parsed
<1>16. parsed.ok = TRUE
  BY <1>1, <1>15 DEF ParsedKind
<1>17. [parsed EXCEPT !.items[i].status = "read"]
         = [ok |-> TRUE, items |-> items, edges |-> parsed.edges, goal |-> parsed.goal]
  <2>1. [parsed EXCEPT !.items[i].status = "read"] = [parsed EXCEPT !.items = items]
    BY DEF items, one
  <2>2. [parsed EXCEPT !.items = items]
          = [ok |-> parsed.ok, items |-> items, edges |-> parsed.edges, goal |-> parsed.goal]
    BY <1>1 DEF ParsedKind, parsed
  <2> QED BY <1>16, <2>1, <2>2
<1> QED BY <1>3, <1>13, <1>14, <1>15, <1>17 DEF parsed

-----------------------------------------------------------------------------
(* Routing.  What a mapped graph says of permissions and decisions is what *)
(* its handoff says of them.                                               *)

Granted(s) == HasPermissionNode(s) \/ HasDecisionBasis(s)
Permission(nodes) == \E i \in DOMAIN nodes : nodes[i].chunk = "permission-record"
Decided(edges) == \E i \in DOMAIN edges : edges[i].type \in Basis

LEMMA GrantedIs ==
    ASSUME NEW s
    PROVE  Granted(s) <=> Permission(s.nodes) \/ Decided(s.edges)
<1>1. \A t : NormalizeEdge(t) = "decision-basis" <=> t \in Basis
  BY DEF NormalizeEdge, Basis
<1>2. HasDecisionBasis(s) <=> Decided(s.edges) BY <1>1 DEF HasDecisionBasis, Decided
<1>3. HasPermissionNode(s) <=> Permission(s.nodes) BY DEF HasPermissionNode, ChunksOf, Permission
<1> QED BY <1>2, <1>3 DEF Granted

LEMMA BasisStays == \A t : NormalizeEdge(t) \in Basis <=> t \in Basis
BY DEF NormalizeEdge, Basis

LEMMA DecidedIs ==
    ASSUME NEW edges
    PROVE  TypesOf(edges) \cap Basis # {} <=> Decided(edges)
BY DEF TypesOf, Decided

\* A sequence behind another one holds what each of the two holds.
LEMMA Behind ==
    ASSUME NEW T, NEW a \in Seq(T), NEW b \in Seq(T)
    PROVE  ToSet(a \o b) = ToSet(a) \cup ToSet(b)
<1> DEFINE m == Len(a)
           n == Len(b)
           ab == a \o b
<1>1. /\ m \in Nat /\ n \in Nat /\ DOMAIN a = 1..m /\ DOMAIN b = 1..n /\ DOMAIN ab = 1..(m + n)
      /\ \A i \in 1..(m + n) : ab[i] = IF i <= m THEN a[i] ELSE b[i - m]
  OBVIOUS
<1> HIDE DEF m, n, ab
<1>2. ASSUME NEW i \in DOMAIN ab
      PROVE  ab[i] \in {a[j] : j \in DOMAIN a} \cup {b[j] : j \in DOMAIN b}
  <2>1. CASE i <= m
    <3>1. i \in DOMAIN a /\ ab[i] = a[i] BY <1>1, <2>1
    <3> QED BY <3>1
  <2>2. CASE ~(i <= m)
    <3>1. i - m \in DOMAIN b /\ ab[i] = b[i - m] BY <1>1, <2>2
    <3> QED BY <3>1
  <2> QED BY <2>1, <2>2
<1>3. ASSUME NEW i \in DOMAIN a PROVE a[i] \in {ab[j] : j \in DOMAIN ab}
  <2>1. i \in DOMAIN ab /\ ab[i] = a[i] BY <1>1
  <2> QED BY <2>1
<1>4. ASSUME NEW i \in DOMAIN b PROVE b[i] \in {ab[j] : j \in DOMAIN ab}
  <2>1. m + i \in DOMAIN ab /\ ~(m + i <= m) /\ (m + i) - m = i BY <1>1
  <2>2. ab[m + i] = b[i] BY <1>1, <2>1
  <2> QED BY <2>1, <2>2
<1>5. ToSet(ab) = ToSet(a) \cup ToSet(b) BY <1>2, <1>3, <1>4 DEF ToSet
<1> QED BY <1>5 DEF ab

LEMMA PermissionIs == \A s : Permission(s) <=> \E d \in ToSet(s) : d.chunk = "permission-record"
BY DEF Permission, ToSet

LEMMA GrantedByHandoff ==
    ASSUME file \in FileKind, NEW h \in HandoffKind \ {NoHandoff}
    PROVE  Granted(Mapped(h)) <=> GrantsAction(h)
<1>1. CASE h \in ExportType
  <2>1. h.origin = "graphrag" BY <1>1 DEF ExportType
  <2>2. Mapped(h) = MapExport(h) /\ ~GrantsAction(h) BY <2>1 DEF Mapped, GrantsAction
  <2> DEFINE s == MapExport(h)
  <2>3. s.nodes \in Seq(PlainNode) /\ s.edges \in Seq(PlainEdge) BY <1>1, ExportKind
  <2>4. ~HasPermissionNode(s)
    BY <2>3, SeqElements DEF HasPermissionNode, ChunksOf, PlainNode
  <2>5. ~HasDecisionBasis(s)
    BY <2>3, SeqElements DEF HasDecisionBasis, PlainEdge
  <2> QED BY <2>2, <2>4, <2>5 DEF Granted
<1>2. CASE h \in ResultsType
  <2>1. h.origin = "lightrag" BY <1>2 DEF ResultsType
  <2>2. /\ Mapped(h) = MapResults(h)
        /\ GrantsAction(h) <=> \/ \E d \in ToSet(h.local \o h.global) : d.chunk = "permission-record"
                               \/ TypesOf(h.relations) \cap Basis # {}
    BY <2>1 DEF Mapped, GrantsAction
  <2>3. h.local \in Seq(ResultType) /\ h.global \in Seq(ResultType) /\ h.relations \in Seq(EdgeType)
    BY <1>2 DEF ResultsType
  <2> DEFINE near == Each(LocalNode, h.local)
             far  == Each(GlobalNode, h.global)
             both == h.local \o h.global
             m == Len(h.local)
             n == Len(h.global)
  <2>4. /\ m \in Nat /\ n \in Nat /\ DOMAIN h.local = 1..m /\ DOMAIN h.global = 1..n
        /\ \A i \in 1..m : h.local[i] \in ResultType
        /\ \A i \in 1..n : h.global[i] \in ResultType
    BY <2>3
  <2>5. /\ near = [i \in 1..m |-> LocalNode(h.local[i])]
        /\ far = [i \in 1..n |-> GlobalNode(h.global[i])]
    BY <2>4 DEF Each
  <2>6. /\ \A i \in 1..m : near[i].chunk = "permission-record" <=> h.local[i].chunk = "permission-record"
        /\ \A i \in 1..n : far[i].chunk = "permission-record" <=> h.global[i].chunk = "permission-record"
    BY <2>4, <2>5, ResultNodeKind
  <2> HIDE DEF near, far
  <2>7. near \in Seq(NodeKind) /\ far \in Seq(NodeKind)
    <3>1. \A i \in 1..m : near[i] \in NodeKind BY <2>4, <2>5, ResultNodeKind
    <3>2. \A i \in 1..n : far[i] \in NodeKind BY <2>4, <2>5, ResultNodeKind
    <3>3. near = [i \in 1..m |-> near[i]] /\ far = [i \in 1..n |-> far[i]] BY <2>5
    <3> QED BY <2>4, <3>1, <3>2, <3>3, MadeSeq
  <2>8. Len(near) = m /\ Len(far) = n BY <2>4, <2>5, <2>7
  <2>9. Permission(near \o far) <=>
           \/ \E i \in 1..m : h.local[i].chunk = "permission-record"
           \/ \E i \in 1..n : h.global[i].chunk = "permission-record"
    <3>1. DOMAIN near = 1..m /\ DOMAIN far = 1..n BY <2>5
    <3>2. Permission(near \o far) <=> Permission(near) \/ Permission(far)
      <4>1. ToSet(near \o far) = ToSet(near) \cup ToSet(far) BY <2>7, Behind
      <4> QED BY <4>1, PermissionIs
    <3> QED BY <2>6, <3>1, <3>2 DEF Permission
  <2>10. (\E d \in ToSet(both) : d.chunk = "permission-record") <=>
           \/ \E i \in 1..m : h.local[i].chunk = "permission-record"
           \/ \E i \in 1..n : h.global[i].chunk = "permission-record"
    <3>3. (\E d \in ToSet(both) : d.chunk = "permission-record") <=> Permission(both)
      BY PermissionIs
    <3>4. Permission(both) <=> Permission(h.local) \/ Permission(h.global)
      <4>1. ToSet(both) = ToSet(h.local) \cup ToSet(h.global) BY <2>3, Behind
      <4> QED BY <4>1, PermissionIs
    <3> QED BY <2>4, <3>3, <3>4 DEF Permission
  <2>11. Decided(Each(NormalizeEdgeValue, h.relations)) <=> Decided(h.relations)
    <3>1. \A i \in DOMAIN h.relations : NormalizeEdgeValue(h.relations[i]).type = NormalizeEdge(h.relations[i].type)
      BY <2>3, SeqElements DEF NormalizeEdgeValue, EdgeType
    <3>2. /\ DOMAIN Each(NormalizeEdgeValue, h.relations) = DOMAIN h.relations
          /\ \A i \in DOMAIN h.relations :
               Each(NormalizeEdgeValue, h.relations)[i] = NormalizeEdgeValue(h.relations[i])
      BY DEF Each
    <3> DEFINE es == Each(NormalizeEdgeValue, h.relations)
    <3>3. \A i \in DOMAIN h.relations : es[i].type = NormalizeEdge(h.relations[i].type)
      BY <3>1, <3>2
    <3>4. DOMAIN es = DOMAIN h.relations BY <3>2
    <3> HIDE DEF es
    <3>5. Decided(es) <=> Decided(h.relations) BY <3>3, <3>4, BasisStays DEF Decided
    <3> QED BY <3>5 DEF es
  <2>12. MapResults(h).nodes = near \o far /\ MapResults(h).edges = Each(NormalizeEdgeValue, h.relations)
    BY DEF MapResults, near, far
  <2> QED BY <2>2, <2>9, <2>10, <2>11, <2>12, GrantedIs, DecidedIs
<1>3. CASE h \in HybridType
  <2>1. h.origin = "hybrid" BY <1>3 DEF HybridType
  <2>2. /\ Mapped(h) = MapHandoff(h)
        /\ GrantsAction(h) <=> \/ \E n \in ToSet(h.nodes) : n.chunk = "permission-record"
                               \/ TypesOf(h.edges) \cap Basis # {}
    BY <2>1 DEF Mapped, GrantsAction
  <2>3. MapHandoff(h).nodes = h.nodes /\ MapHandoff(h).edges = h.edges BY DEF MapHandoff
  <2>5. (\E n \in ToSet(h.nodes) : n.chunk = "permission-record") <=> Permission(h.nodes)
    BY PermissionIs
  <2> QED BY <2>2, <2>3, <2>5, GrantedIs, DecidedIs
<1>4. CASE h = FromBacklog
  <2>1. h.origin = "backlog" BY <1>4 DEF FromBacklog
  <2> DEFINE b == ParseBacklog(file)
             s == CandidateSetFromBacklog(b)
  <2>2. Mapped(h) = s /\ (GrantsAction(h) <=> TypesOf(b.edges) \cap Basis # {})
    BY <2>1 DEF Mapped, GrantsAction
  <2>3. b \in ParsedKind BY ParseKind
  <2>4. s.edges = b.edges BY DEF CandidateSetFromBacklog
  <2> HIDE DEF b
  <2>5. \A i \in DOMAIN s.nodes : s.nodes[i].chunk = "document" BY <2>3, BacklogSetKind
  <2>6. ~Permission(s.nodes) BY <2>5 DEF Permission
  <2> QED BY <2>2, <2>4, <2>6, GrantedIs, DecidedIs
<1> QED BY <1>1, <1>2, <1>3, <1>4 DEF HandoffKind

\* The handoff grants what the graph grants as long as there is one, and what the router
\* found out is of the graph as it stands.
Routed(r) == r.type = "Agentic" <=> "action" \in set.query.cues /\ Granted(set)
RouteInv ==
    /\ handoff # NoHandoff => (Granted(set) <=> GrantsAction(handoff))
    /\ call = RagCall => handoff # NoHandoff
    /\ rec # NoRec => pc \in {"routed", "reported"} /\ Routed(rec)

LEMMA RouteIs == Routed(Route(set))
<1>1. \A type, mode, budget : Recommendation(type, mode, budget).type = type
  BY DEF Recommendation
<1>2. Granted(set) <=> HasPermissionNode(set) \/ HasDecisionBasis(set) BY DEF Granted
<1>3. CASE Granted(set) /\ "action" \in set.query.cues
  <2>1. Route(set) = Recommendation("Agentic", "DRIFTChain", 6000) BY <1>2, <1>3, SMTT(60) DEF Route
  <2> QED BY <1>1, <1>3, <2>1 DEF Routed
<1>4. CASE ~(Granted(set) /\ "action" \in set.query.cues)
  <2>1. \E type \in {"Temporal", "Procedural", "Comparative", "Adversarial", "Factual", "Exploratory"} :
          \E mode, budget : Route(set) = Recommendation(type, mode, budget)
    BY <1>2, <1>4 DEF Route
  <2>2. Route(set).type # "Agentic" BY <1>1, <2>1
  <2> QED BY <1>4, <2>2 DEF Routed
<1> QED BY <1>3, <1>4

\* A suggested edge is no decision basis.
LEMMA AddedGrants ==
    ASSUME set \in SetKind, NEW e \in SuggestMissingEdges(set), set' = [set EXCEPT !.edges = Append(@, e)]
    PROVE  Granted(set') <=> Granted(set)
<1>1. set.edges \in Seq(EdgeKind) /\ e \in EdgeKind /\ e.type \in SuggestedTypes
  BY SuggestionKind DEF SetKind
<1>2. e.type \notin Basis BY <1>1 DEF SuggestedTypes, Basis
<1>3. set'.nodes = set.nodes /\ set'.edges = Append(set.edges, e) BY DEF SetKind
<1>4. /\ DOMAIN Append(set.edges, e) = DOMAIN set.edges \cup {Len(set.edges) + 1}
      /\ Append(set.edges, e)[Len(set.edges) + 1] = e
      /\ \A i \in DOMAIN set.edges : Append(set.edges, e)[i] = set.edges[i]
  BY <1>1
<1>5. Decided(Append(set.edges, e)) <=> Decided(set.edges) BY <1>2, <1>4 DEF Decided
<1> QED BY <1>3, <1>5, GrantedIs

LEMMA ReadGrants ==
    ASSUME file \in FileKind, ReadItem
    PROVE  \A h : GrantsAction(h)' <=> GrantsAction(h)
<1>1. ParseBacklog(file) \in ParsedKind BY ParseKind
<1>2. PICK i \in DOMAIN ParseBacklog(file).items :
         ParseBacklog(file') = [ParseBacklog(file) EXCEPT !.items[i].status = "read"]
  BY ReadParsed
<1>3. ParseBacklog(file').edges = ParseBacklog(file).edges BY <1>1, <1>2 DEF ParsedKind
<1> QED BY <1>3 DEF GrantsAction

LEMMA RouteInvNext == ClusterInv /\ RouteInv /\ [RagNext]_vars => RouteInv'
<1> SUFFICES ASSUME ClusterInv, RouteInv, [RagNext]_vars PROVE RouteInv'
  OBVIOUS
<1> DEFINE Grants == handoff # NoHandoff => (Granted(set) <=> GrantsAction(handoff))
           Known == rec # NoRec => pc \in {"routed", "reported"} /\ Routed(rec)
<1>0. file \in FileKind /\ set \in SetKind /\ handoff \in HandoffKind BY DEF ClusterInv, Shape
<1>1. ASSUME Unhanded, ReadItem \/ file' = file PROVE Grants'
  <2>1. \A h : GrantsAction(h)' <=> GrantsAction(h) BY <1>0, <1>1, ReadGrants DEF GrantsAction
  <2>2. GrantsAction(handoff)' <=> GrantsAction(handoff) BY <1>1, <2>1 DEF Unhanded
  <2>3. Granted(set)' <=> Granted(set)
    BY <1>1 DEF Unhanded, Granted, HasPermissionNode, HasDecisionBasis, ChunksOf
  <2> QED BY <1>1, <2>2, <2>3 DEF RouteInv, Unhanded
<1>3. ASSUME pc \notin {"routed", "reported"}, rec' = rec PROVE Known'
  BY <1>3 DEF RouteInv
<1>4. CASE CitewiseNext
  <2>1. Unhanded /\ rec' = rec BY <1>4 DEF CitewiseNext, ragVars, Unhanded
  <2>2. pc \notin {"routed", "reported"} /\ (call' = RagCall => call = RagCall)
    BY <1>4, KnownCall DEF ClusterInv, OfTheGraph, CitewiseNext, Next, Run, RunRefused, EngineStep,
       JoinPair, Analyze, Write, QueueStep, StartQueue, Take, Skip, First, EndQueue, ReadItem, Exit
  <2>3. ReadItem \/ file' = file BY <1>4, GraphSteps DEF RagNext
  <2> QED BY <1>1, <1>3, <2>1, <2>2, <2>3 DEF RouteInv, Unhanded
<1>5. CASE \E h \in Handoffs : Receive(h)
  <2>1. PICK h \in Handoffs : Receive(h) BY <1>5
  <2>2. /\ pc = "idle" /\ UNCHANGED <<pc, file, call, rec>>
        /\ handoff' = h /\ set' = Mapped(h)
    BY <2>1 DEF Receive, citewiseVars, responseVars
  <2>3. h \in HandoffKind \ {NoHandoff}
    <3>1. h \in ExportType \cup ResultsType \cup HybridType \cup {FromBacklog} BY HandoffsAssumption
    <3>2. h.origin # "none" BY <3>1 DEF ExportType, ResultsType, HybridType, FromBacklog
    <3> QED BY <3>1, <3>2 DEF HandoffKind, NoHandoff
  <2>4. Granted(Mapped(h)) <=> GrantsAction(h) BY <1>0, <2>3, GrantedByHandoff
  <2>5. Granted(set)' <=> Granted(Mapped(h))
    BY <2>2 DEF Granted, HasPermissionNode, HasDecisionBasis, ChunksOf
  <2>6. GrantsAction(handoff)' <=> GrantsAction(h) BY <2>2 DEF GrantsAction
  <2>7. call' # RagCall BY <2>2, KnownCall DEF ClusterInv, OfTheGraph
  <2> QED BY <1>3, <2>2, <2>4, <2>5, <2>6, <2>7 DEF RouteInv
<1>6. CASE \E ctx \in Callers : RedactHandoff(ctx)
  <2>1. PICK ctx \in Callers : RedactHandoff(ctx) BY <1>6
  <2> DEFINE h == RedactForReranker(ctx, handoff)
  <2>2. /\ pc = "idle" /\ UNCHANGED <<pc, file, call, rec>> /\ handoff.origin = "hybrid"
        /\ handoff' = h /\ set' = MapHandoff(h)
    BY <2>1 DEF RedactHandoff, citewiseVars, responseVars
  <2>3. handoff \in HybridType
    BY <1>0, <2>2 DEF HandoffKind, ExportType, ResultsType, FromBacklog, NoHandoff
  <2>4. h \in HybridType BY <2>3, RedactKind
  <2> HIDE DEF h
  <2>5. h.origin = "hybrid" BY <2>4 DEF HybridType
  <2>6. Mapped(h) = MapHandoff(h) /\ h \in HandoffKind \ {NoHandoff}
    BY <2>4, <2>5 DEF Mapped, HandoffKind, NoHandoff
  <2>7. Granted(MapHandoff(h)) <=> GrantsAction(h) BY <1>0, <2>6, GrantedByHandoff
  <2>8. Granted(set)' <=> Granted(MapHandoff(h))
    BY <2>2 DEF Granted, HasPermissionNode, HasDecisionBasis, ChunksOf
  <2>9. GrantsAction(handoff)' <=> GrantsAction(h) BY <2>2 DEF GrantsAction
  <2>10. call' # RagCall BY <2>2, KnownCall DEF ClusterInv, OfTheGraph
  <2> QED BY <1>3, <2>2, <2>7, <2>8, <2>9, <2>10 DEF RouteInv
<1>7. CASE BuildAnalysis
  <2>1. Unhanded /\ rec' = rec /\ file' = file /\ pc = "idle" /\ handoff # NoHandoff /\ handoff' = handoff
    BY <1>7 DEF BuildAnalysis, ragVars, Unhanded
  <2> QED BY <1>1, <1>3, <2>1 DEF RouteInv
<1>8. CASE RouteQuery
  <2>1. /\ Unhanded /\ file' = file /\ rec' = Route(set) /\ pc' = "routed"
        /\ UNCHANGED <<call, handoff, set>>
    BY <1>8 DEF RouteQuery, Unhanded
  <2>2. Routed(rec)' <=> Routed(Route(set))
    BY <2>1 DEF Routed, Granted, HasPermissionNode, HasDecisionBasis, ChunksOf
  <2> QED BY <1>1, <2>1, <2>2, RouteIs DEF RouteInv
<1>9. CASE \E degraded \in BOOLEAN : AnalyzeHygiene(degraded)
  <2>1. /\ Unhanded /\ file' = file /\ pc = "routed" /\ pc' = "reported"
        /\ UNCHANGED <<call, rec, handoff, set>>
    BY <1>9 DEF AnalyzeHygiene, Unhanded
  <2>2. Routed(rec)' <=> Routed(rec)
    BY <2>1 DEF Routed, Granted, HasPermissionNode, HasDecisionBasis, ChunksOf
  <2> QED BY <1>1, <2>1, <2>2 DEF RouteInv
<1>10. CASE Discard
  <2>1. Unhanded /\ file' = file /\ rec' = NoRec /\ call' = NoCall
    BY <1>10 DEF Discard, Respond, Exit, Unhanded
  <2> QED BY <1>1, <2>1, KnownCall DEF RouteInv
<1>11. CASE pc = "reported" /\ \E e \in report.suggestions : AddSuggestion(e)
  <2>1. PICK e \in report.suggestions : AddSuggestion(e) BY <1>11
  <2>2. /\ file' = file /\ handoff' = handoff /\ rec' = NoRec /\ call' = NoCall
        /\ set' = [set EXCEPT !.edges = Append(@, e)] /\ e \in SuggestMissingEdges(set)
    BY <1>11, <2>1 DEF AddSuggestion, Respond, Exit, ClusterInv, OfTheGraph
  <2>3. Granted(set') <=> Granted(set) BY <1>0, <2>2, AddedGrants
  <2>4. Granted(set)' <=> Granted(set')
    BY DEF Granted, HasPermissionNode, HasDecisionBasis, ChunksOf
  <2>5. GrantsAction(handoff)' <=> GrantsAction(handoff) BY <2>2 DEF GrantsAction
  <2> QED BY <2>2, <2>3, <2>4, <2>5, KnownCall DEF RouteInv
<1>12. CASE UNCHANGED vars
  <2>1. UNCHANGED <<pc, call, file, rec, handoff, set, added>>
    BY <1>12 DEF vars, citewiseVars, ragVars
  <2>2. Grants' BY <1>1, <2>1 DEF Unhanded
  <2>3. Routed(rec)' <=> Routed(rec)
    BY <2>1 DEF Routed, Granted, HasPermissionNode, HasDecisionBasis, ChunksOf
  <2> QED BY <2>1, <2>2, <2>3 DEF RouteInv
<1> QED BY <1>4, <1>5, <1>6, <1>7, <1>8, <1>9, <1>10, <1>11, <1>12 DEF RagNext

\* A query is taken as a request to act if and only if it names an action and the
\* handoff holds a permission record or a decision basis (pkg/router/router.go, Route,
\* behind the mappers of pkg/integrations), whatever was redacted, read or suggested since.
THEOREM ActionIsGranted == RagSpec => []RoutedByHandoff
<1>1. RagInit => RouteInv
  BY KnownCall DEF RagInit, Init, RouteInv
<1>2. ClusterInv /\ RouteInv => RoutedByHandoff
  <2> SUFFICES ASSUME ClusterInv, RouteInv, rec # NoRec
               PROVE  rec.type = "Agentic" <=> "action" \in set.query.cues /\ GrantsAction(handoff)
    BY DEF RoutedByHandoff
  <2>1. call = RagCall BY DEF ClusterInv, OfTheGraph, RouteInv
  <2> QED BY <2>1 DEF RouteInv, Routed
<1> QED BY <1>1, <1>2, ClusterInvAlways, RouteInvNext, PTL DEF RagSpec

-----------------------------------------------------------------------------
(* The hygiene of the base analysis and that of the graph.                 *)

SameEdge(x, e) == x.source = e.source /\ x.target = e.target /\ x.type = NormalizeEdge(e.type)

\* The edges of the analysis are the graph's, under their normal types, and have known ends.
LEMMA EdgesAgree ==
    ASSUME NEW s \in SetKind, Buildable(s), NEW b, b = BacklogOf(s)
    PROVE  /\ IDs(b) = NodeIDs(s.nodes) /\ b.edges \in Seq(EdgeKind)
           /\ \A k \in DOMAIN b.edges : \E i \in DOMAIN s.edges : SameEdge(b.edges[k], s.edges[i])
           /\ \A i \in DOMAIN s.edges : \E k \in DOMAIN b.edges : SameEdge(b.edges[k], s.edges[i])
           /\ \A k \in DOMAIN b.edges : b.edges[k].source \in IDs(b) /\ b.edges[k].target \in IDs(b)
<1>1. IDs(b) = NodeIDs(s.nodes) /\ b.edges = GraphEdges(s)
  BY BuiltKind DEF BacklogOf
<1>2. \A i \in DOMAIN s.edges : s.edges[i] \in EdgeKind BY SeqElements DEF SetKind
<1>3. \A i \in DOMAIN s.edges : SameEdge(NormalizeEdgeValue(s.edges[i]), s.edges[i])
  BY <1>2 DEF SameEdge, NormalizeEdgeValue, EdgeKind
<1>4. /\ b.edges \in Seq(EdgeKind)
      /\ \A k \in DOMAIN b.edges : \E i \in DOMAIN s.edges : b.edges[k] = NormalizeEdgeValue(s.edges[i])
      /\ \A i \in DOMAIN s.edges : \E k \in DOMAIN b.edges : b.edges[k] = NormalizeEdgeValue(s.edges[i])
  BY <1>1, GraphEdgesKind
<1>5. /\ \A k \in DOMAIN b.edges : \E i \in DOMAIN s.edges : SameEdge(b.edges[k], s.edges[i])
      /\ \A i \in DOMAIN s.edges : \E k \in DOMAIN b.edges : SameEdge(b.edges[k], s.edges[i])
  BY <1>3, <1>4
<1>6. \A i \in DOMAIN s.edges : s.edges[i].source \in IDs(b) /\ s.edges[i].target \in IDs(b)
  BY <1>1 DEF Buildable
<1> QED BY <1>1, <1>4, <1>5, <1>6 DEF SameEdge

LEMMA HygieneOfTheGraph ==
    ASSUME NEW s \in SetKind, Buildable(s), NEW b, b = BacklogOf(s), NEW r
    PROVE  Orphans(b) = GraphOrphans(s) /\ MissingBridges(b, r) = GraphBridges(s, r)
<1> DEFINE Near(id) == {k \in DOMAIN b.edges : id \in {b.edges[k].source, b.edges[k].target}}
<1>1. /\ IDs(b) = NodeIDs(s.nodes) /\ b.edges \in Seq(EdgeKind)
      /\ \A k \in DOMAIN b.edges : \E i \in DOMAIN s.edges : SameEdge(b.edges[k], s.edges[i])
      /\ \A i \in DOMAIN s.edges : \E k \in DOMAIN b.edges : SameEdge(b.edges[k], s.edges[i])
      /\ \A k \in DOMAIN b.edges : b.edges[k].source \in IDs(b) /\ b.edges[k].target \in IDs(b)
  BY EdgesAgree
<1>2. \A id : In(b, id) \cup Out(b, id) = Near(id)
  BY <1>1 DEF In, Out
<1>3. \A id : Degree(b, id) = 0 <=> Near(id) = {}
  <2> SUFFICES ASSUME NEW id PROVE Degree(b, id) = 0 <=> Near(id) = {}
    OBVIOUS
  <2>1. IsFiniteSet(DOMAIN b.edges) BY <1>1, SeqElements
  <2>2. In(b, id) \subseteq DOMAIN b.edges /\ Out(b, id) \subseteq DOMAIN b.edges BY DEF In, Out
  <2>3. /\ IsFiniteSet(In(b, id)) /\ IsFiniteSet(Out(b, id))
    BY <2>1, <2>2, FS_Subset
  <2>4. /\ Cardinality(In(b, id)) \in Nat /\ Cardinality(Out(b, id)) \in Nat
        /\ Cardinality(In(b, id)) = 0 <=> In(b, id) = {}
        /\ Cardinality(Out(b, id)) = 0 <=> Out(b, id) = {}
    BY <2>3, FS_CardinalityType, FS_EmptySet
  <2>5. Degree(b, id) = 0 <=> Cardinality(In(b, id)) = 0 /\ Cardinality(Out(b, id)) = 0
    BY <2>4 DEF Degree
  <2>6. Near(id) = {} <=> In(b, id) = {} /\ Out(b, id) = {} BY <1>2
  <2> QED BY <2>4, <2>5, <2>6
<1>4. \A id : Touching(s, id) = {i \in DOMAIN s.edges : id \in {s.edges[i].source, s.edges[i].target}}
  BY DEF Touching
<1>9. ASSUME NEW id
      PROVE  /\ \A k \in Near(id) : \E i \in Touching(s, id) : SameEdge(b.edges[k], s.edges[i])
             /\ \A i \in Touching(s, id) : \E k \in Near(id) : SameEdge(b.edges[k], s.edges[i])
  <2>1. \A k \in Near(id) : \E i \in Touching(s, id) : SameEdge(b.edges[k], s.edges[i])
    BY <1>1, <1>4 DEF SameEdge
  <2>2. \A i \in Touching(s, id) : \E k \in Near(id) : SameEdge(b.edges[k], s.edges[i])
    BY <1>1, <1>4, SMTT(60) DEF SameEdge
  <2> QED BY <2>1, <2>2
<1> HIDE DEF Near
<1>5. \A id : Near(id) = {} <=> Touching(s, id) = {}
  BY <1>9
<1>6. Orphans(b) = GraphOrphans(s)
  BY <1>1, <1>3, <1>5 DEF Orphans, GraphOrphans
<1>7. ASSUME NEW id
      PROVE  /\ (\E k \in Near(id) : b.edges[k].type = "prerequisite") <=>
                  \E i \in Touching(s, id) : NormalizeEdge(s.edges[i].type) = "prerequisite"
             /\ (\A n \in Neighbours(b, id) : r[n] \notin {"overview", "bridge"}) <=>
                  \A i \in Touching(s, id) : r[Other(s.edges[i], id)] \notin {"overview", "bridge"}
  <2>1. \A x, e : SameEdge(x, e) => Other(x, id) = Other(e, id)
    BY DEF SameEdge, Other
  <2>2. Neighbours(b, id) = {Other(b.edges[k], id) : k \in Near(id)}
    BY <1>2 DEF Neighbours
  <2>3. \A k \in Near(id) : \E i \in Touching(s, id) : SameEdge(b.edges[k], s.edges[i])
    BY <1>9
  <2>4. \A i \in Touching(s, id) : \E k \in Near(id) : SameEdge(b.edges[k], s.edges[i])
    BY <1>9
  <2>5. (\E k \in Near(id) : b.edges[k].type = "prerequisite") <=>
          \E i \in Touching(s, id) : NormalizeEdge(s.edges[i].type) = "prerequisite"
    BY <2>3, <2>4 DEF SameEdge
  <2>6. (\A k \in Near(id) : r[Other(b.edges[k], id)] \notin {"overview", "bridge"}) <=>
          \A i \in Touching(s, id) : r[Other(s.edges[i], id)] \notin {"overview", "bridge"}
    BY <2>1, <2>3, <2>4
  <2>7. (\A n \in Neighbours(b, id) : r[n] \notin {"overview", "bridge"}) <=>
          \A k \in Near(id) : r[Other(b.edges[k], id)] \notin {"overview", "bridge"}
    BY <2>2
  <2> QED BY <2>5, <2>6, <2>7
<1>8. MissingBridges(b, r) = GraphBridges(s, r)
  BY <1>1, <1>2, <1>7 DEF MissingBridges, GraphBridges
<1> QED BY <1>6, <1>8

-----------------------------------------------------------------------------
(* Two backlogs whose links say the same have the same clusters: what the  *)
(* union-find brings under one root, every equivalence that respects the   *)
(* links holds together.                                                   *)

Equiv(E, S) ==
    /\ E \subseteq S \X S
    /\ \A x \in S : <<x, x>> \in E
    /\ \A x, y \in S : <<x, y>> \in E => <<y, x>> \in E
    /\ \A x, y, z \in S : <<x, y>> \in E /\ <<y, z>> \in E => <<x, z>> \in E

Sound(par, S, L) ==
    \A E : Equiv(E, S) /\ L \subseteq E =>
        \A x, y \in S : Root(par, x) = Root(par, y) => <<x, y>> \in E
Complete(par, L) == \A l \in L : Root(par, l[1]) = Root(par, l[2])
Tree(par, S) == DOMAIN par = S /\ Parents(par) /\ Forest(par)

LEMMA AloneSound ==
    ASSUME NEW S, NEW L
    PROVE  Tree([x \in S |-> x], S) /\ Sound([x \in S |-> x], S, L)
<1> DEFINE par == [x \in S |-> x]
<1>1. Parents(par) /\ Forest(par) BY GroupsAlone
<1>2. DOMAIN par = S /\ \A x \in S : par[x] = x OBVIOUS
<1> HIDE DEF par
<1>3. \A x \in S : Root(par, x) = x
  <2> SUFFICES ASSUME NEW x \in S PROVE Root(par, x) = x
    OBVIOUS
  <2>1. Way(par)[x] = Reach(par, x) BY <1>1, <1>2, WayIsReach
  <2>2. Reach(par, x) = {x} BY <1>1, <1>2, ReachStep
  <2> QED BY <1>1, <1>2, <2>1, <2>2, RootOnWay
<1>4. Sound(par, S, L) BY <1>3 DEF Sound, Equiv
<1> QED BY <1>1, <1>2, <1>4 DEF Tree, par

LEMMA JoinSound ==
    ASSUME NEW par, NEW S, NEW L, Tree(par, S), NEW l, l \in L, l[1] \in S, l[2] \in S, l = <<l[1], l[2]>>
    PROVE  /\ Tree(Join(par, l[1], l[2]), S)
           /\ Sound(par, S, L) => Sound(Join(par, l[1], l[2]), S, L)
           /\ Root(Join(par, l[1], l[2]), l[1]) = Root(Join(par, l[1], l[2]), l[2])
           /\ \A x, y \in S : Root(par, x) = Root(par, y) =>
                Root(Join(par, l[1], l[2]), x) = Root(Join(par, l[1], l[2]), y)
<1> DEFINE new == Join(par, l[1], l[2])
           a == Root(par, l[1])
           b == Root(par, l[2])
<1>1. /\ DOMAIN new = S /\ Parents(new) /\ Forest(new)
      /\ \A z \in S : Root(new, z) = IF Root(par, z) = b THEN a ELSE Root(par, z)
  BY JoinMoves DEF Tree
<1> HIDE DEF new
<1>2. ASSUME Sound(par, S, L) PROVE Sound(new, S, L)
  <2> SUFFICES ASSUME NEW E, Equiv(E, S), L \subseteq E,
                      NEW x \in S, NEW y \in S, Root(new, x) = Root(new, y)
               PROVE  <<x, y>> \in E
    BY DEF Sound
  <2>1. \A u, v \in S : Root(par, u) = Root(par, v) => <<u, v>> \in E BY <1>2 DEF Sound
  <2>2. <<l[1], l[2]>> \in E /\ <<l[2], l[1]>> \in E BY DEF Equiv
  <2>3. CASE Root(par, x) = Root(par, y)
    BY <2>1, <2>3
  <2>4. CASE Root(par, x) = b /\ Root(par, y) = a
    <3>1. <<x, l[2]>> \in E /\ <<l[1], y>> \in E BY <2>1, <2>4
    <3>2. <<x, l[1]>> \in E BY <2>2, <3>1 DEF Equiv
    <3> QED BY <3>1, <3>2 DEF Equiv
  <2>5. CASE Root(par, x) = a /\ Root(par, y) = b
    <3>1. <<x, l[1]>> \in E /\ <<l[2], y>> \in E BY <2>1, <2>5
    <3>2. <<x, l[2]>> \in E BY <2>2, <3>1 DEF Equiv
    <3> QED BY <3>1, <3>2 DEF Equiv
  <2> QED BY <1>1, <2>3, <2>4, <2>5
<1>3. Root(new, l[1]) = Root(new, l[2]) BY <1>1
<1>4. \A x, y \in S : Root(par, x) = Root(par, y) => Root(new, x) = Root(new, y) BY <1>1
<1> QED BY <1>1, <1>2, <1>3, <1>4 DEF Tree, new

\* What is sound and complete for the same equivalences has the same groups.
LEMMA SameGroups ==
    ASSUME NEW S, NEW par, Tree(par, S), NEW L \in SUBSET (S \X S), Sound(par, S, L), Complete(par, L),
           NEW q, Tree(q, S), NEW M \in SUBSET (S \X S), Sound(q, S, M), Complete(q, M),
           \A E : Equiv(E, S) => (L \subseteq E <=> M \subseteq E)
    PROVE  Groups(par) = Groups(q) /\ Clusters(par) = Clusters(q)
<1> DEFINE U == {r \in S \X S : Root(par, r[1]) = Root(par, r[2])}
           V == {r \in S \X S : Root(q, r[1]) = Root(q, r[2])}
<1>1. Equiv(U, S) /\ Equiv(V, S)
  <2>1. Equiv(U, S) BY DEF Equiv
  <2>2. Equiv(V, S) BY DEF Equiv
  <2> QED BY <2>1, <2>2
<1>2. L \subseteq U /\ M \subseteq V BY DEF Complete
<1>0. \A x, y \in S : /\ <<x, y>> \in U => Root(par, x) = Root(par, y)
                      /\ <<x, y>> \in V => Root(q, x) = Root(q, y)
  OBVIOUS
<1> HIDE DEF U, V
<1>3. L \subseteq V /\ M \subseteq U BY <1>1, <1>2
<1>4. \A x, y \in S : Root(par, x) = Root(par, y) => <<x, y>> \in V
  BY <1>1, <1>3 DEF Sound
<1>5. \A x, y \in S : Root(q, x) = Root(q, y) => <<x, y>> \in U
  BY <1>1, <1>3 DEF Sound
<1>6. \A x, y \in S : Root(par, x) = Root(par, y) <=> Root(q, x) = Root(q, y)
  BY <1>0, <1>4, <1>5
<1>7. \A x \in S : Group(par, x) = Group(q, x) BY <1>6 DEF Group, Tree
<1>8. Groups(par) = {Group(par, x) : x \in S} /\ Groups(q) = {Group(q, x) : x \in S}
  BY GroupsAre DEF Tree
<1>9. Groups(par) = Groups(q) BY <1>7, <1>8
<1> QED BY <1>9 DEF Clusters

\* The union-find in one piece.
LEMMA JoinedIs ==
    ASSUME NEW b \in BacklogKind
    PROVE  /\ Tree(Joined(b), IDs(b)) /\ Sound(Joined(b), IDs(b), Links(b))
           /\ Complete(Joined(b), Links(b))
<1> DEFINE S == IDs(b)
           links == DuplicatePairs(b)
           n == Len(links)
           L == Links(b)
           base == [id \in S |-> id]
           T == {par \in [S -> S] : Forest(par)}
           F == [k \in 1..n |-> [par \in T |-> Join(par, links[k][1], links[k][2])]]
           after == CHOOSE f : f = [k \in 0..n |-> IF k = 0 THEN base
                                                   ELSE Join(f[k - 1], links[k][1], links[k][2])]
<1>1. Joined(b) = after[n] BY DEF Joined
<1>2. links \in Seq(S \X S) /\ L = {links[k] : k \in DOMAIN links} BY PairsKind, LinksKind
<1> HIDE DEF links, n, L, S
<1>3. n \in Nat /\ DOMAIN links = 1..n /\ \A k \in 1..n : links[k] \in S \X S /\ links[k] \in L
  BY <1>2 DEF n
<1>4. \A par : par \in T <=> Tree(par, S) /\ par \in [S -> S]
  BY DEF Tree, Parents
<1>5. base \in T
  <2>1. Tree(base, S) BY AloneSound
  <2>2. base \in [S -> S] OBVIOUS
  <2> HIDE DEF base, T
  <2> QED BY <1>4, <2>1, <2>2
<1>6. ASSUME NEW k \in 1..n, NEW par \in T PROVE Join(par, links[k][1], links[k][2]) \in T
  <2> DEFINE l == links[k]
             new == Join(par, l[1], l[2])
  <2>1. l \in L /\ l[1] \in S /\ l[2] \in S /\ l = <<l[1], l[2]>> BY <1>3
  <2>2. Tree(par, S) BY <1>4
  <2> HIDE DEF l
  <2>3. Tree(new, S) BY <2>1, <2>2, JoinSound
  <2>4. DOMAIN new = S /\ Parents(new) BY <2>3 DEF Tree
  <2>5. new = [z \in DOMAIN new |-> new[z]]
    <3>1. DOMAIN par = S BY <1>4
    <3> QED BY DEF Join, Compress
  <2> HIDE DEF new, T
  <2>6. new \in [S -> S] BY <2>4, <2>5 DEF Parents
  <2> QED BY <1>4, <2>3, <2>6 DEF new, l
<1>7. F \in [1..n -> [T -> T]] BY <1>6
<1>8. \A k \in 1..n : \A par \in T : F[k][par] = Join(par, links[k][1], links[k][2]) OBVIOUS
<1> HIDE DEF F, T
<1>9. PICK g \in [0..n -> T] : Along(g, n, base, F) BY <1>3, <1>5, <1>7, AlongExists
<1>10. \A k \in 0..n : k # 0 => k \in 1..n /\ k - 1 \in 0..n BY <1>3
<1>11. \A k \in 0..n : g[k] = IF k = 0 THEN base ELSE Join(g[k - 1], links[k][1], links[k][2])
  BY <1>8, <1>9, <1>10 DEF Along
<1>12. g = [k \in 0..n |-> IF k = 0 THEN base ELSE Join(g[k - 1], links[k][1], links[k][2])]
  BY <1>9, <1>11
<1>13. after = [k \in 0..n |-> IF k = 0 THEN base ELSE Join(after[k - 1], links[k][1], links[k][2])]
  BY <1>12, Zenon
<1> HIDE DEF after, base
<1>14. \A k \in 0..n : after[k] = IF k = 0 THEN base ELSE Join(after[k - 1], links[k][1], links[k][2])
  BY <1>13
<1> DEFINE Good(par, k) ==
             Tree(par, S) /\ Sound(par, S, L) /\ \A j \in 1..k : Root(par, links[j][1]) = Root(par, links[j][2])
           Bad == {k \in Nat : k <= n /\ ~Good(after[k], k)}
<1>15. Bad = {}
  <2>1. SUFFICES ASSUME Bad # {} PROVE FALSE OBVIOUS
  <2>2. PICK k \in Bad : \A j \in Bad : k <= j BY <2>1, Least
  <2>3. CASE k = 0
    <3>1. after[0] = base BY <1>3, <1>14
    <3>2. Tree(base, S) /\ Sound(base, S, L) BY AloneSound DEF base
    <3> QED BY <2>2, <2>3, <3>1, <3>2
  <2>4. CASE k # 0
    <3>1. k - 1 \in Nat /\ k - 1 <= n /\ k - 1 \notin Bad /\ k \in 1..n /\ k \in 0..n BY <1>3, <2>2, <2>4
    <3> DEFINE par == after[k - 1]
               l == links[k]
    <3>2. Good(par, k - 1) BY <3>1
    <3>3. after[k] = Join(par, l[1], l[2]) BY <1>14, <2>4, <3>1
    <3>4. l \in L /\ l[1] \in S /\ l[2] \in S /\ l = <<l[1], l[2]>> BY <1>3, <3>1
    <3> HIDE DEF par, l
    <3>5. /\ Tree(after[k], S) /\ Sound(after[k], S, L)
          /\ Root(after[k], l[1]) = Root(after[k], l[2])
          /\ \A x, y \in S : Root(par, x) = Root(par, y) => Root(after[k], x) = Root(after[k], y)
      BY <3>2, <3>3, <3>4, JoinSound
    <3>6. \A j \in 1..k : Root(after[k], links[j][1]) = Root(after[k], links[j][2])
      <4> SUFFICES ASSUME NEW j \in 1..k PROVE Root(after[k], links[j][1]) = Root(after[k], links[j][2])
        OBVIOUS
      <4>1. CASE j = k
        BY <3>5, <4>1 DEF l
      <4>2. CASE j # k
        <5>1. j \in 1..(k - 1) /\ j \in 1..n BY <1>3, <3>1, <4>2
        <5>2. links[j][1] \in S /\ links[j][2] \in S BY <1>3, <5>1
        <5> QED BY <3>2, <3>5, <5>1, <5>2
      <4> QED BY <4>1, <4>2
    <3> QED BY <2>2, <3>5, <3>6
  <2> QED BY <2>3, <2>4
<1>16. Good(after[n], n) BY <1>3, <1>15
<1>17. Complete(after[n], L) BY <1>2, <1>3, <1>16 DEF Complete
<1> QED BY <1>1, <1>16, <1>17 DEF S, L

\* The links of a backlog: its duplicate edges between known items, and similar titles.
EdgeLink(b, x, y) ==
    /\ x \in IDs(b) /\ y \in IDs(b)
    /\ \E i \in DOMAIN b.edges : /\ NormEdgeType(b.edges[i].type) = "duplicate"
                                 /\ b.edges[i].source = x /\ b.edges[i].target = y
TitleLink(b, x, y) ==
    \E i, j \in DOMAIN b.items : /\ i < j /\ SimilarTitles(b.items[i].title, b.items[j].title)
                                 /\ b.items[i].id = x /\ b.items[j].id = y

LEMMA LinksAre ==
    ASSUME NEW b \in BacklogKind
    PROVE  \A x, y : <<x, y>> \in Links(b) <=> EdgeLink(b, x, y) \/ TitleLink(b, x, y)
<1>1. b.items \in Seq(ItemKind) /\ b.edges \in Seq(EdgeKind) BY DEF BacklogKind
<1> DEFINE S == {i \in DOMAIN b.edges :
                   /\ NormEdgeType(b.edges[i].type) = "duplicate"
                   /\ {b.edges[i].source, b.edges[i].target} \subseteq IDs(b)}
           edges == Cut(b.edges, S)
           linked == [i \in DOMAIN edges |-> <<edges[i].source, edges[i].target>>]
           D == DOMAIN b.items
           P == {p \in D \X D : p[1] < p[2] /\ SimilarTitles(b.items[p[1]].title, b.items[p[2]].title)}
           similar == InOrder(P, Lexicographic(P))
           alike == [i \in DOMAIN similar |-> <<b.items[similar[i][1]].id, b.items[similar[i][2]].id>>]
<1>2. DuplicatePairs(b) = linked \o alike
  BY DEF DuplicatePairs, DuplicateEdges, SimilarPlaces
<1>3. \A i \in S : EdgeLink(b, b.edges[i].source, b.edges[i].target) BY DEF EdgeLink
<1>4. \A x, y : EdgeLink(b, x, y) => \E i \in S : b.edges[i].source = x /\ b.edges[i].target = y
  BY DEF EdgeLink
<1>5. \A x, y : TitleLink(b, x, y) <=> \E p \in P : b.items[p[1]].id = x /\ b.items[p[2]].id = y
  <2> SUFFICES ASSUME NEW x, NEW y
               PROVE  TitleLink(b, x, y) <=> \E p \in P : b.items[p[1]].id = x /\ b.items[p[2]].id = y
    OBVIOUS
  <2>1. ASSUME NEW p \in P, b.items[p[1]].id = x, b.items[p[2]].id = y PROVE TitleLink(b, x, y)
    BY <2>1 DEF TitleLink
  <2>2. ASSUME TitleLink(b, x, y) PROVE \E p \in P : b.items[p[1]].id = x /\ b.items[p[2]].id = y
    <3>1. PICK i \in D, j \in D : /\ i < j /\ SimilarTitles(b.items[i].title, b.items[j].title)
                                  /\ b.items[i].id = x /\ b.items[j].id = y
      BY <2>2 DEF TitleLink
    <3>2. <<i, j>> \in P BY <3>1
    <3>3. <<i, j>>[1] = i /\ <<i, j>>[2] = j OBVIOUS
    <3> HIDE DEF P
    <3> QED BY <3>1, <3>2, <3>3
  <2> QED BY <2>1, <2>2
<1>6. S \in SUBSET (DOMAIN b.edges) OBVIOUS
<1>7. P \in SUBSET (D \X D) OBVIOUS
<1> HIDE DEF S, D, P
<1>8. /\ edges \in Seq(EdgeKind) /\ DOMAIN edges = 1..Cardinality(S) /\ Cardinality(S) \in Nat
      /\ \A k \in 1..Cardinality(S) : Place(S, k) \in S /\ edges[k] = b.edges[Place(S, k)]
      /\ \A i \in S : \E k \in 1..Cardinality(S) : Place(S, k) = i
  <2>1. DOMAIN b.edges = 1..Len(b.edges) /\ Len(b.edges) \in Nat BY <1>1
  <2>2. S \in SUBSET (1..Len(b.edges)) BY <1>6, <2>1
  <2>3. \A i \in S : \E k \in 1..Cardinality(S) : Place(S, k) = i BY <2>1, <2>2, CutPlaces
  <2>4. /\ edges \in Seq(EdgeKind) /\ Len(edges) = Cardinality(S)
        /\ \A k \in 1..Cardinality(S) : Place(S, k) \in S /\ edges[k] = b.edges[Place(S, k)]
    BY <1>1, <1>6, CutType
  <2> HIDE DEF edges
  <2> QED BY <2>3, <2>4
<1> HIDE DEF edges
<1>9. similar \in Seq(P) /\ \A p \in P : \E k \in DOMAIN similar : similar[k] = p
  <2>1. IsFiniteSet(D) /\ D \subseteq Int BY <1>1, SeqElements DEF D
  <2>2. IsFiniteSet(D \X D) BY <2>1, FS_Product
  <2>3. IsFiniteSet(P) BY <1>7, <2>2, FS_Subset
  <2>4. P \in SUBSET (Int \X Int) BY <1>7, <2>1
  <2> QED BY <2>3, <2>4, LexicographicOrders, InOrderHolds
<1> HIDE DEF similar
<1>10. Len(similar) \in Nat /\ DOMAIN similar = 1..Len(similar) /\ \A k \in DOMAIN similar : similar[k] \in P
  BY <1>9
<1>11. linked \in Seq(Int \X Int) /\ alike \in Seq(Int \X Int)
  <2>1. \A k \in 1..Cardinality(S) : linked[k] \in Int \X Int
    <3>1. \A k \in DOMAIN edges : edges[k] \in EdgeKind BY <1>8, SeqElements
    <3>2. \A k \in 1..Cardinality(S) : edges[k].source \in Int /\ edges[k].target \in Int
      BY <1>8, <3>1 DEF EdgeKind
    <3> QED BY <1>8, <3>2
  <2>2. linked = [k \in 1..Cardinality(S) |-> linked[k]] BY <1>8
  <2>3. \A k \in 1..Len(similar) : alike[k] \in Int \X Int
    <3>1. \A i \in D : b.items[i] \in ItemKind BY <1>1, SeqElements DEF D
    <3>2. \A i \in D : b.items[i].id \in Int BY <3>1 DEF ItemKind
    <3> QED BY <1>7, <1>10, <3>2
  <2>4. alike = [k \in 1..Len(similar) |-> alike[k]] BY <1>10
  <2> HIDE DEF linked, alike
  <2>5. linked \in Seq(Int \X Int) BY <1>8, <2>1, <2>2, MadeSeq
  <2>6. alike \in Seq(Int \X Int) BY <1>10, <2>3, <2>4, MadeSeq
  <2> QED BY <2>5, <2>6
<1>12. \A x, y : <<x, y>> \in ToSet(linked) <=> EdgeLink(b, x, y)
  <2> SUFFICES ASSUME NEW x, NEW y PROVE <<x, y>> \in ToSet(linked) <=> EdgeLink(b, x, y)
    OBVIOUS
  <2>1. <<x, y>> \in ToSet(linked) <=> \E k \in DOMAIN edges : edges[k].source = x /\ edges[k].target = y
    BY DEF ToSet
  <2>2. (\E k \in DOMAIN edges : edges[k].source = x /\ edges[k].target = y)
          <=> \E i \in S : b.edges[i].source = x /\ b.edges[i].target = y
    BY <1>8
  <2> QED BY <1>3, <1>4, <2>1, <2>2
<1>13. \A x, y : <<x, y>> \in ToSet(alike) <=> TitleLink(b, x, y)
  <2> SUFFICES ASSUME NEW x, NEW y PROVE <<x, y>> \in ToSet(alike) <=> TitleLink(b, x, y)
    OBVIOUS
  <2>1. <<x, y>> \in ToSet(alike) <=>
          \E k \in DOMAIN similar : b.items[similar[k][1]].id = x /\ b.items[similar[k][2]].id = y
    BY DEF ToSet
  <2>2. (\E k \in DOMAIN similar : b.items[similar[k][1]].id = x /\ b.items[similar[k][2]].id = y)
          <=> \E p \in P : b.items[p[1]].id = x /\ b.items[p[2]].id = y
    BY <1>9, <1>10
  <2> HIDE DEF alike
  <2> QED BY <1>5, <2>1, <2>2
<1> HIDE DEF linked, alike
<1>14. ToSet(linked \o alike) = ToSet(linked) \cup ToSet(alike) BY <1>11, Behind
<1> QED BY <1>2, <1>12, <1>13, <1>14 DEF Links

\* What one backlog has of another one.
Within(b, c) ==
    /\ \A i \in DOMAIN b.items : \E j \in DOMAIN c.items :
         b.items[i].id = c.items[j].id /\ b.items[i].title = c.items[j].title
    /\ \A x, y : EdgeLink(b, x, y) => EdgeLink(c, x, y)

LEMMA WithinLinks ==
    ASSUME NEW b \in BacklogKind, NEW c \in BacklogKind, IDs(b) = IDs(c), Within(b, c),
           NEW E, Equiv(E, IDs(c)), Links(c) \subseteq E
    PROVE  Links(b) \subseteq E
<1>1. \A x, y : EdgeLink(c, x, y) \/ TitleLink(c, x, y) => <<x, y>> \in E BY LinksAre
<1>2. \A t, u : SimilarTitles(t, u) => SimilarTitles(u, t)
  <2> SUFFICES ASSUME NEW t, NEW u, SimilarTitles(t, u) PROVE SimilarTitles(u, t)
    OBVIOUS
  <2> DEFINE x == NormalizeTitle(t)
             y == NormalizeTitle(u)
  <2>1. x \cap y = y \cap x /\ x \cup y = y \cup x OBVIOUS
  <2>2. x # {} /\ y # {} /\ 100 * Cardinality(x \cap y) >= 88 * Cardinality(x \cup y)
    BY DEF SimilarTitles
  <2> HIDE DEF x, y
  <2>3. 100 * Cardinality(y \cap x) >= 88 * Cardinality(y \cup x) BY <2>1, <2>2
  <2> QED BY <2>2, <2>3 DEF SimilarTitles, x, y
<1>3. ASSUME NEW x, NEW y, TitleLink(b, x, y) PROVE <<x, y>> \in E
  <2>1. PICK i \in DOMAIN b.items, k \in DOMAIN b.items :
           /\ SimilarTitles(b.items[i].title, b.items[k].title)
           /\ b.items[i].id = x /\ b.items[k].id = y
    BY <1>3 DEF TitleLink
  <2>2. PICK j \in DOMAIN c.items : c.items[j].id = x /\ c.items[j].title = b.items[i].title
    BY <2>1 DEF Within
  <2>3. PICK m \in DOMAIN c.items : c.items[m].id = y /\ c.items[m].title = b.items[k].title
    BY <2>1 DEF Within
  <2>4. j \in Int /\ m \in Int /\ x \in IDs(c) /\ y \in IDs(c)
    BY <2>2, <2>3, SeqElements DEF BacklogKind, IDs
  <2>5. CASE j = m
    BY <2>2, <2>3, <2>4, <2>5 DEF Equiv
  <2>6. CASE j < m
    <3>1. TitleLink(c, x, y) BY <2>1, <2>2, <2>3, <2>6 DEF TitleLink
    <3> QED BY <1>1, <3>1
  <2>7. CASE m < j
    <3>1. SimilarTitles(c.items[m].title, c.items[j].title) BY <1>2, <2>1, <2>2, <2>3
    <3>2. TitleLink(c, y, x) BY <2>2, <2>3, <2>7, <3>1 DEF TitleLink
    <3>3. <<y, x>> \in E BY <1>1, <3>2
    <3> QED BY <2>4, <3>3 DEF Equiv
  <2> QED BY <2>4, <2>5, <2>6, <2>7
<1>4. \A x, y : EdgeLink(b, x, y) => <<x, y>> \in E BY <1>1 DEF Within
<1>5. ASSUME NEW l \in Links(b) PROVE l \in E
  <2>1. l = <<l[1], l[2]>> BY LinksKind
  <2>2. EdgeLink(b, l[1], l[2]) \/ TitleLink(b, l[1], l[2]) BY <2>1, LinksAre
  <2>3. <<l[1], l[2]>> \in E BY <1>3, <1>4, <2>2
  <2> QED BY <2>1, <2>3
<1> QED BY <1>5

\* What a graph keeps of the backlog it was made from.
MadeFrom(s, p) ==
    /\ s.edges = p.edges /\ DOMAIN s.nodes = DOMAIN p.items
    /\ \A i \in DOMAIN p.items : /\ s.nodes[i].item.id = p.items[i].id
                                 /\ s.nodes[i].item.title = p.items[i].title

LEMMA MadeClusters ==
    ASSUME NEW s \in SetKind, Buildable(s), NEW p \in ParsedKind, MadeFrom(s, p), NEW b, b = BacklogOf(s),
           NEW par, Tree(par, IDs(b)), Sound(par, IDs(b), Links(b)), Complete(par, Links(b))
    PROVE  Clusters(par) = Clusters(Joined(p))
<1> DEFINE c == [items |-> p.items, edges |-> p.edges, goal |-> p.goal]
<1>1. c \in BacklogKind /\ b \in BacklogKind BY BuiltKind DEF BacklogKind, ParsedKind
<1>2. c.items = p.items /\ c.edges = p.edges OBVIOUS
<1> HIDE DEF c
<1>3. IDs(c) = IDs(p) /\ DuplicatePairs(c) = DuplicatePairs(p)
  BY <1>2 DEF IDs, DuplicatePairs, DuplicateEdges, SimilarPlaces
<1>4. Joined(c) = Joined(p) BY <1>3 DEF Joined
<1>5. /\ b.items = ItemsInOrder(s.nodes) /\ IDs(b) = NodeIDs(s.nodes)
      /\ \A k \in DOMAIN b.items : \E i \in DOMAIN s.nodes : b.items[k] = ToItem(s.nodes[i])
  BY BuiltKind, ItemsInOrderKind DEF BacklogOf
<1>6. \A i \in DOMAIN s.nodes : /\ ToItem(s.nodes[i]).id = s.nodes[i].item.id
                                /\ ToItem(s.nodes[i]).title = s.nodes[i].item.title
  <2>1. \A i \in DOMAIN s.nodes : s.nodes[i] \in NodeKind BY SeqElements DEF SetKind
  <2> QED BY <2>1 DEF ToItem, NodeKind, ItemKind
<1>7. IDs(b) = IDs(c)
  <2>1. DOMAIN s.nodes = DOMAIN c.items /\ \A i \in DOMAIN c.items : s.nodes[i].item.id = c.items[i].id
    BY <1>2 DEF MadeFrom
  <2>2. NodeIDs(s.nodes) = {c.items[i].id : i \in DOMAIN c.items} BY <2>1 DEF NodeIDs
  <2> QED BY <1>5, <2>2 DEF IDs
<1>8. \A i \in DOMAIN b.items : \E j \in DOMAIN c.items :
         b.items[i].id = c.items[j].id /\ b.items[i].title = c.items[j].title
  BY <1>2, <1>5, <1>6 DEF MadeFrom
<1>9. ASSUME NEW j \in DOMAIN c.items
      PROVE  \E k \in DOMAIN b.items :
               b.items[k].id = c.items[j].id /\ b.items[k].title = c.items[j].title
  <2>1. c.items[j].id \in IDs(b) BY <1>7 DEF IDs
  <2>2. PICK k \in DOMAIN b.items : b.items[k].id = c.items[j].id BY <2>1 DEF IDs
  <2>3. PICK i \in DOMAIN s.nodes : b.items[k] = ToItem(s.nodes[i]) BY <1>5
  <2>4. i = j BY <1>2, <1>6, <2>2, <2>3 DEF MadeFrom, Buildable
  <2> QED BY <1>2, <1>6, <2>2, <2>3, <2>4 DEF MadeFrom
<1>10. \A t : NormEdgeType(NormalizeEdge(t)) = "duplicate" <=> NormEdgeType(t) = "duplicate"
  <2> DEFINE D == {"duplicate", "duplicates", "duplicate-of", "dupe"}
  <2>1. \A t : NormEdgeType(t) = "duplicate" <=> t \in D BY DEF NormEdgeType
  <2>2. \A t : NormalizeEdge(t) \in D <=> t \in D BY DEF NormalizeEdge
  <2> HIDE DEF D
  <2> QED BY <2>1, <2>2
<1>11. \A x, y : EdgeLink(b, x, y) <=> EdgeLink(c, x, y)
  <2>1. /\ \A k \in DOMAIN b.edges : \E i \in DOMAIN s.edges : SameEdge(b.edges[k], s.edges[i])
        /\ \A i \in DOMAIN s.edges : \E k \in DOMAIN b.edges : SameEdge(b.edges[k], s.edges[i])
    BY EdgesAgree
  <2>2. s.edges = c.edges BY <1>2 DEF MadeFrom
  <2>3. \A k \in DOMAIN b.edges : \E i \in DOMAIN c.edges :
           /\ b.edges[k].source = c.edges[i].source /\ b.edges[k].target = c.edges[i].target
           /\ NormEdgeType(b.edges[k].type) = "duplicate" <=> NormEdgeType(c.edges[i].type) = "duplicate"
    BY <1>10, <2>1, <2>2 DEF SameEdge
  <2>4. \A i \in DOMAIN c.edges : \E k \in DOMAIN b.edges :
           /\ b.edges[k].source = c.edges[i].source /\ b.edges[k].target = c.edges[i].target
           /\ NormEdgeType(b.edges[k].type) = "duplicate" <=> NormEdgeType(c.edges[i].type) = "duplicate"
    BY <1>10, <2>1, <2>2 DEF SameEdge
  <2> QED BY <1>7, <2>3, <2>4 DEF EdgeLink
<1>12. Within(b, c) /\ Within(c, b) BY <1>8, <1>9, <1>11 DEF Within
<1>13. \A E : Equiv(E, IDs(b)) => (Links(b) \subseteq E <=> Links(c) \subseteq E)
  BY <1>1, <1>7, <1>12, WithinLinks
<1>14. Links(b) \in SUBSET (IDs(b) \X IDs(b)) /\ Links(c) \in SUBSET (IDs(b) \X IDs(b))
  BY <1>1, <1>7, LinksKind
<1>15. /\ Tree(Joined(c), IDs(b)) /\ Sound(Joined(c), IDs(b), Links(c)) /\ Complete(Joined(c), Links(c))
  BY <1>1, <1>7, JoinedIs
<1>16. Clusters(par) = Clusters(Joined(c)) BY <1>13, <1>14, <1>15, SameGroups
<1> QED BY <1>4, <1>16

\* The union-find holds together what the links hold together, and once they are joined the
\* clusters are those of its groups; a graph made from the file is still made from it.
PathsInv ==
    /\ Sound(parent, IDs(backlog), Links(backlog))
    /\ pc \notin {"idle", "join"} => clusters = Clusters(parent) /\ Complete(parent, Links(backlog))
    /\ handoff.origin = "backlog" /\ added = <<>> => MadeFrom(set, ParseBacklog(file))

LEMMA PathsPrimed ==
    /\ Sound(parent, IDs(backlog), Links(backlog))' <=> Sound(parent', IDs(backlog'), Links(backlog'))
    /\ Complete(parent, Links(backlog))' <=> Complete(parent', Links(backlog'))
    /\ Clusters(parent)' = Clusters(parent')
OBVIOUS

LEMMA SoundNext ==
    ASSUME ClusterInv, PathsInv, RagNext
    PROVE  /\ Sound(parent, IDs(backlog), Links(backlog))'
           /\ pc' \notin {"idle", "join"} => clusters' = Clusters(parent)' /\ Complete(parent, Links(backlog))'
<1>0. backlog \in BacklogKind /\ Joining BY DEF ClusterInv, Shape
<1>1. ASSUME NEW b \in BacklogKind, Begins(b) PROVE Sound(parent, IDs(backlog), Links(backlog))'
  <2>1. parent' = [id \in IDs(b) |-> id] /\ backlog' = b BY <1>1 DEF Begins
  <2>2. Sound([id \in IDs(b) |-> id], IDs(b), Links(b)) BY AloneSound
  <2> QED BY <2>1, <2>2, PathsPrimed
<1>2. CASE JoinPair
  <2> DEFINE l == pairs[1]
             new == Join(parent, l[1], l[2])
  <2>1. /\ pc' = "join" /\ backlog' = backlog /\ parent' = new /\ l \in Links(backlog)
        /\ l[1] \in DOMAIN parent /\ l[2] \in DOMAIN parent
    BY <1>0, <1>2, JoinPairJoins DEF JoinPair
  <2>2. Tree(parent, IDs(backlog)) /\ l[1] \in IDs(backlog) /\ l[2] \in IDs(backlog)
    BY <1>0, <2>1 DEF Joining, Tree
  <2>3. l = <<l[1], l[2]>> BY <1>0, <2>1, LinksKind
  <2> HIDE DEF l
  <2>4. Sound(new, IDs(backlog), Links(backlog))
    BY <2>1, <2>2, <2>3, JoinSound DEF PathsInv
  <2> HIDE DEF new
  <2>5. Sound(parent, IDs(backlog), Links(backlog))'
    BY <2>1, <2>4, PathsPrimed
  <2> QED BY <2>1, <2>5
<1>3. ASSUME UNCHANGED <<parent, backlog>>
      PROVE  /\ Sound(parent, IDs(backlog), Links(backlog))'
             /\ Complete(parent, Links(backlog))' <=> Complete(parent, Links(backlog))
             /\ Clusters(parent)' = Clusters(parent)
  BY <1>3, PathsPrimed DEF PathsInv
<1>4. CASE Analyze
  <2>1. /\ pc = "join" /\ pairs = <<>> /\ UNCHANGED <<parent, backlog>>
        /\ clusters' = Clusters(parent)
    BY <1>4 DEF Analyze
  <2>2. Complete(parent, Links(backlog)) BY <1>0, <2>1 DEF Joining, Complete
  <2> QED BY <1>3, <2>1, <2>2
<1>5. CASE Keeps
  <2>1. UNCHANGED <<parent, backlog, clusters>> /\ pc # "join" /\ (pc' = "idle" <=> pc = "idle")
    BY <1>5 DEF Keeps
  <2> QED BY <1>3, <2>1 DEF PathsInv
<1> QED BY <1>1, <1>2, <1>4, <1>5, ClusterSteps DEF Begins

LEMMA MadeNext ==
    ASSUME ClusterInv, PathsInv, RagNext
    PROVE  handoff'.origin = "backlog" /\ added' = <<>> => MadeFrom(set', ParseBacklog(file'))
<1>0. file \in FileKind /\ handoff \in HandoffKind /\ added \in Seq(EdgeKind) BY DEF ClusterInv, Shape
<1>1. CASE Unhanded
  <2>1. CASE file' = file
    BY <1>1, <2>1 DEF PathsInv, Unhanded
  <2>2. CASE ReadItem
    <3>1. ParseBacklog(file) \in ParsedKind BY <1>0, ParseKind
    <3>2. PICK i \in DOMAIN ParseBacklog(file).items :
             ParseBacklog(file') = [ParseBacklog(file) EXCEPT !.items[i].status = "read"]
      BY <1>0, <2>2, ReadParsed
    <3> DEFINE p == ParseBacklog(file)
               q == ParseBacklog(file')
    <3>3. /\ p.items \in Seq(ItemKind) /\ q.edges = p.edges
          /\ q.items = [p.items EXCEPT ![i] = [p.items[i] EXCEPT !.status = "read"]]
      BY <3>1, <3>2 DEF ParsedKind
    <3> HIDE DEF p, q
    <3>4. DOMAIN q.items = DOMAIN p.items /\ \A j \in DOMAIN p.items : p.items[j] \in ItemKind
      BY <3>3, SeqElements
    <3>5. \A j \in DOMAIN p.items : q.items[j].id = p.items[j].id /\ q.items[j].title = p.items[j].title
      <4> SUFFICES ASSUME NEW j \in DOMAIN p.items
                   PROVE  q.items[j].id = p.items[j].id /\ q.items[j].title = p.items[j].title
        OBVIOUS
      <4> DEFINE one == [p.items[j] EXCEPT !.status = "read"]
      <4>1. one.id = p.items[j].id /\ one.title = p.items[j].title BY <3>4 DEF ItemKind
      <4>2. q.items[j] = IF j = i THEN one ELSE p.items[j] BY <3>3, <3>4
      <4> HIDE DEF one
      <4> QED BY <4>1, <4>2
    <3>6. MadeFrom(set, p) => MadeFrom(set, q) BY <3>3, <3>4, <3>5 DEF MadeFrom
    <3> QED BY <1>1, <3>6 DEF PathsInv, Unhanded, p, q
  <2> QED BY <2>1, <2>2, GraphSteps
<1>2. ASSUME NEW h \in Handoffs, Receive(h), h.origin = "backlog"
      PROVE  MadeFrom(set', ParseBacklog(file'))
  <2>1. set' = Mapped(h) /\ file' = file BY <1>2 DEF Receive, citewiseVars
  <2>2. Mapped(h) = CandidateSetFromBacklog(ParseBacklog(file)) BY <1>2 DEF Mapped
  <2>3. ParseBacklog(file) \in ParsedKind BY <1>0, ParseKind
  <2>4. CandidateSetFromBacklog(ParseBacklog(file)).edges = ParseBacklog(file).edges
    BY DEF CandidateSetFromBacklog
  <2> QED BY <2>1, <2>2, <2>3, <2>4, BacklogSetKind DEF MadeFrom
<1>3. ASSUME NEW ctx \in Callers, RedactHandoff(ctx) PROVE handoff'.origin # "backlog"
  <2>1. handoff.origin = "hybrid" /\ handoff' = RedactForReranker(ctx, handoff)
    BY <1>3 DEF RedactHandoff
  <2>2. handoff \in HybridType
    BY <1>0, <2>1 DEF HandoffKind, ExportType, ResultsType, FromBacklog, NoHandoff
  <2>3. handoff' \in HybridType BY <2>1, <2>2, RedactKind
  <2> QED BY <2>3 DEF HybridType
<1>4. ASSUME NEW e \in report.suggestions, AddSuggestion(e) PROVE added' # <<>>
  BY <1>0, <1>4 DEF AddSuggestion
<1>5. CASE \E h \in Handoffs : Receive(h)
  <2>1. PICK h \in Handoffs : Receive(h) /\ handoff' = h BY <1>5 DEF Receive
  <2> QED BY <1>2, <2>1
<1> QED BY <1>1, <1>3, <1>4, <1>5, GraphSteps

LEMMA PathsInvAlways == RagSpec => []PathsInv
<1>1. RagInit => PathsInv
  <2> SUFFICES ASSUME RagInit PROVE PathsInv
    OBVIOUS
  <2>1. pc = "idle" /\ parent = [id \in {} |-> id] /\ IDs(backlog) = {} /\ handoff = NoHandoff
    BY NoBacklogKind DEF RagInit, Init
  <2>2. Sound(parent, IDs(backlog), Links(backlog)) BY <2>1, AloneSound
  <2>3. handoff.origin # "backlog" BY <2>1 DEF NoHandoff
  <2> QED BY <2>1, <2>2, <2>3 DEF PathsInv
<1>2. ClusterInv /\ PathsInv /\ [RagNext]_vars => PathsInv'
  <2> SUFFICES ASSUME ClusterInv, PathsInv, [RagNext]_vars PROVE PathsInv'
    OBVIOUS
  <2>1. CASE RagNext
    <3>1. MadeFrom(set, ParseBacklog(file))' <=> MadeFrom(set', ParseBacklog(file')) OBVIOUS
    <3> QED BY <2>1, <3>1, SoundNext, MadeNext DEF PathsInv
  <2>2. CASE UNCHANGED vars
    <3>1. UNCHANGED <<pc, parent, backlog, clusters, handoff, added, set, file>>
      BY <2>2 DEF vars, citewiseVars, engineVars, ragVars
    <3>2. MadeFrom(set, ParseBacklog(file))' <=> MadeFrom(set', ParseBacklog(file')) OBVIOUS
    <3> QED BY <3>1, <3>2, PathsPrimed DEF PathsInv
  <2> QED BY <2>1, <2>2
<1> QED BY <1>1, <1>2, ClusterInvAlways, PTL DEF RagSpec

\* The hygiene of the base analysis is that of the graph's own edges, and a backlog made
\* into a graph has the backlog's duplicate clusters (pkg/hygiene/hygiene.go, Analyze and
\* pkg/ragnode, BuildAnalysis), for every graph and however many items are read meanwhile.
THEOREM PathsAgree == RagSpec => []TwoPathsAgree
<1>1. ClusterInv /\ PathsInv => TwoPathsAgree
  <2> SUFFICES ASSUME ClusterInv, PathsInv, pc = "analyzed", call = RagCall
               PROVE  /\ Orphans(backlog) = GraphOrphans(set)
                      /\ MissingBridges(backlog, roles) = GraphBridges(set, roles)
                      /\ handoff.origin = "backlog" /\ added = <<>> =>
                           clusters = Clusters(Joined(ParseBacklog(file)))
    BY DEF TwoPathsAgree
  <2>1. /\ set \in SetKind /\ Buildable(set) /\ backlog = BacklogOf(set) /\ file \in FileKind
        /\ Joining
    BY DEF ClusterInv, Shape, OfTheGraph
  <2>2. ASSUME MadeFrom(set, ParseBacklog(file))
        PROVE  clusters = Clusters(Joined(ParseBacklog(file)))
    <3>1. ParseBacklog(file) \in ParsedKind BY <2>1, ParseKind
    <3>2. Tree(parent, IDs(backlog)) BY <2>1 DEF Joining, Tree
    <3> QED BY <2>1, <2>2, <3>1, <3>2, MadeClusters DEF PathsInv
  <2> QED BY <2>1, <2>2, HygieneOfTheGraph DEF PathsInv
<1> QED BY <1>1, ClusterInvAlways, PathsInvAlways, PTL

-----------------------------------------------------------------------------
(* Scores stay within bounds.                                              *)

LEMMA MaxIs ==
    ASSUME NEW S \in SUBSET Int, IsFiniteSet(S), S # {}
    PROVE  Max(S) \in S /\ \A x \in S : Max(S) >= x
<1> DEFINE R == {p \in S \X S : p[1] < p[2]}
           n == Cardinality(S)
           sorted == InOrder(S, R)
<1>1. Orders(R, S)
  <2>1. \A x, y \in S : <<x, y>> \in R <=> x < y OBVIOUS
  <2>2. \A x \in S : x \in Int OBVIOUS
  <2> HIDE DEF R
  <2> QED BY <2>1, <2>2 DEF Orders
<1>2. \A x, y \in S : <<x, y>> \in R <=> x < y OBVIOUS
<1> HIDE DEF R
<1>3. /\ n \in Nat /\ sorted \in Seq(S) /\ Len(sorted) = n
      /\ \A x \in S : \E k \in 1..n : sorted[k] = x
      /\ \A j, k \in 1..n : j < k <=> <<sorted[j], sorted[k]>> \in R
  BY <1>1, InOrderType
<1> HIDE DEF n, sorted
<1>4. n >= 1 /\ \A k \in 1..n : sorted[k] \in S
  <2>1. \E k \in 1..n : TRUE BY <1>3
  <2> QED BY <1>3, <2>1
<1>5. \A x \in S : sorted[n] >= x
  <2> SUFFICES ASSUME NEW k \in 1..n PROVE sorted[n] >= sorted[k] BY <1>3
  <2>1. n \in 1..n /\ sorted[n] \in Int /\ sorted[k] \in Int
    <3>1. n \in 1..n /\ \A x \in S : x \in Int BY <1>3, <1>4
    <3> QED BY <1>4, <3>1
  <2>2. CASE k = n BY <2>1, <2>2
  <2>3. CASE k # n
    <3>1. k < n BY <1>3, <2>3
    <3>2. sorted[k] < sorted[n] BY <1>2, <1>3, <1>4, <2>1, <3>1
    <3> QED BY <2>1, <3>2
  <2> QED BY <2>2, <2>3
<1>6. sorted[n] \in S BY <1>3, <1>4
<1>7. \E m \in S : \A x \in S : m >= x BY <1>5, <1>6
<1> QED BY <1>7 DEF Max

Points == 0..10000

LEMMA ClampIs ==
    /\ \A x \in Int : Clamp(x) \in Points
    /\ \A x \in Points : x \in Int /\ (x + 5) \div 10 \in 0..1000
    /\ 0 \in Points /\ 1000 \in Points
<1>1. \A x \in Int : Clamp(x) \in Points BY SMTT(60) DEF Clamp, Points
<1>2. \A x \in Points : x \in Int BY DEF Points
<1>3. \A x \in Points : (x + 5) \div 10 \in 0..1000
  <2> SUFFICES ASSUME NEW x \in Points PROVE (x + 5) \div 10 \in 0..1000
    OBVIOUS
  <2>1. x \in Int /\ 0 <= x /\ x <= 10000 BY DEF Points
  <2> QED BY <2>1
<1>4. 0 \in Points /\ 1000 \in Points BY DEF Points
<1> QED BY <1>1, <1>2, <1>3, <1>4, SMTT(60)

LEMMA MaxTwo ==
    ASSUME NEW x \in Int, NEW y \in Int
    PROVE  Max({x, y}) \in Int
<1>1. IsFiniteSet({x, y})
  <2>1. IsFiniteSet({x}) /\ IsFiniteSet({y}) BY FS_Singleton
  <2>2. {x, y} = {x} \cup {y} OBVIOUS
  <2> QED BY <2>1, <2>2, FS_Union
<1>2. {x, y} \in SUBSET Int /\ {x, y} # {} OBVIOUS
<1> QED BY <1>1, <1>2, MaxIs

\* What was parsed from a file has one field more.
Filed(b) == b.items \in Seq(ItemKind) /\ b.edges \in Seq(EdgeKind) /\ b.goal \in GoalKind

\* The items of a backlog, and how many edges come to one.
LEMMA ItemIs ==
    ASSUME NEW b, Filed(b), NEW id \in IDs(b)
    PROVE  /\ Item(b, id) \in ItemKind /\ Item(b, id).id = id
           /\ \E i \in DOMAIN b.items : Item(b, id) = b.items[i]
<1>1. PICK i \in DOMAIN b.items : b.items[i].id = id BY DEF IDs
<1> DEFINE j == CHOOSE k \in DOMAIN b.items : b.items[k].id = id
<1>2. j \in DOMAIN b.items /\ b.items[j].id = id BY <1>1
<1>3. \A k \in DOMAIN b.items : b.items[k] \in ItemKind BY SeqElements DEF Filed
<1>4. Item(b, id) = b.items[j] BY DEF Item
<1> HIDE DEF j
<1> QED BY <1>2, <1>3, <1>4

LEMMA EdgesAre ==
    ASSUME NEW b, Filed(b), NEW S \in SUBSET (DOMAIN b.edges)
    PROVE  IsFiniteSet(S) /\ Cardinality(S) \in Nat
<1>1. IsFiniteSet(DOMAIN b.edges) BY SeqElements DEF Filed
<1> QED BY <1>1, FS_Subset, FS_CardinalityType

LEMMA WeightIs ==
    ASSUME NEW b, Filed(b), NEW places
    PROVE  WeightOf(b, places) \in Int
<1> DEFINE n == Len(b.edges)
           w == [i \in 1..n |->
                   IF i \in places THEN (EdgeWeight(b.edges[i].type) * b.edges[i].confidence) \div 100
                   ELSE 0]
<1>1. n \in Nat /\ DOMAIN b.edges = 1..n /\ \A i \in 1..n : b.edges[i] \in EdgeKind
  BY SeqElements DEF Filed
<1>2. WeightOf(b, places) = SumOf(w) BY <1>1 DEF WeightOf
<1>3. ASSUME NEW i \in 1..n PROVE w[i] \in Int
  <2>1. b.edges[i].confidence \in Int BY <1>1 DEF EdgeKind
  <2>2. EdgeWeight(b.edges[i].type) \in Int BY DEF EdgeWeight
  <2>3. \A x, y \in Int : (x * y) \div 100 \in Int OBVIOUS
  <2> QED BY <2>1, <2>2, <2>3
<1>4. w = [i \in 1..n |-> w[i]] OBVIOUS
<1> HIDE DEF w, n
<1>5. w \in Seq(Int) BY <1>1, <1>3, <1>4, MadeSeq
<1> QED BY <1>2, <1>5, SumType

LEMMA CentralityIs ==
    ASSUME NEW b, Filed(b), NEW id \in IDs(b)
    PROVE  Centrality(b, id) \in Points
<1> DEFINE S == {0} \cup {RawCentrality(b, x) : x \in IDs(b)}
           most == Max(S)
           raw == RawCentrality(b, id)
<1>1. \A x : RawCentrality(b, x) \in Int
  <2> SUFFICES ASSUME NEW x PROVE RawCentrality(b, x) \in Int
    OBVIOUS
  <2>1. \A u, v \in Int : u + (65 * v) \div 100 \in Int OBVIOUS
  <2>2. WeightOf(b, In(b, x)) \in Int /\ WeightOf(b, Out(b, x)) \in Int BY WeightIs
  <2> QED BY <2>1, <2>2 DEF RawCentrality
<1>2. IsFiniteSet(S)
  <2> DEFINE f == [x \in IDs(b) |-> RawCentrality(b, x)]
             T == {RawCentrality(b, x) : x \in IDs(b)}
  <2>1. f \in Surjection(IDs(b), T) BY DEF Surjection
  <2>2. IsFiniteSet(T) BY <2>1, IDsFinite, FS_Surjection DEF Filed
  <2> QED BY <2>2, FS_Singleton, FS_Union
<1>3. S \in SUBSET Int /\ 0 \in S BY <1>1
<1>4. Centrality(b, id) = IF most = 0 THEN 0 ELSE Clamp((10000 * raw) \div most)
  BY DEF Centrality
<1> HIDE DEF S
<1>5. most \in Int /\ most >= 0 BY <1>2, <1>3, MaxIs
<1>6. raw \in Int BY <1>1
<1> HIDE DEF most, raw
<1>7. most # 0 => (10000 * raw) \div most \in Int BY <1>5, <1>6
<1>8. CASE most = 0
  BY <1>4, <1>8, ClampIs
<1>9. CASE most # 0
  <2>1. Centrality(b, id) = Clamp((10000 * raw) \div most) BY <1>4, <1>9
  <2> QED BY <1>7, <1>9, <2>1, ClampIs
<1> QED BY <1>8, <1>9

LEMMA GoalFitIs ==
    ASSUME NEW it \in ItemKind, NEW goal
    PROVE  GoalFit(it, goal) \in Points
<1>1. it.hint \in Int /\ it.hits \in Int BY DEF ItemKind
<1>2. 100 * it.hint \in Int /\ 3500 + 1800 * it.hits \in Int BY <1>1
<1>3. Clamp(100 * it.hint) \in Points /\ Clamp(3500 + 1800 * it.hits) \in Points
  BY <1>2, ClampIs
<1> QED BY <1>3, ClampIs DEF GoalFit

LEMMA ReadinessIs ==
    ASSUME NEW b, Filed(b), NEW id \in IDs(b)
    PROVE  Readiness(b, id) \in Points
<1> DEFINE familiarity == IF b.goal.familiarity = 0 THEN 3 ELSE b.goal.familiarity
           fit == 10000 - 2000 * Gap(Item(b, id).difficulty, familiarity)
           needed == Cardinality({i \in In(b, id) : b.edges[i].type = "prerequisite"})
           missing == Cardinality(Missing(b, id))
           met == IF needed = 0 THEN 10000 ELSE 10000 - (10000 * missing) \div needed
<1>1. familiarity \in Int /\ Item(b, id).difficulty \in Int
  <2>1. Item(b, id) \in ItemKind /\ b.goal \in GoalKind BY ItemIs DEF Filed
  <2> QED BY <2>1 DEF GoalKind, ItemKind
<1>2. fit \in Int BY <1>1 DEF Gap
<1>3. needed \in Nat /\ missing \in Nat BY EdgesAre DEF In, Missing
<1>4. Readiness(b, id) = Clamp((60 * fit + 40 * met) \div 100) BY DEF Readiness
<1> HIDE DEF fit, needed, missing
<1>5. met \in Int
  <2>1. \A m, n \in Nat : n # 0 => 10000 - (10000 * m) \div n \in Int OBVIOUS
  <2> QED BY <1>3, <2>1
<1> HIDE DEF met
<1>6. (60 * fit + 40 * met) \div 100 \in Int BY <1>2, <1>5
<1> QED BY <1>4, <1>6, ClampIs

LEMMA FreshnessIs ==
    ASSUME NEW it \in ItemKind
    PROVE  Freshness(it) \in Int
<1>1. Age(it) \in Int BY YearAssumption DEF Age, ItemKind
<1>2. 10000 - (10000 * Age(it)) \div 24 \in Int BY <1>1
<1>3. Max({2500, 10000 - (10000 * Age(it)) \div 24}) \in Int BY <1>2, MaxTwo
<1> QED BY <1>3 DEF Freshness

LEMMA FitIs ==
    ASSUME NEW it \in ItemKind, NEW goal \in GoalKind
    PROVE  EnergyTimeFit(it, goal) \in Points
<1> DEFINE budget == IF goal.minutes <= 0 THEN 90 ELSE goal.minutes
           time == IF it.minutes > budget THEN Max({2000, (10000 * budget) \div it.minutes}) ELSE 10000
           energy == IF goal.energy = "" \/ it.energy = "" THEN 8000
                     ELSE IF goal.energy = it.energy THEN 10000
                     ELSE IF goal.energy = "low" /\ (it.energy = "high" \/ it.difficulty >= 4)
                     THEN 3500 ELSE 7000
<1>1. budget \in Int /\ budget > 0 /\ it.minutes \in Int BY DEF GoalKind, ItemKind
<1>2. energy \in Int OBVIOUS
<1>3. EnergyTimeFit(it, goal) = Clamp((55 * time + 45 * energy) \div 100)
  BY DEF EnergyTimeFit
<1> HIDE DEF budget, energy
<1>4. time \in Int
  <2>1. CASE it.minutes > budget
    <3>1. (10000 * budget) \div it.minutes \in Int BY <1>1, <2>1
    <3>2. Max({2000, (10000 * budget) \div it.minutes}) \in Int BY <3>1, MaxTwo
    <3> QED BY <2>1, <3>2
  <2>2. CASE ~(it.minutes > budget)
    BY <2>2
  <2> QED BY <2>1, <2>2
<1> HIDE DEF time
<1>5. (55 * time + 45 * energy) \div 100 \in Int BY <1>2, <1>4
<1> QED BY <1>3, <1>5, ClampIs

LEMMA TotalIs ==
    ASSUME NEW b, Filed(b), NEW r, NEW found, NEW id \in IDs(b)
    PROVE  Total(b, r, found, id) \in 0..1000
<1> DEFINE it == Item(b, id)
           fit == GoalFit(it, b.goal)
           central == Centrality(b, id)
           ready == Readiness(b, id)
           fresh == Freshness(it)
           time == EnergyTimeFit(it, b.goal)
           penalty == RedundancyPenalty(id, r, found)
           sum == 30 * fit + 20 * central + 18 * ready + 12 * fresh + 20 * time - 22 * penalty
<1>1. it \in ItemKind /\ b.goal \in GoalKind BY ItemIs DEF Filed
<1>2. Total(b, r, found, id) = (Clamp(sum \div 100) + 5) \div 10 BY DEF Total
<1> HIDE DEF it
<1>3. fit \in Int /\ time \in Int
  <2>1. fit \in Points /\ time \in Points BY <1>1, GoalFitIs, FitIs
  <2> QED BY <2>1, ClampIs
<1>4. central \in Int /\ ready \in Int
  <2>1. central \in Points /\ ready \in Points BY CentralityIs, ReadinessIs
  <2> QED BY <2>1, ClampIs
<1>5. fresh \in Int BY <1>1, FreshnessIs
<1>6. penalty \in Int BY DEF RedundancyPenalty
<1> HIDE DEF fit, central, ready, fresh, time, penalty
<1>7. sum \div 100 \in Int BY <1>3, <1>4, <1>5, <1>6
<1> HIDE DEF sum
<1>8. Clamp(sum \div 100) \in Points BY <1>7, ClampIs
<1> QED BY <1>2, <1>8, ClampIs, SMTT(60)

LEMMA RoleIs ==
    ASSUME NEW b, NEW found, NEW id
    PROVE  Classify(b, found, id) \in Roles
<1> QED BY DEF Classify, Roles

\* No part of the report names more than the graph's nodes.
LEMMA PartIs ==
    ASSUME NEW s \in SetKind, NEW S, S \subseteq NodeIDs(s.nodes) \/ S \subseteq DOMAIN s.nodes
    PROVE  Cardinality(S) \in 0..Len(s.nodes)
<1> DEFINE D == DOMAIN s.nodes
           N == NodeIDs(s.nodes)
           f == [i \in D |-> s.nodes[i].item.id]
<1>1. IsFiniteSet(D) /\ Len(s.nodes) \in Nat /\ Cardinality(D) = Len(s.nodes)
  <2>1. Len(s.nodes) \in Nat /\ D = 1..Len(s.nodes) BY SeqElements DEF SetKind
  <2> QED BY <2>1, UpTo
<1>2. f \in Surjection(D, N) BY DEF Surjection, NodeIDs
<1> HIDE DEF f
<1>3. IsFiniteSet(N) /\ Cardinality(N) <= Len(s.nodes) /\ Cardinality(N) \in Nat
  BY <1>1, <1>2, FS_Surjection, FS_CardinalityType
<1>4. CASE S \subseteq N
  <2>1. Cardinality(S) \in Nat /\ Cardinality(S) <= Cardinality(N)
    BY <1>3, <1>4, FS_Subset, FS_CardinalityType
  <2> QED BY <1>1, <1>3, <2>1
<1>5. CASE S \subseteq D
  <2>1. Cardinality(S) \in Nat /\ Cardinality(S) <= Cardinality(D)
    BY <1>1, <1>5, FS_Subset, FS_CardinalityType
  <2> QED BY <1>1, <2>1
<1> QED BY <1>4, <1>5

LEMMA ScoreIs ==
    ASSUME NEW s \in SetKind, NEW b, IDs(b) = NodeIDs(s.nodes), NEW r, NEW found, UNION found \subseteq IDs(b)
    PROVE  /\ OrphanNodes(b, s) \cup StaleNodes(b, s, r) \cup BridgesMissing(b, s, r) \subseteq IDs(b)
           /\ WeightedScore(b, s, r, found) \in 0 .. 100 * Len(s.nodes)
<1> DEFINE n == Len(s.nodes)
           orphans == Cardinality(OrphanNodes(b, s))
           doubles == Cardinality(UNION found)
           stale == Cardinality(StaleNodes(b, s, r))
           bridges == Cardinality(BridgesMissing(b, s, r))
           doubted == CountOf(s, LAMBDA m : m.trust < 35)
           open == CountOf(s, LAMBDA m : RequiresAgenticApproval(m.chunk) /\ m.approvedBy = {})
<1>1. OrphanNodes(b, s) \subseteq IDs(b)
  BY DEF OrphanNodes, Orphans, GraphOrphans
<1>2. StaleNodes(b, s, r) \subseteq IDs(b)
  BY DEF StaleNodes, StaleItems, NodeIDs
<1>3. BridgesMissing(b, s, r) \subseteq IDs(b)
  BY DEF BridgesMissing, MissingBridges, GraphBridges
<1>4. orphans \in 0..n /\ doubles \in 0..n /\ stale \in 0..n /\ bridges \in 0..n
  BY <1>1, <1>2, <1>3, PartIs
<1>5. doubted \in 0..n
  <2> DEFINE S == {i \in DOMAIN s.nodes : s.nodes[i].trust < 35}
  <2>1. Cardinality(S) \in 0..n BY PartIs
  <2> QED BY <2>1 DEF CountOf
<1>6. open \in 0..n
  <2> DEFINE S == {i \in DOMAIN s.nodes :
                     RequiresAgenticApproval(s.nodes[i].chunk) /\ s.nodes[i].approvedBy = {}}
  <2>1. Cardinality(S) \in 0..n BY PartIs
  <2> QED BY <2>1 DEF CountOf
<1>7. n \in Nat BY SeqElements DEF SetKind
<1>8. WeightedScore(b, s, r, found)
        = 100 * n - 18 * orphans - 18 * doubles - 20 * stale - 20 * bridges - 14 * doubted - 10 * open
  BY DEF WeightedScore
<1> HIDE DEF n, orphans, doubles, stale, bridges, doubted, open
<1>9. WeightedScore(b, s, r, found) \in 0 .. 100 * n BY <1>4, <1>5, <1>6, <1>7, <1>8
<1> QED BY <1>1, <1>2, <1>3, <1>9 DEF n

\* Every action ends in a place of the run and leaves an exit code, and only PlanQueue's
\* leave candidates.
Places == {"idle", "join", "analyzed", "queue", "routed", "reported"}
Running ==
    /\ pc \in Places /\ exit \in {0, 1, 2}
    /\ pc # "queue" => waiting = {} /\ queue.skipped = {}
    /\ report # NoReport => pc = "reported"

LEMMA RunningNext == Running /\ [RagNext]_vars => Running'
<1> SUFFICES ASSUME Running, [RagNext]_vars PROVE Running'
  OBVIOUS
<1> DEFINE Still == queue' = queue /\ waiting' = waiting
           Silent == report' = report /\ pc # "reported"
<1>1. ASSUME NEW code \in {0, 1, 2}, Exit(code), report' = NoReport PROVE Running'
  BY <1>1 DEF Exit, EmptyQueue, Running, Places
<1>2. ASSUME NEW b, BeginAnalysis(b), exit' = exit, report' = NoReport PROVE Running'
  BY <1>2 DEF BeginAnalysis, EmptyQueue, Running, Places
<1>3. ASSUME pc # "reported", report' = report PROVE report' = NoReport
  BY <1>3 DEF Running
<1>4. CASE CitewiseNext
  <2>1. report' = report BY <1>4 DEF CitewiseNext, ragVars
  <2>2. CASE \E c \in Calls : Run(c) \/ RunRefused(c)
    <3>1. PICK c \in Calls : Run(c) \/ RunRefused(c) BY <2>2
    <3>2. CASE Run(c)
      <4>1. pc = "idle" /\ exit' = exit /\ \E b : BeginAnalysis(b) BY <3>2 DEF Run
      <4> QED BY <1>2, <1>3, <2>1, <4>1
    <3>3. CASE RunRefused(c)
      <4>1. pc = "idle" /\ \E code \in {0, 1, 2} : Exit(code) BY <3>3 DEF RunRefused
      <4> QED BY <1>1, <1>3, <2>1, <4>1
    <3> QED BY <3>1, <3>2, <3>3
  <2>3. CASE EngineStep
    BY <1>3, <2>1, <2>3 DEF EngineStep, JoinPair, Analyze, queueVars, Running, Places
  <2>4. CASE Write
    <3>1. pc = "analyzed" /\ \E code \in {0, 1, 2} : Exit(code) BY <2>4 DEF Write
    <3> QED BY <1>1, <1>3, <2>1, <3>1
  <2>5. CASE QueueStep
    <3>1. CASE StartQueue
      BY <1>3, <2>1, <3>1 DEF StartQueue, Running, Places
    <3>2. CASE \E id \in waiting : Take(id) \/ Skip(id)
      BY <1>3, <2>1, <3>2 DEF Take, Skip, First, Running, Places
    <3>3. CASE EndQueue
      <4>1. pc = "queue" /\ Exit(0) BY <3>3 DEF EndQueue
      <4> QED BY <1>1, <1>3, <2>1, <4>1
    <3> QED BY <2>5, <3>1, <3>2, <3>3 DEF QueueStep
  <2>6. CASE ReadItem
    BY <1>3, <2>1, <2>6 DEF ReadItem, queueVars, Running, Places
  <2> QED BY <1>4, <2>2, <2>3, <2>4, <2>5, <2>6 DEF CitewiseNext, Next
<1>5. CASE (\E h \in Handoffs : Receive(h)) \/ (\E ctx \in Callers : RedactHandoff(ctx))
  BY <1>5 DEF Receive, RedactHandoff, citewiseVars, queueVars, responseVars, Running, Places
<1>6. CASE BuildAnalysis
  <2>1. pc = "idle" /\ report' = report BY <1>6 DEF BuildAnalysis, ragVars
  <2>2. \/ exit' = exit /\ \E b : BeginAnalysis(b)
        \/ \E code \in {0, 1, 2} : Exit(code)
    BY <1>6 DEF BuildAnalysis
  <2> QED BY <1>1, <1>2, <1>3, <2>1, <2>2
<1>7. CASE RouteQuery
  BY <1>3, <1>7 DEF RouteQuery, queueVars, Running, Places
<1>8. CASE \E degraded \in BOOLEAN : AnalyzeHygiene(degraded)
  <2>1. pc = "routed" /\ pc' = "reported" /\ exit' = exit /\ Still
    BY <1>8 DEF AnalyzeHygiene, queueVars
  <2> QED BY <2>1 DEF Running, Places
<1>9. CASE Discard \/ \E e \in report.suggestions : AddSuggestion(e)
  <2>1. Respond BY <1>9 DEF Discard, AddSuggestion
  <2> QED BY <1>1, <2>1 DEF Respond
<1>10. CASE UNCHANGED vars
  BY <1>10 DEF vars, citewiseVars, queueVars, ragVars, Running
<1> QED BY <1>4, <1>5, <1>6, <1>7, <1>8, <1>9, <1>10 DEF RagNext

LEMMA RunningInit == RagInit => Running
BY DEF RagInit, Init, EmptyQueue, Running, Places

\* Once Analyze is done every item has a role and a score.
Analysed ==
    pc \in {"analyzed", "queue", "routed", "reported"} =>
      /\ DOMAIN roles = IDs(backlog) /\ \A id \in IDs(backlog) : roles[id] \in Roles
      /\ DOMAIN scores = IDs(backlog) /\ \A id \in IDs(backlog) : scores[id] \in 0..1000

LEMMA AnalysedNext == ClusterInv /\ Running /\ Analysed /\ [RagNext]_vars => Analysed'
<1> SUFFICES ASSUME ClusterInv, Running, Analysed, [RagNext]_vars PROVE Analysed'
  OBVIOUS
<1>1. CASE UNCHANGED <<pc, backlog, roles, scores>>
  BY <1>1 DEF Analysed, IDs
<1>2. CASE RagNext
  <2>1. CASE (\E b \in BacklogKind : Begins(b)) \/ JoinPair
    <3>1. pc' \in {"idle", "join"} BY <2>1 DEF Begins, JoinPair
    <3> QED BY <3>1 DEF Analysed
  <2>2. CASE Analyze
    <3> DEFINE S == IDs(backlog)
    <3>1. /\ backlog' = backlog
          /\ roles' = [id \in S |-> Classify(backlog, clusters', id)]
          /\ scores' = [id \in S |-> Total(backlog, roles', clusters', id)]
      BY <2>2 DEF Analyze
    <3>2. Filed(backlog) BY DEF ClusterInv, Shape, BacklogKind, Filed
    <3>3. IDs(backlog') = S BY <3>1
    <3>4. \A id \in S : roles'[id] \in Roles BY <3>1, RoleIs
    <3>5. \A id \in S : scores'[id] \in 0..1000 BY <3>1, <3>2, TotalIs
    <3>6. DOMAIN roles' = S /\ DOMAIN scores' = S BY <3>1
    <3> HIDE DEF S
    <3> QED BY <3>3, <3>4, <3>5, <3>6 DEF Analysed
  <2>3. CASE Keeps
    <3>1. /\ UNCHANGED <<backlog, roles, scores>> /\ pc \in Places /\ pc # "join"
          /\ (pc' = "idle" <=> pc = "idle")
      BY <2>3 DEF Keeps, Running
    <3>2. pc' \in {"analyzed", "queue", "routed", "reported"} => pc \in {"analyzed", "queue", "routed", "reported"}
      BY <3>1 DEF Places
    <3> QED BY <3>1, <3>2 DEF Analysed, IDs
  <2> QED BY <1>2, <2>1, <2>2, <2>3, ClusterSteps
<1>3. CASE UNCHANGED vars
  BY <1>1, <1>3 DEF vars, citewiseVars, engineVars
<1> QED BY <1>2, <1>3

\* The relations of an export stay within bounds, whatever is suggested on top of them.
Bounded == \A i \in DOMAIN set.edges : set.edges[i].confidence \in 0..100
Weights == handoff.origin = "graphrag" => Bounded

LEMMA WeightsNext == ClusterInv /\ Weights /\ [RagNext]_vars => Weights'
<1> SUFFICES ASSUME ClusterInv, Weights, [RagNext]_vars PROVE Weights'
  OBVIOUS
<1>0. set \in SetKind /\ handoff \in HandoffKind BY DEF ClusterInv, Shape
<1>1. CASE UNCHANGED <<handoff, set>>
  BY <1>1 DEF Weights, Bounded
<1>2. CASE \E h \in Handoffs : Receive(h)
  <2>1. PICK h \in Handoffs : handoff' = h /\ set' = Mapped(h) BY <1>2 DEF Receive
  <2>2. CASE h.origin = "graphrag"
    <3>1. h \in ExportType
      BY <2>2, HandoffsAssumption DEF ResultsType, HybridType, FromBacklog
    <3>2. set' = MapExport(h) BY <2>1, <2>2 DEF Mapped
    <3>3. set'.edges \in Seq(PlainEdge) BY <3>1, <3>2, ExportKind
    <3>4. \A i \in DOMAIN set'.edges : set'.edges[i] \in PlainEdge BY <3>3, SeqElements
    <3> QED BY <3>4 DEF Weights, Bounded, PlainEdge
  <2>3. CASE h.origin # "graphrag"
    BY <2>1, <2>3 DEF Weights
  <2> QED BY <2>2, <2>3
<1>3. CASE \E ctx \in Callers : RedactHandoff(ctx)
  <2>1. handoff.origin = "hybrid" /\ \E ctx : handoff' = RedactForReranker(ctx, handoff)
    BY <1>3 DEF RedactHandoff
  <2>2. handoff \in HybridType
    BY <1>0, <2>1 DEF HandoffKind, ExportType, ResultsType, FromBacklog, NoHandoff
  <2>3. handoff' \in HybridType BY <2>1, <2>2, RedactKind
  <2> QED BY <2>3 DEF HybridType, Weights
<1>4. CASE \E e \in report.suggestions : AddSuggestion(e)
  <2>1. PICK e \in report.suggestions :
           /\ pc = "reported" /\ handoff' = handoff /\ set' = [set EXCEPT !.edges = Append(@, e)]
    BY <1>4 DEF AddSuggestion, Respond
  <2>2. e \in SuggestMissingEdges(set) BY <2>1 DEF ClusterInv, OfTheGraph
  <2>3. e.confidence \in 0..100
    <3>1. e = Edge(e.source, e.target, e.type, ConfidenceOf(e.type)) /\ e.type \in OneWayTypes \cup TwoWayTypes
      BY <1>0, <2>2, SuggestionMade
    <3>2. e.confidence = ConfidenceOf(e.type) BY <3>1 DEF Edge
    <3>3. \A type \in OneWayTypes \cup TwoWayTypes : ConfidenceOf(type) \in 0..100
      BY DEF OneWayTypes, TwoWayTypes, ConfidenceOf
    <3> QED BY <3>1, <3>2, <3>3
  <2>4. set.edges \in Seq(EdgeKind) /\ set'.edges = Append(set.edges, e)
    BY <1>0, <2>1 DEF SetKind
  <2>5. \A i \in DOMAIN set'.edges :
           (i \in DOMAIN set.edges /\ set'.edges[i] = set.edges[i]) \/ set'.edges[i] = e
    BY <2>4
  <2> QED BY <2>1, <2>3, <2>5 DEF Weights, Bounded
<1> QED BY <1>1, <1>2, <1>3, <1>4, GraphSteps DEF Unhanded, vars, ragVars

\* Only the analyzer makes a report.
LEMMA OnlyHygiene ==
    ASSUME Running, RagNext, report' # NoReport
    PROVE  \E degraded \in BOOLEAN : AnalyzeHygiene(degraded)
<1>1. pc' = "reported" BY RunningNext DEF Running
<1>2. ASSUME NEW code, Exit(code) PROVE FALSE BY <1>1, <1>2 DEF Exit
<1>3. ASSUME NEW b, BeginAnalysis(b) PROVE FALSE BY <1>1, <1>3 DEF BeginAnalysis
<1>4. ASSUME CitewiseNext PROVE FALSE
  <2>1. CASE \E c \in Calls : Run(c) \/ RunRefused(c)
    <3>1. PICK c \in Calls : Run(c) \/ RunRefused(c) BY <2>1
    <3>2. CASE Run(c)
      BY <3>2, <1>3 DEF Run
    <3>3. CASE RunRefused(c)
      BY <3>3, <1>2 DEF RunRefused
    <3> QED BY <3>1, <3>2, <3>3
  <2>2. CASE EngineStep
    BY <2>2, <1>1 DEF EngineStep, JoinPair, Analyze
  <2>3. CASE Write
    BY <2>3, <1>2 DEF Write
  <2>4. CASE QueueStep
    <3>1. CASE EndQueue
      BY <3>1, <1>2 DEF EndQueue
    <3> QED BY <2>4, <3>1, <1>1 DEF QueueStep, StartQueue, Take, Skip, First
  <2>5. CASE ReadItem
    BY <2>5, <1>1 DEF ReadItem
  <2> QED BY <1>4, <2>1, <2>2, <2>3, <2>4, <2>5 DEF CitewiseNext, Next
<1>5. ASSUME BuildAnalysis PROVE FALSE
  BY <1>5, <1>2, <1>3 DEF BuildAnalysis
<1>6. ASSUME (\E h \in Handoffs : Receive(h)) \/ (\E ctx \in Callers : RedactHandoff(ctx)) PROVE FALSE
  BY <1>6, <1>1 DEF Receive, RedactHandoff, citewiseVars
<1>7. ASSUME RouteQuery PROVE FALSE
  BY <1>7, <1>1 DEF RouteQuery
<1>8. ASSUME Discard \/ \E e \in report.suggestions : AddSuggestion(e) PROVE FALSE
  <2>1. Respond BY <1>8 DEF Discard, AddSuggestion
  <2> QED BY <2>1, <1>2 DEF Respond
<1> QED BY <1>4, <1>5, <1>6, <1>7, <1>8 DEF RagNext

Reported ==
    report # NoReport =>
      /\ report.orphans \cup report.stale \cup report.bridges \cup report.targets \subseteq IDs(backlog)
      /\ report.score \in 0 .. 100 * Len(set.nodes)
      /\ report.signal \in {"red", "yellow", "green"}

LEMMA SuggestedTargets ==
    ASSUME NEW s \in SetKind, NEW b, IDs(b) = NodeIDs(s.nodes), NEW bridges \in SUBSET IDs(b)
    PROVE  RetrievalTargets(bridges, SuggestMissingEdges(s)) \subseteq IDs(b)
<1>1. \A e \in SuggestMissingEdges(s) : e.source \in IDs(b) /\ e.target \in IDs(b)
  BY SuggestionKind DEF NodeIDs
<1> QED BY <1>1 DEF RetrievalTargets

LEMMA ReportedNext == ClusterInv /\ PathsInv /\ Running /\ Reported /\ [RagNext]_vars => Reported'
<1> SUFFICES ASSUME ClusterInv, PathsInv, Running, Reported, [RagNext]_vars, report' # NoReport
             PROVE  Reported'
  BY DEF Reported
<1>1. CASE \E degraded \in BOOLEAN : AnalyzeHygiene(degraded)
  <2> DEFINE bridges == BridgesMissing(backlog, set, roles)
             orphans == OrphanNodes(backlog, set)
             stale == StaleNodes(backlog, set, roles)
             suggestions == SuggestMissingEdges(set)
             score == WeightedScore(backlog, set, roles, clusters)
             ids == IDs(backlog)
  <2>1. PICK degraded \in BOOLEAN, signal \in SignalsOf(score, Len(set.nodes)) :
           report' = [clusters |-> clusters, orphans |-> orphans, stale |-> stale,
                      bridges |-> bridges, suggestions |-> suggestions, score |-> score,
                      signal |-> signal,
                      targets |-> IF signal = "red" /\ ~degraded
                                  THEN RetrievalTargets(bridges, suggestions) ELSE {}]
    BY <1>1 DEF AnalyzeHygiene
  <2>2. pc = "routed" /\ backlog' = backlog /\ set' = set BY <1>1 DEF AnalyzeHygiene, engineVars
  <2>3. set \in SetKind /\ ids = NodeIDs(set.nodes)
    BY <2>2, BuiltKind DEF ClusterInv, Shape, OfTheGraph
  <2>4. UNION clusters \subseteq ids
    <3>1. clusters = Clusters(parent) /\ DOMAIN parent = ids
      BY <2>2 DEF PathsInv, ClusterInv, Joining
    <3> QED BY <3>1, GroupsAre DEF Clusters
  <2>5. orphans \cup stale \cup bridges \subseteq ids /\ score \in 0 .. 100 * Len(set.nodes)
    BY <2>3, <2>4, ScoreIs
  <2>6. RetrievalTargets(bridges, suggestions) \subseteq ids
    BY <2>3, <2>5, SuggestedTargets
  <2>7. signal \in {"red", "yellow", "green"} BY DEF SignalsOf
  <2>8. IDs(backlog)' = ids BY <2>2
  <2> HIDE DEF bridges, orphans, stale, suggestions, score, ids
  <2>9. /\ report'.orphans = orphans /\ report'.stale = stale /\ report'.bridges = bridges
        /\ report'.score = score /\ report'.signal = signal /\ report'.targets \subseteq ids
    BY <2>1, <2>6
  <2> QED BY <2>2, <2>5, <2>7, <2>8, <2>9 DEF Reported
<1>2. CASE UNCHANGED vars
  BY <1>2 DEF vars, citewiseVars, engineVars, ragVars, responseVars, Reported, IDs
<1> QED BY <1>1, <1>2, OnlyHygiene

TypeInv == Running /\ Analysed /\ Weights /\ Reported

LEMMA TypeInvAlways == RagSpec => []TypeInv
<1>1. RagInit => TypeInv
  <2> SUFFICES ASSUME RagInit PROVE TypeInv
    OBVIOUS
  <2>1. pc = "idle" /\ handoff = NoHandoff /\ report = NoReport BY DEF RagInit, Init
  <2> QED BY <2>1, RunningInit DEF TypeInv, Analysed, Weights, Reported, NoHandoff
<1>2. ClusterInv /\ PathsInv /\ TypeInv /\ [RagNext]_vars => TypeInv'
  BY RunningNext, AnalysedNext, WeightsNext, ReportedNext DEF TypeInv
<1> QED BY <1>1, <1>2, ClusterInvAlways, PathsInvAlways, PTL DEF RagSpec

\* Everything has its type: every item of an analysis has one of the seven roles and a
\* score between 0 and 100 (pkg/citewise/engine.go, Analyze), a GraphRAG weight is
\* within bounds once it is mapped, and a hygiene report names no item but the graph's own
\* and stays within its scale (pkg/hygiene/hygiene.go, Analyze).
THEOREM EverythingTyped == RagSpec => []RagTypeOK
<1>1. ClusterInv /\ QueueInv /\ TypeInv => RagTypeOK
  <2> SUFFICES ASSUME ClusterInv, QueueInv, TypeInv PROVE RagTypeOK
    OBVIOUS
  <2>1. DOMAIN parent = IDs(backlog) /\ \A id \in IDs(backlog) : parent[id] \in IDs(backlog)
    BY DEF ClusterInv, Joining, Parents
  <2>2. waiting \subseteq IDs(backlog) /\ queue.skipped \subseteq IDs(backlog)
    <3>1. CASE pc = "queue"
      <4>1. queue.skipped \cup waiting \subseteq Unread(backlog)
        BY <3>1 DEF QueueInv, EveryCandidateOnce
      <4> QED BY <4>1 DEF Unread
    <3>2. CASE pc # "queue"
      BY <3>2 DEF TypeInv, Running
    <3> QED BY <3>1, <3>2
  <2> QED BY <2>1, <2>2 DEF RagTypeOK, TypeInv, Running, Analysed, Weights, Bounded, Reported, Places
<1> QED BY <1>1, ClusterInvAlways, QueueInvAlways, TypeInvAlways, PTL

-----------------------------------------------------------------------------
(* Reading an item, and what it does to roles and scores.                  *)

SameItem(x, y) ==
    /\ x.id = y.id /\ x.title = y.title /\ x.minutes = y.minutes /\ x.difficulty = y.difficulty
    /\ x.year = y.year /\ x.topics = y.topics /\ x.typeCues = y.typeCues /\ x.textCues = y.textCues
    /\ x.hint = y.hint /\ x.hits = y.hits /\ x.energy = y.energy /\ x.recs = y.recs

\* Two backlogs that differ in what was read and in nothing else.
Alike(b, c) ==
    /\ b.edges = c.edges /\ b.goal = c.goal /\ DOMAIN b.items = DOMAIN c.items
    /\ \A i \in DOMAIN b.items : SameItem(b.items[i], c.items[i])

LEMMA AlikeParts ==
    ASSUME NEW b, NEW c, Alike(b, c)
    PROVE  /\ IDs(b) = IDs(c)
           /\ \A id : In(b, id) = In(c, id) /\ Out(b, id) = Out(c, id)
           /\ \A id \in IDs(b) : SameItem(Item(b, id), Item(c, id))
<1>1. \A i \in DOMAIN b.items : b.items[i].id = c.items[i].id BY DEF Alike, SameItem
<1>2. IDs(b) = IDs(c) BY <1>1 DEF Alike, IDs
<1>3. \A id : In(b, id) = In(c, id) /\ Out(b, id) = Out(c, id) BY <1>2 DEF Alike, In, Out
<1>4. ASSUME NEW id \in IDs(b) PROVE SameItem(Item(b, id), Item(c, id))
  <2> DEFINE here(i) == i \in DOMAIN b.items /\ b.items[i].id = id
             there(i) == i \in DOMAIN c.items /\ c.items[i].id = id
             i == CHOOSE k : here(k)
  <2>1. \A k : here(k) <=> there(k) BY <1>1 DEF Alike
  <2>2. (CHOOSE k : here(k)) = (CHOOSE k : there(k)) BY <2>1, Zenon
  <2>3. Item(b, id) = b.items[CHOOSE k : here(k)] BY Zenon DEF Item
  <2>4. Item(c, id) = c.items[CHOOSE k : there(k)] BY Zenon DEF Item
  <2>5. \E k : here(k) BY DEF IDs
  <2>6. here(i) BY <2>5
  <2> HIDE DEF i
  <2>7. Item(b, id) = b.items[i] /\ Item(c, id) = c.items[i] BY <2>2, <2>3, <2>4 DEF i
  <2> QED BY <2>6, <2>7 DEF Alike
<1> QED BY <1>2, <1>3, <1>4

LEMMA AlikeGraph ==
    ASSUME NEW b, NEW c, Alike(b, c)
    PROVE  /\ \A id : Centrality(b, id) = Centrality(c, id) /\ Degree(b, id) = Degree(c, id)
           /\ \A id : Neighbours(b, id) = Neighbours(c, id) /\ Neighbours(b, id) \subseteq IDs(b)
           /\ \A id, types : InOfType(b, id, types) = InOfType(c, id, types)
           /\ \A id, type : OfType(b, id, type) = OfType(c, id, type)
<1>1. /\ IDs(b) = IDs(c) /\ b.edges = c.edges
      /\ \A id : In(b, id) = In(c, id) /\ Out(b, id) = Out(c, id)
  BY AlikeParts DEF Alike
<1>2. \A S : WeightOf(b, S) = WeightOf(c, S) BY <1>1 DEF WeightOf
<1>3. \A id : RawCentrality(b, id) = RawCentrality(c, id) BY <1>1, <1>2 DEF RawCentrality
<1>4. {RawCentrality(b, x) : x \in IDs(b)} = {RawCentrality(c, x) : x \in IDs(c)} BY <1>1, <1>3
<1>5. ASSUME NEW id PROVE Centrality(b, id) = Centrality(c, id)
  <2> DEFINE S == {RawCentrality(b, x) : x \in IDs(b)}
             T == {RawCentrality(c, x) : x \in IDs(c)}
  <2>1. /\ Centrality(b, id) = IF Max({0} \cup S) = 0 THEN 0
                               ELSE Clamp((10000 * RawCentrality(b, id)) \div Max({0} \cup S))
        /\ Centrality(c, id) = IF Max({0} \cup T) = 0 THEN 0
                               ELSE Clamp((10000 * RawCentrality(c, id)) \div Max({0} \cup T))
    BY DEF Centrality
  <2>2. S = T BY <1>4
  <2> HIDE DEF S, T
  <2> QED BY <1>3, <2>1, <2>2
<1>6. \A id : Neighbours(b, id) = Neighbours(c, id) BY <1>1 DEF Neighbours
<1>7. \A id : Neighbours(b, id) \subseteq IDs(b) BY DEF Neighbours, In, Out, Other
<1> QED BY <1>1, <1>5, <1>6, <1>7 DEF Degree, InOfType, OfType

LEMMA AlikeRoles ==
    ASSUME NEW b, NEW c, Alike(b, c), b.items \in Seq(ItemKind)
    PROVE  Joined(b) = Joined(c) /\ RolesOf(b) = RolesOf(c)
<1>1. /\ IDs(b) = IDs(c) /\ b.edges = c.edges /\ b.goal = c.goal /\ DOMAIN b.items = DOMAIN c.items
      /\ \A i \in DOMAIN b.items : b.items[i].id = c.items[i].id /\ b.items[i].title = c.items[i].title
      /\ \A id \in IDs(b) : SameItem(Item(b, id), Item(c, id))
  BY AlikeParts DEF Alike, SameItem
<1>2. DuplicateEdges(b) = DuplicateEdges(c) BY <1>1 DEF DuplicateEdges
<1>3. SimilarPlaces(b) = SimilarPlaces(c) BY <1>1 DEF SimilarPlaces
<1>4. DuplicatePairs(b) = DuplicatePairs(c)
  <2> DEFINE edges == DuplicateEdges(b)
             similar == SimilarPlaces(b)
             linked == [i \in DOMAIN edges |-> <<edges[i].source, edges[i].target>>]
             alike(d) == [i \in DOMAIN similar |-> <<d.items[similar[i][1]].id, d.items[similar[i][2]].id>>]
  <2>1. DuplicatePairs(b) = linked \o alike(b) BY DEF DuplicatePairs
  <2>2. DuplicatePairs(c) = linked \o alike(c) BY <1>2, <1>3, Zenon DEF DuplicatePairs
  <2>3. \A i \in DOMAIN similar : similar[i] \in (DOMAIN b.items) \X (DOMAIN b.items)
    BY PlacesKind, SeqElements
  <2> HIDE DEF similar
  <2>4. alike(b) = alike(c) BY <1>1, <2>3
  <2> HIDE DEF alike, linked
  <2> QED BY <2>1, <2>2, <2>4
<1>5. Joined(b) = Joined(c) BY <1>1, <1>4 DEF Joined
<1>6. ASSUME NEW found, NEW id \in IDs(b) PROVE Classify(b, found, id) = Classify(c, found, id)
  <2> DEFINE x == Item(b, id)
             y == Item(c, id)
  <2>1. SameItem(x, y) BY <1>1
  <2>2. FoundationScore(b, id) = FoundationScore(c, id)
    <3> DEFINE incoming(d) == Cardinality(InOfType(d, id, {"prerequisite"}))
                              + Cardinality(InOfType(d, id, {"prerequisite", "cites"}))
               age(it) == IF it.year > 0 /\ Age(it) >= 5 THEN 2000 ELSE 0
               cue(it) == IF {"foundation", "classic"} \cap (it.typeCues \cup Text(it)) # {}
                          THEN 2500 ELSE 0
               score(d, it) == Clamp((55 * Centrality(d, id)) \div 100
                                     + (3500 * Min({3, incoming(d)})) \div 3 + age(it) + cue(it))
    <3>1. FoundationScore(b, id) = score(b, x) /\ FoundationScore(c, id) = score(c, y)
      BY DEF FoundationScore
    <3>2. incoming(b) = incoming(c) /\ Centrality(b, id) = Centrality(c, id)
      BY AlikeGraph
    <3> HIDE DEF x, y
    <3>3. age(x) = age(y) BY <2>1 DEF SameItem, Age
    <3>4. cue(x) = cue(y) BY <2>1 DEF SameItem, Text
    <3> HIDE DEF incoming, age, cue
    <3> QED BY <3>1, <3>2, <3>3, <3>4
  <2>3. BridgeScore(b, id) = BridgeScore(c, id)
    <3> DEFINE own(d) == Item(d, id).topics
               near(d) == UNION {Item(d, n).topics : n \in Neighbours(d, id)}
               score(d) == Clamp((10000 * (Cardinality(own(d)) + Cardinality(near(d)))
                                        * Min({3, Degree(d, id)})) \div 18)
    <3>1. BridgeScore(b, id) = score(b) /\ BridgeScore(c, id) = score(c)
      BY DEF BridgeScore
    <3>2. Degree(b, id) = Degree(c, id) BY AlikeGraph
    <3>3. own(b) = own(c) BY <2>1 DEF SameItem
    <3>4. Neighbours(b, id) = Neighbours(c, id) /\ Neighbours(b, id) \subseteq IDs(b) BY AlikeGraph
    <3>5. \A n \in Neighbours(b, id) : Item(b, n).topics = Item(c, n).topics
      BY <1>1, <3>4 DEF SameItem
    <3>6. near(b) = near(c) BY <3>4, <3>5
    <3> HIDE DEF own, near
    <3> QED BY <3>1, <3>2, <3>3, <3>6
  <2>4. GoalFit(x, b.goal) = GoalFit(y, c.goal) BY <1>1, <2>1 DEF GoalFit, SameItem
  <2>5. Text(x) = Text(y) /\ (IsOverview(x) <=> IsOverview(y)) /\ (IsStaleHype(x) <=> IsStaleHype(y))
    BY <2>1 DEF SameItem, Text, IsOverview, IsStaleHype, Age
  <2> HIDE DEF x, y
  <2> QED BY <2>2, <2>3, <2>4, <2>5, AlikeGraph DEF Classify, x, y
<1> QED BY <1>1, <1>5, <1>6 DEF RolesOf

\* The prerequisites that are not read are fewer, and nothing else in a score moves.
LEMMA AlikeTotals ==
    ASSUME NEW b, Filed(b), NEW c, Filed(c), Alike(b, c), NEW r, NEW found, NEW id \in IDs(b),
           Missing(c, id) \subseteq Missing(b, id)
    PROVE  Total(c, r, found, id) >= Total(b, r, found, id)
<1> DEFINE x == Item(b, id)
           y == Item(c, id)
<1>1. /\ IDs(b) = IDs(c) /\ b.edges = c.edges /\ b.goal = c.goal /\ In(b, id) = In(c, id)
      /\ SameItem(x, y) /\ Centrality(b, id) = Centrality(c, id)
  BY AlikeParts, AlikeGraph DEF Alike
<1>2. Readiness(c, id) >= Readiness(b, id)
  <2> DEFINE familiarity == IF b.goal.familiarity = 0 THEN 3 ELSE b.goal.familiarity
             fit(it) == 10000 - 2000 * Gap(it.difficulty, familiarity)
             n == Cardinality({i \in In(b, id) : b.edges[i].type = "prerequisite"})
             before == Cardinality(Missing(b, id))
             after == Cardinality(Missing(c, id))
             met(m) == IF n = 0 THEN 10000 ELSE 10000 - (10000 * m) \div n
  <2>1. /\ Readiness(b, id) = Clamp((60 * fit(x) + 40 * met(before)) \div 100)
        /\ Readiness(c, id) = Clamp((60 * fit(y) + 40 * met(after)) \div 100)
    BY <1>1 DEF Readiness
  <2>2. fit(x) = fit(y)
    BY <1>1 DEF SameItem
  <2>3. fit(x) \in Int
    <3>1. x \in ItemKind /\ b.goal \in GoalKind BY ItemIs DEF Filed
    <3>2. x.difficulty \in Int /\ familiarity \in Int BY <3>1 DEF GoalKind, ItemKind
    <3> HIDE DEF x, familiarity
    <3> QED BY <3>2 DEF Gap
  <2>4. n \in Nat /\ before \in Nat /\ after \in Nat /\ after <= before
    <3>1. Missing(b, id) \subseteq DOMAIN b.edges BY DEF Missing, In
    <3>2. IsFiniteSet(Missing(b, id)) BY <3>1, EdgesAre
    <3>3. {i \in In(b, id) : b.edges[i].type = "prerequisite"} \subseteq DOMAIN b.edges BY DEF In
    <3>4. n \in Nat BY <3>3, EdgesAre
    <3> QED BY <3>2, <3>4, FS_Subset, FS_CardinalityType
  <2> HIDE DEF n, before, after
  <2>5. met(before) \in Int /\ met(after) \in Int /\ met(after) >= met(before)
    <3>1. \A k, l \in Nat, m \in Nat \ {0} : k <= l => (10000 * k) \div m <= (10000 * l) \div m
      OBVIOUS
    <3>2. \A k \in Nat, m \in Nat \ {0} : (10000 * k) \div m \in Int OBVIOUS
    <3> QED BY <2>4, <3>1, <3>2
  <2> HIDE DEF fit, met
  <2>6. \A f, u, v \in Int : u <= v => (60 * f + 40 * u) \div 100 <= (60 * f + 40 * v) \div 100
    OBVIOUS
  <2>7. \A u, v \in Int : u <= v => Clamp(u) <= Clamp(v) BY DEF Clamp
  <2>8. \A f, u \in Int : (60 * f + 40 * u) \div 100 \in Int OBVIOUS
  <2> QED BY <2>1, <2>2, <2>3, <2>5, <2>6, <2>7, <2>8
<1>3. /\ x \in ItemKind /\ b.goal \in GoalKind
      /\ Readiness(b, id) \in Points /\ Readiness(c, id) \in Points /\ Centrality(b, id) \in Points
  BY <1>1, ItemIs, ReadinessIs, CentralityIs DEF Filed
<1>4. /\ GoalFit(x, b.goal) \in Points /\ EnergyTimeFit(x, b.goal) \in Points /\ Freshness(x) \in Int
      /\ RedundancyPenalty(id, r, found) \in Int
  BY <1>3, GoalFitIs, FitIs, FreshnessIs DEF RedundancyPenalty
<1>5. GoalFit(y, c.goal) = GoalFit(x, b.goal)
  <2> HIDE DEF x, y
  <2> QED BY <1>1 DEF SameItem, GoalFit
<1>6. EnergyTimeFit(y, c.goal) = EnergyTimeFit(x, b.goal)
  <2> HIDE DEF x, y
  <2> QED BY <1>1 DEF SameItem, EnergyTimeFit
<1>7. Freshness(y) = Freshness(x)
  <2> HIDE DEF x, y
  <2> QED BY <1>1 DEF SameItem, Freshness, Age
<1> DEFINE sum(ready) == 30 * GoalFit(x, b.goal) + 20 * Centrality(b, id) + 18 * ready
                         + 12 * Freshness(x) + 20 * EnergyTimeFit(x, b.goal)
                         - 22 * RedundancyPenalty(id, r, found)
<1>8. /\ Total(b, r, found, id) = (Clamp(sum(Readiness(b, id)) \div 100) + 5) \div 10
      /\ Total(c, r, found, id) = (Clamp(sum(Readiness(c, id)) \div 100) + 5) \div 10
  <2> HIDE DEF x, y
  <2>1. Total(b, r, found, id) = (Clamp(sum(Readiness(b, id)) \div 100) + 5) \div 10
    BY DEF Total, x
  <2>2. Total(c, r, found, id)
          = (Clamp((30 * GoalFit(y, c.goal) + 20 * Centrality(c, id) + 18 * Readiness(c, id)
                    + 12 * Freshness(y) + 20 * EnergyTimeFit(y, c.goal)
                    - 22 * RedundancyPenalty(id, r, found)) \div 100) + 5) \div 10
    BY DEF Total, y
  <2> QED BY <1>1, <1>5, <1>6, <1>7, <2>1, <2>2
<1>9. \A u, v \in Int : u <= v => sum(u) \in Int /\ sum(v) \in Int /\ sum(u) <= sum(v)
  <2>1. /\ GoalFit(x, b.goal) \in Int /\ EnergyTimeFit(x, b.goal) \in Int /\ Centrality(b, id) \in Int
    BY <1>3, <1>4, ClampIs
  <2> QED BY <1>4, <2>1
<1> HIDE DEF sum
<1>10. \A u, v \in Int : u <= v => u \div 100 <= v \div 100 /\ u \div 100 \in Int /\ v \div 100 \in Int
  OBVIOUS
<1>11. \A u, v \in Int : u <= v => (Clamp(u) + 5) \div 10 <= (Clamp(v) + 5) \div 10
  <2>1. \A u, v \in Int : u <= v => Clamp(u) <= Clamp(v) /\ Clamp(u) \in Int /\ Clamp(v) \in Int
    BY DEF Clamp
  <2>2. \A u, v \in Int : u <= v => (u + 5) \div 10 <= (v + 5) \div 10 OBVIOUS
  <2> QED BY <2>1, <2>2
<1>12. Readiness(b, id) \in Int /\ Readiness(c, id) \in Int BY <1>3, ClampIs
<1>13. sum(Readiness(b, id)) \in Int /\ sum(Readiness(c, id)) \in Int
       /\ sum(Readiness(b, id)) <= sum(Readiness(c, id))
  BY <1>2, <1>9, <1>12
<1>14. (Clamp(sum(Readiness(b, id)) \div 100) + 5) \div 10
         <= (Clamp(sum(Readiness(c, id)) \div 100) + 5) \div 10
  BY <1>10, <1>11, <1>13
<1>15. Total(b, r, found, id) \in Int /\ Total(c, r, found, id) \in Int
  <2>1. id \in IDs(c) BY <1>1
  <2> QED BY <2>1, TotalIs
<1> QED BY <1>8, <1>14, <1>15

LEMMA ReadAlike ==
    ASSUME NEW p \in ParsedKind, NEW i \in DOMAIN p.items, NEW q, q = [p EXCEPT !.items[i].status = "read"]
    PROVE  /\ Filed(p) /\ Filed(q) /\ q.ok = p.ok
           /\ Alike(p, q)
           /\ \A id \in IDs(p) : Item(p, id).status = "read" => Item(q, id).status = "read"
<1> DEFINE one == [p.items[i] EXCEPT !.status = "read"]
<1>1. /\ p.items \in Seq(ItemKind) /\ p.edges \in Seq(EdgeKind) /\ p.goal \in GoalKind
      /\ q.edges = p.edges /\ q.goal = p.goal /\ q.ok = p.ok
      /\ q.items = [p.items EXCEPT ![i] = one]
  BY DEF ParsedKind
<1>2. /\ Len(p.items) \in Nat /\ DOMAIN p.items = 1..Len(p.items)
      /\ \A j \in DOMAIN p.items : p.items[j] \in ItemKind
  BY <1>1
<1>3. one \in ItemKind /\ SameItem(p.items[i], one) /\ one.status = "read"
  <2>1. "read" \in Names BY DEF Names
  <2>2. p.items[i] \in ItemKind BY <1>2
  <2> QED BY <2>1, <2>2 DEF ItemKind, SameItem
<1> HIDE DEF one
<1>4. /\ DOMAIN q.items = DOMAIN p.items
      /\ \A j \in DOMAIN p.items : q.items[j] = IF j = i THEN one ELSE p.items[j]
      /\ q.items = [j \in 1..Len(p.items) |-> q.items[j]]
  BY <1>1, <1>2
<1>5. \A j \in 1..Len(p.items) : q.items[j] \in ItemKind BY <1>2, <1>3, <1>4
<1>6. q.items \in Seq(ItemKind) BY <1>2, <1>4, <1>5, MadeSeq
<1>7. Alike(p, q)
  <2>1. \A j \in DOMAIN p.items : SameItem(p.items[j], q.items[j]) BY <1>3, <1>4 DEF SameItem
  <2> QED BY <1>1, <1>4, <2>1 DEF Alike
<1>8. ASSUME NEW id \in IDs(p), Item(p, id).status = "read" PROVE Item(q, id).status = "read"
  <2>1. \A j \in DOMAIN p.items : p.items[j].id = q.items[j].id BY <1>7 DEF Alike, SameItem
  <2> DEFINE here(j) == j \in DOMAIN p.items /\ p.items[j].id = id
             there(j) == j \in DOMAIN q.items /\ q.items[j].id = id
             k == CHOOSE j : here(j)
  <2>2. \A j : here(j) <=> there(j) BY <1>4, <2>1
  <2>3. (CHOOSE j : here(j)) = (CHOOSE j : there(j)) BY <2>2, Zenon
  <2>4. Item(p, id) = p.items[CHOOSE j : here(j)] BY Zenon DEF Item
  <2>5. Item(q, id) = q.items[CHOOSE j : there(j)] BY Zenon DEF Item
  <2>6. \E j : here(j) BY DEF IDs
  <2>7. here(k) BY <2>6
  <2> HIDE DEF k
  <2>8. Item(p, id) = p.items[k] /\ Item(q, id) = q.items[k] BY <2>3, <2>4, <2>5 DEF k
  <2> QED BY <1>3, <1>4, <1>8, <2>7, <2>8
<1> QED BY <1>1, <1>6, <1>7, <1>8 DEF Filed

\* Reading an item costs no item its role and none a part of its score
\* (pkg/citewise/engine.go, Analyze and readiness), whatever the backlog.
THEOREM ReadingIsHarmless == RagSpec => ReadingNeverHurts
<1> DEFINE before == ParseBacklog(file)
           after == ParseBacklog(file')
           Step == reads' # reads =>
                     /\ after.ok
                     /\ RolesOf(after) = RolesOf(before)
                     /\ \A id \in IDs(before) : TotalOf(after, id) >= TotalOf(before, id)
<1>1. ClusterInv /\ [RagNext]_vars => [Step]_citewiseVars
  <2> SUFFICES ASSUME ClusterInv, [RagNext]_vars, reads' # reads
               PROVE  /\ after.ok
                      /\ RolesOf(after) = RolesOf(before)
                      /\ \A id \in IDs(before) : TotalOf(after, id) >= TotalOf(before, id)
    OBVIOUS
  <2>1. file \in FileKind BY DEF ClusterInv, Shape
  <2>2. ReadItem
    <3>1. RagNext BY DEF vars, citewiseVars
    <3>2. reads' = reads \/ ReadItem
      BY <3>1 DEF RagNext, CitewiseNext, Next, Run, RunRefused, EngineStep, JoinPair, Analyze, Write,
                  QueueStep, StartQueue, Take, Skip, EndQueue, Receive, RedactHandoff, BuildAnalysis,
                  RouteQuery, AnalyzeHygiene, Discard, AddSuggestion, Respond, citewiseVars
    <3> QED BY <3>2
  <2>3. PICK i \in DOMAIN before.items :
           before.ok /\ after = [before EXCEPT !.items[i].status = "read"]
    BY <2>1, <2>2, ReadParsed
  <2>4. before \in ParsedKind BY <2>1, ParseKind
  <2> HIDE DEF before, after
  <2>5. /\ Filed(before) /\ Filed(after) /\ after.ok /\ Alike(before, after)
        /\ \A id \in IDs(before) : Item(before, id).status = "read" => Item(after, id).status = "read"
    BY <2>3, <2>4, ReadAlike
  <2>6. Joined(before) = Joined(after) /\ RolesOf(before) = RolesOf(after)
    BY <2>5, AlikeRoles DEF Filed
  <2>7. /\ IDs(before) = IDs(after) /\ before.edges = after.edges
        /\ \A id : In(before, id) = In(after, id)
    BY <2>5, AlikeParts DEF Alike
  <2>8. ASSUME NEW id \in IDs(before) PROVE TotalOf(after, id) >= TotalOf(before, id)
    <3>1. \A e \in In(before, id) : before.edges[e].source \in IDs(before) BY DEF In
    <3>2. Missing(after, id) \subseteq Missing(before, id) BY <2>5, <2>7, <3>1 DEF Missing
    <3> QED BY <2>5, <2>6, <3>2, AlikeTotals DEF TotalOf
  <2> QED BY <2>5, <2>6, <2>8
<1>2. ReadingNeverHurts <=> [][Step]_citewiseVars BY Zenon DEF ReadingNeverHurts
<1> QED BY <1>1, <1>2, ClusterInvAlways, PTL DEF RagSpec
=============================================================================
