------------------------------ MODULE PlanReuse ------------------------------
(***************************************************************************)
(* Reading prior plans back out of memory.FileStore: every plan is gated   *)
(* again for the store's current caller (pkg/memory/redact.go), and may be *)
(* reused only if it is still current and still permitted (SimilarPrior-   *)
(* Plans, ReuseRejection).  Between two calls the host may replace the     *)
(* store's Caller and its CurrentNodes.  FileStore.tla models the file;    *)
(* here the stored records are a sequence.                                 *)
(*                                                                         *)
(* A plan's slots are a Go slice: regate filters it in place, so the plan  *)
(* its caller still holds is overwritten.                                  *)
(***************************************************************************)
EXTENDS AccessGate, Ordering, SequencesExt

CONSTANTS
    Nodes,       \* node IDs
    Topic,       \* [Nodes -> topic]: the node's community, "" for none
    FirstNode,   \* [Nodes -> node]: the nodes as the host first knows them
    Contexts,    \* access contexts a caller may have
    Packings,    \* what is stored: [session, query, type, nodes], nodes a sequence
    Queries,     \* query IDs, numbers as they are only compared; 0 is the empty one
    Types,       \* query types
    Requests,    \* the sets of topics a caller asks for
    Limits,      \* limits of SimilarPriorPlans; 0 is none
    MaxStored,   \* bound on the stored records
    MaxChanges   \* bound on the changes of the host's data

\* What CurrentNodes holds of a node: the fields the reuse policy and the gate read.
NodeInfo ==
    [version : Nat, superseded : BOOLEAN, tenant : STRING, sensitivity : Sensitivities,
     approvedBy : SUBSET STRING, chunk : ChunkTypes]

ASSUME ReuseAssumption ==
    /\ FirstNode \in [Nodes -> NodeInfo]
    /\ Packings \subseteq
         [session : Queries, query : Queries, type : Types, nodes : Seq(Nodes)]
    /\ Queries \subseteq Nat /\ Limits \subseteq Int
    /\ MaxStored \in Nat /\ MaxChanges \in Nat

Verdicts ==
    {"pending", "none", "query-type", "topic-mismatch", "version-mismatch",
     "superseded", "access-control"}

VARIABLES
    stored,     \* the records of the file, oldest first
    caller,     \* FileStore.Caller
    current,    \* FileStore.CurrentNodes; its domain is the nodes it holds
    returned,   \* the plans the last read returned, as its caller holds them
    verdict,    \* the answer of the last ReuseRejection
    offer,      \* history: the topics returned was offered for, while nothing changed
    changes     \* changes of the host's data so far

vars == <<stored, caller, current, returned, verdict, offer, changes>>

NoOffer == {"no offer"}

Init ==
    /\ stored = <<>>
    /\ caller \in Contexts
    /\ current = FirstNode
    /\ returned = <<>>
    /\ verdict = "pending"
    /\ offer = NoOffer
    /\ changes = 0

\* Mutant of NodesOf: the evidence path names the slots' communities.
CommunitiesOf(slots) == [i \in DOMAIN slots |-> slots[i].topic]
NodesOf(slots) == [i \in DOMAIN slots |-> slots[i].node]
TopicsOf(slots) == {slots[i].topic : i \in DOMAIN slots} \ {""}

-----------------------------------------------------------------------------
(* regate: a slot of a node that CurrentNodes does not hold is kept.       *)

Denied(node) ==
    /\ node \in DOMAIN current
    /\ ~CanSeeNode(caller, current[node])

Kept(slots) == {i \in DOMAIN slots : ~Denied(slots[i].node)}

Filtered(slots) == Cut(slots, Kept(slots))

\* Mutant of Regate: the evidence path is not rebuilt.
RegateSlots(p) ==
    [p EXCEPT !.slots = Filtered(p.slots),
              !.suppressed = @ \cup {n \in ToSet(NodesOf(p.slots)) : Denied(n)}]

Regate(p) ==
    [p EXCEPT !.slots = Filtered(p.slots),
              !.path = NodesOf(Filtered(p.slots)),
              !.suppressed = @ \cup {n \in ToSet(NodesOf(p.slots)) : Denied(n)}]

\* Mutant of Overwritten: what is cut changes places with what is kept.
OverwrittenSwapped(slots) == Filtered(slots) \o Cut(slots, DOMAIN slots \ Kept(slots))

\* Mutant of Overwritten: the write index lags one behind the read index.
OverwrittenLate(slots) ==
    [k \in 1..Len(slots) |->
        IF k \in 2..Cardinality(Kept(slots)) THEN Filtered(slots)[k - 1] ELSE slots[k]]

\* What regate leaves in the array it was given; the length is the holder's own.
Overwritten(slots) ==
    [k \in 1..Len(slots) |->
        IF k <= Cardinality(Kept(slots)) THEN Filtered(slots)[k] ELSE slots[k]]

-----------------------------------------------------------------------------
(* The reuse policy.                                                       *)

\* TopicJaccard(a, b) >= 0.70, and the order of two similarities.
Union(a, b)   == IF a \cup b = {} THEN 1 ELSE Cardinality(a \cup b)
Common(a, b)  == IF a \cup b = {} THEN 1 ELSE Cardinality(a \cap b)
Similar(a, b) == 10 * Common(a, b) >= 7 * Union(a, b)
Closer(a, b, to) == Common(a, to) * Union(b, to) > Common(b, to) * Union(a, to)

CompatibleQueryType(prior, requested) ==
    prior = requested \/ (prior = "Factual" /\ requested = "Agentic")

\* The node versions are compared in map order: any stale one may be reported.
StaleReasons(p) ==
    {IF current[p.slots[i].node].version # p.slots[i].version
     THEN "version-mismatch" ELSE "superseded" :
        i \in {j \in DOMAIN p.slots :
                 /\ p.slots[j].node \in DOMAIN current
                 /\ \/ current[p.slots[j].node].version # p.slots[j].version
                    \/ current[p.slots[j].node].superseded}}

\* The checks before the access check, which alone calls regate.
PolicyReasons(p, topics, type) ==
    IF ~CompatibleQueryType(p.type, type) THEN {"query-type"}
    ELSE IF ~Similar(topics, TopicsOf(p.slots)) THEN {"topic-mismatch"}
    ELSE StaleReasons(p)

AllKept(p) == Cardinality(Kept(p.slots)) = Len(p.slots)

Rejections(p, topics, type) ==
    IF PolicyReasons(p, topics, type) # {} THEN PolicyReasons(p, topics, type)
    ELSE IF ~AllKept(p) THEN {"access-control"} ELSE {}

-----------------------------------------------------------------------------
(* The calls.                                                              *)

SlotOf(n) == [node |-> n, version |-> current[n].version, topic |-> Topic[n]]

\* Where a plan is filed: under the ID of the call or, if that is empty, its own; a plan
\* without an ID gets the one it is filed under.
SessionOf(p) == IF p.session = 0 THEN p.query ELSE p.session
QueryOf(p)   == IF p.query = 0 THEN SessionOf(p) ELSE p.query

\* The record of a plan packed for the current caller; of its suppressed nodes only those
\* are modelled that regate adds.
RecordOf(p) ==
    LET slots == [i \in 1..Len(p.nodes) |-> SlotOf(p.nodes[i])]
        plan == [query |-> QueryOf(p), type |-> p.type, slots |-> slots,
                 path |-> p.nodes, suppressed |-> {}]
    IN  [session |-> SessionOf(p), topics |-> TopicsOf(slots), plan |-> plan]

StoreContextPlan ==
    /\ Len(stored) < MaxStored
    /\ \E p \in Packings :
         /\ \A n \in ToSet(p.nodes) : n \in DOMAIN current /\ ~Denied(n)
         /\ stored' = Append(stored, RecordOf(p))
    /\ UNCHANGED <<caller, current, returned, verdict, offer, changes>>

\* A read parses the file again: what it returns shares nothing with older plans.
Return(plans, topics) ==
    /\ returned' = plans
    /\ offer' = topics
    /\ verdict' = "pending"
    /\ UNCHANGED <<stored, caller, current, changes>>

OfSession(s) == Cut(stored, {i \in DOMAIN stored : stored[i].session = s})

LoadPriorPlan(s) ==
    LET found == OfSession(s)
    IN  Return(IF Len(found) = 0 THEN <<>> ELSE <<Regate(found[Len(found)].plan)>>, NoOffer)

Load(s) ==
    Return([i \in 1..Len(OfSession(s)) |-> Regate(OfSession(s)[i].plan)], NoOffer)

\* Mutant of Reusable: similar plans are offered without asking ReuseRejection.
SimilarOnly(topics) == {i \in DOMAIN stored : Similar(topics, stored[i].topics)}

\* The reusable records are ranked by similarity, then query ID, then age.
Reusable(topics) ==
    {i \in DOMAIN stored :
        /\ Similar(topics, stored[i].topics)
        /\ Rejections(Regate(stored[i].plan), topics, stored[i].plan.type) = {}}

Ahead(i, j, topics) ==
    LET a == stored[i] b == stored[j]
    IN  \/ Closer(a.topics, b.topics, topics)
        \/ /\ ~Closer(b.topics, a.topics, topics)
           /\ a.plan.query < b.plan.query \/ (a.plan.query = b.plan.query /\ i < j)

Rankings(topics) ==
    LET found == Reusable(topics)
    IN  {f \in [1..Cardinality(found) -> found] :
            \A a, b \in 1..Cardinality(found) : a < b => Ahead(f[a], f[b], topics)}

SimilarPriorPlans(topics, limit) ==
    LET all == Cardinality(Reusable(topics))
        n == IF limit <= 0 \/ limit > all THEN all ELSE limit
    IN  \E found \in Rankings(topics) :
          Return([k \in 1..n |-> Regate(stored[found[k]].plan)], topics)

\* The caller asks about a plan it holds: the access check filters its slots.
ReuseRejection(k, topics, type) ==
    /\ k \in DOMAIN returned
    /\ LET p == returned[k]
       IN  /\ IF Rejections(p, topics, type) = {} THEN verdict' = "none"
              ELSE verdict' \in Rejections(p, topics, type)
           /\ returned' = IF PolicyReasons(p, topics, type) # {} THEN returned
                          ELSE [returned EXCEPT ![k].slots = Overwritten(@)]
    /\ UNCHANGED <<stored, caller, current, offer, changes>>

-----------------------------------------------------------------------------
(* The host's data changes.                                                *)

Change ==
    /\ changes < MaxChanges
    /\ changes' = changes + 1
    /\ offer' = NoOffer
    /\ UNCHANGED <<stored, returned, verdict>>

ChangeCaller ==
    /\ Change
    /\ \E c \in Contexts \ {caller} : caller' = c
    /\ UNCHANGED current

\* A node gets a new version, is superseded, or is classified higher.
ChangeNode(n) ==
    /\ Change
    /\ n \in DOMAIN current
    /\ \E new \in {[current[n] EXCEPT !.version = @ + 1],
                   [current[n] EXCEPT !.superseded = TRUE],
                   [current[n] EXCEPT !.sensitivity = "confidential"]} :
         current' = [current EXCEPT ![n] = new]
    /\ UNCHANGED caller

ForgetNode(n) ==
    /\ Change
    /\ n \in DOMAIN current
    /\ current' = [m \in DOMAIN current \ {n} |-> current[m]]
    /\ UNCHANGED caller

Reads ==
    \/ \E s \in Queries : LoadPriorPlan(s) \/ Load(s)
    \/ \E t \in Requests, l \in Limits : SimilarPriorPlans(t, l)

Next ==
    \/ StoreContextPlan
    \/ Reads
    \/ \E k \in DOMAIN returned, t \in Requests, type \in Types : ReuseRejection(k, t, type)
    \/ ChangeCaller
    \/ \E n \in Nodes : ChangeNode(n) \/ ForgetNode(n)

Spec == Init /\ [][Next]_vars

-----------------------------------------------------------------------------
(* Properties.                                                             *)

Slot == [node : Nodes, version : Nat, topic : {Topic[n] : n \in Nodes}]
Plan == [query : Queries, type : Types, slots : Seq(Slot), path : Seq(Nodes),
         suppressed : SUBSET Nodes]
Record == [session : Queries, topics : SUBSET {Topic[n] : n \in Nodes}, plan : Plan]

\* The slots of a plan, in order, without those of some nodes.
Unsuppressed(plan, nodes) ==
    Cut(plan.slots, {i \in DOMAIN plan.slots : plan.slots[i].node \notin nodes})

\* The type of every variable.
ReuseTypeOK ==
    /\ stored \in Seq(Record)
    /\ caller \in Contexts
    /\ DOMAIN current \subseteq Nodes /\ current \in [DOMAIN current -> NodeInfo]
    /\ returned \in Seq(Plan)
    /\ verdict \in Verdicts
    /\ offer \in Requests \cup {NoOffer}
    /\ changes \in 0..MaxChanges

\* LoadPriorPlan, Load and SimilarPriorPlans gate a stored plan for the caller and the
\* nodes of that moment as far as CurrentNodes still holds its nodes: they cut the slots
\* of held nodes that the caller may not see, no others, list them as suppressed, keep
\* the order and name what is left in the path.  A slot whose node is no longer held is
\* handed out to whoever asks: of those the property says only that they are not lost.
KnownNodesGated ==
    [][Reads => \A k \in DOMAIN returned' :
         LET p == returned'[k]
         IN  /\ p.path = NodesOf(p.slots)
             /\ \A i \in DOMAIN p.slots :
                  p.slots[i].node \in DOMAIN current =>
                    CanSeeNode(caller, current[p.slots[i].node])
             /\ \A n \in p.suppressed :
                  n \in DOMAIN current /\ ~CanSeeNode(caller, current[n])
             /\ \E r \in ToSet(stored) :
                  /\ r.plan.query = p.query /\ r.plan.type = p.type
                  /\ p.slots = Unsuppressed(r.plan, p.suppressed)]_vars

\* A plan that ReuseRejection filtered while its caller held it cannot pass for one that
\* was read, not even if a second question about it is answered with yes: unless a plan
\* held is exactly what is left of some record's without the nodes listed as suppressed,
\* path included, one slot stands in it twice.
OverwrittenShows ==
    \A k \in DOMAIN returned :
      LET p == returned[k]
      IN  \/ /\ p.path = NodesOf(p.slots)
             /\ \E r \in ToSet(stored) : p.slots = Unsuppressed(r.plan, p.suppressed)
          \/ \E i, j \in DOMAIN p.slots : i < j /\ p.slots[i] = p.slots[j]

\* Asking whether a plan may be reused and being told yes leaves the plan as it was.
AcceptanceChangesNothing ==
    [][\A k \in DOMAIN returned, t \in Requests, type \in Types :
         verdict' = "none" /\ ReuseRejection(k, t, type) => returned' = returned]_vars

\* What SimilarPriorPlans offers, ReuseRejection accepts for the same topics, as long as
\* caller and nodes stay the same, whatever else is asked about the plans meanwhile.
OfferedIsReusable ==
    offer # NoOffer =>
        \A k \in DOMAIN returned : Rejections(returned[k], offer, returned[k].type) = {}

\* src/spec.md:1065-1069: "A prior plan can be reused only if: [...] Caller access still
\* permits all slots."  Violated: SimilarPriorPlans gates a plan before it asks
\* ReuseRejection, and so offers it without the slots that access no longer permits.
OfferedWhole ==
    offer # NoOffer => \A k \in DOMAIN returned : returned[k].suppressed = {}
=============================================================================
