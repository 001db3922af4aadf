------------------------------- MODULE RagGraph -------------------------------
(***************************************************************************)
(* From a retrieval system's handoff to an analysed graph: the mappers of  *)
(* pkg/integrations, ragnode.BuildAnalysis, which hands the graph to the   *)
(* citewise engine, the query router, and the hygiene analyzer with its    *)
(* edge suggestions, which the host may add to the graph.  The engine's    *)
(* own command runs beside it (Citewise.tla), on a backlog file that may   *)
(* also be made into a graph.                                              *)
(*                                                                         *)
(* A node is [item, text, noted, chunk, community, semantic, supersededBy, *)
(* trust, approvedBy, tenant, sensitivity]: item as in Backlog.tla, text   *)
(* the cue words of the node's text, noted whether the item has notes.     *)
(***************************************************************************)
EXTENDS Citewise, AccessGate

CONSTANTS
    Handoffs,   \* what an upstream retriever hands over
    Callers,    \* the callers a hybrid handoff is redacted for
    MaxAdded    \* bound on the suggested edges a host adds

NodeType ==
    [item : ItemType, text : SUBSET STRING, noted : BOOLEAN, chunk : STRING, community : Int,
     semantic : Int, supersededBy : Int, trust : Int, approvedBy : SUBSET STRING,
     tenant : STRING, sensitivity : STRING]
QueryType  == [cues : SUBSET STRING, names : SUBSET Int, words : Nat]
SourceType == [id : Int, title : SUBSET STRING, text : SUBSET STRING, community : Int]
ResultType ==
    [id : Int, title : SUBSET STRING, text : SUBSET STRING, community : Int, chunk : STRING]
ClaimType     == [id : Int, text : SUBSET STRING, status : STRING, evidence : Seq(Int)]
RelationType  == [sourceID : Int, source : Int, targetID : Int, target : Int, weight : Int]
CommunityType == [id : Int, report : Int, entities : Seq(Int), units : Seq(Int)]

ExportType ==
    [origin : {"graphrag"}, query : QueryType, documents : Seq(SourceType),
     units : Seq(SourceType), entities : Seq(SourceType), reports : Seq(SourceType),
     claims : Seq(ClaimType), relations : Seq(RelationType), communities : Seq(CommunityType)]
ResultsType ==
    [origin : {"lightrag"}, query : QueryType, local : Seq(ResultType),
     global : Seq(ResultType), relations : Seq(EdgeType)]
HybridType ==
    [origin : {"hybrid"}, query : QueryType, nodes : Seq(NodeType), edges : Seq(EdgeType),
     candidates : SUBSET Int]
FromBacklog == [origin |-> "backlog"]

ASSUME HandoffsAssumption ==
    Handoffs \subseteq ExportType \cup ResultsType \cup HybridType \cup {FromBacklog}

VARIABLES
    handoff,    \* the handoff the host holds
    set,        \* the candidate set made from it: [query, nodes, edges, candidates]
    added,      \* history: the suggestions added to it, in order
    rec,        \* the router's recommendation
    report      \* the hygiene report

ragVars      == <<handoff, set, added, rec, report>>
responseVars == <<rec, report>>
vars         == <<citewiseVars, ragVars>>

Each(Op(_), s) == [i \in DOMAIN s |-> Op(s[i])]
NodeIDs(nodes) == {nodes[i].item.id : i \in DOMAIN nodes}

-----------------------------------------------------------------------------
(* ragnode: edge types, and what a node or an item becomes.                *)

NormalizeEdge(raw) ==
    CASE raw \in {"prerequisite", "prereq", "requires"}                      -> "prerequisite"
      [] raw \in {"supersedes", "updates", "replaces", "supersedes-version"} -> "supersedes"
      [] raw \in {"decision-basis", "basis", "decided-from"}                 -> "decision-basis"
      [] raw \in {"approved-by", "approved", "reviewed-by"}                  -> "approved-by"
      [] raw \in {"overview", "review", "surveys", "primer-for"}             -> "overview"
      [] raw \in {"evidence-for", "supports", "proves"}                      -> "evidence-for"
      [] raw \in {"evidence-against", "refutes", "opposes"}                  -> "evidence-against"
      [] raw \in {"implements", "implements-policy", "satisfies"}            -> "implements"
      [] raw \in {"exception-to", "exempts", "waives"}                       -> "exception-to"
      [] raw \in {"cites", "mentions", "mention"}                            -> "cites"
      [] raw \in {"applies-to", "governs", "covers"}                         -> "applies-to"
      [] raw \in {"version-of", "revision-of", "variant-of"}                 -> "version-of"
      [] raw \in {"contradicts", "counterpoint", "responds-to"}              -> "contradicts"
      [] raw \in {"community-member-of", "in-community", "cluster-member"}   -> "community-member-of"
      [] raw \in {"same-question", "same-topic", "similar"}                  -> "same-question"
      [] raw \in {"owned-by", "owner", "maintained-by"}                      -> "owned-by"
      [] raw \in {"duplicate", "duplicates", "duplicate-of", "dupe"}         -> "duplicate"
      [] OTHER                                                               -> "related-to"

NormalizeEdgeValue(e) == [e EXCEPT !.type = NormalizeEdge(@)]
Edge(source, target, type, confidence) ==
    [source |-> source, target |-> target, type |-> type, confidence |-> confidence]

ToItem(n) == IF n.noted THEN n.item ELSE [n.item EXCEPT !.textCues = @ \cup n.text]

\* The node of a document that a retriever knows by its ID, title and text.
NewNode(id, title, text, chunk, community, trust) ==
    [item |-> [id |-> id, title |-> title, status |-> "", minutes |-> 0, difficulty |-> 0,
               year |-> 0, topics |-> {}, typeCues |-> {}, textCues |-> text, hint |-> 0,
               hits |-> 0, energy |-> "", recs |-> 0],
     text |-> text, noted |-> TRUE, chunk |-> chunk, community |-> community, semantic |-> 0,
     supersededBy |-> 0, trust |-> trust, approvedBy |-> {}, tenant |-> "",
     sensitivity |-> "internal"]

\* The files of the model say nothing of trust.
RAGNodeFromItem(it) == [NewNode(it.id, it.title, it.textCues, "document", 0, 0) EXCEPT !.item = it]

NoQuery == [cues |-> {}, names |-> {}, words |-> 0]
CandidateSetFromBacklog(b) ==
    [query |-> NoQuery, nodes |-> Each(RAGNodeFromItem, b.items), edges |-> b.edges, candidates |-> {}]

-----------------------------------------------------------------------------
(* integrations/graphrag.                                                  *)

\* Mutant of NormalizeWeight: no upper bound.
WeightUnbounded(weight) == IF weight <= 0 THEN 100 ELSE weight
NormalizeWeight(weight) == IF weight <= 0 \/ weight > 100 THEN 100 ELSE weight

GraphNode(d, title, chunk, community) == NewNode(d.id, title, d.text, chunk, community, 75)
DocumentNode(d) == GraphNode(d, d.title, "document", 0)
UnitNode(d)     == GraphNode(d, {ToString(d.id)}, "chunk", d.community)
EntityNode(d)   == GraphNode(d, d.title, "entity", d.community)
ReportNode(d)   ==
    [GraphNode(d, d.title, "community-summary", d.community) EXCEPT !.item.typeCues = {"overview"}]
ClaimNode(d)    == GraphNode(d, {ToString(d.id)}, "claim", 0)

Evidence(d) ==
    Each(LAMBDA id : Edge(id, d.id, IF d.status \in {"negative", "false", "disputed"}
                                    THEN "evidence-against" ELSE "evidence-for", 100), d.evidence)
\* source_id and target_id, or else source and target.
Relation(d) ==
    Edge(IF d.sourceID # 0 THEN d.sourceID ELSE d.source,
         IF d.targetID # 0 THEN d.targetID ELSE d.target, "related-to", NormalizeWeight(d.weight))
Membership(d) ==
    Each(LAMBDA id : Edge(id, IF d.report = 0 THEN d.id ELSE d.report, "community-member-of", 80),
         d.entities \o d.units)

MapExport(h) ==
    [query |-> h.query,
     nodes |-> Each(DocumentNode, h.documents) \o Each(UnitNode, h.units)
               \o Each(EntityNode, h.entities) \o Each(ReportNode, h.reports)
               \o Each(ClaimNode, h.claims),
     edges |-> Flat(Each(Evidence, h.claims)) \o Each(Relation, h.relations)
               \o Flat(Each(Membership, h.communities)),
     candidates |-> {}]

(* integrations/lightrag.                                                  *)

ResultNode(d, chunk) ==
    NewNode(d.id, d.title, d.text, IF d.chunk = "" THEN chunk ELSE d.chunk, d.community, 70)
LocalNode(d)  == ResultNode(d, "entity")
GlobalNode(d) == ResultNode(d, "community-summary")

MapResults(h) ==
    [query |-> h.query,
     nodes |-> Each(LocalNode, h.local) \o Each(GlobalNode, h.global),
     edges |-> Each(NormalizeEdgeValue, h.relations),
     candidates |-> {h.local[i].id : i \in DOMAIN h.local} \cup {h.global[i].id : i \in DOMAIN h.global}]

(* integrations/hybrid.                                                    *)

MapHandoff(h) ==
    [query |-> h.query, nodes |-> h.nodes, edges |-> h.edges, candidates |-> h.candidates]

VisibleNodes(ctx, h) == Cut(h.nodes, {i \in DOMAIN h.nodes : CanSeeNode(ctx, h.nodes[i])})
EdgesWithin(ids, edges) ==
    Cut(edges, {i \in DOMAIN edges : {edges[i].source, edges[i].target} \subseteq ids})

\* Mutant of RedactForReranker: the candidates stay.
RedactNodesOnly(ctx, h) ==
    LET allowed == NodeIDs(VisibleNodes(ctx, h))
    IN  [h EXCEPT !.nodes = VisibleNodes(ctx, h),
                  !.edges = EdgesWithin(allowed, @)]
RedactForReranker(ctx, h) ==
    LET allowed == NodeIDs(VisibleNodes(ctx, h))
    IN  [h EXCEPT !.nodes = VisibleNodes(ctx, h),
                  !.edges = EdgesWithin(allowed, @),
                  !.candidates = @ \cap allowed]

Mapped(h) ==
    CASE h.origin = "graphrag" -> MapExport(h)
      [] h.origin = "lightrag" -> MapResults(h)
      [] h.origin = "hybrid"   -> MapHandoff(h)
      [] h.origin = "backlog"  -> CandidateSetFromBacklog(ParseBacklog(file))

-----------------------------------------------------------------------------
(* ragnode.BuildAnalysis.                                                  *)

Buildable(s) ==
    LET known == NodeIDs(s.nodes)
    IN  /\ 0 \notin known
        /\ \A i, j \in DOMAIN s.nodes : s.nodes[i].item.id = s.nodes[j].item.id => i = j
        /\ s.candidates \subseteq known
        /\ \A i \in DOMAIN s.edges : {s.edges[i].source, s.edges[i].target} \subseteq known

ItemsInOrder(nodes) ==
    LET byID == {p \in ToSet(nodes) \X ToSet(nodes) : p[1].item.id < p[2].item.id}
    IN  Each(ToItem, InOrder(ToSet(nodes), byID))

\* By source, then by target; what sortEdges looks at next makes no difference here.
EdgesInOrder(edges) ==
    LET before(i, j) == \/ edges[i].source < edges[j].source
                        \/ /\ edges[i].source = edges[j].source
                           /\ \/ edges[i].target < edges[j].target
                              \/ edges[i].target = edges[j].target /\ i < j
        byEnds == {p \in (DOMAIN edges) \X (DOMAIN edges) : before(p[1], p[2])}
    IN  Each(LAMBDA i : edges[i], InOrder(DOMAIN edges, byEnds))

GraphEdges(s) == Each(NormalizeEdgeValue, EdgesInOrder(s.edges))
BacklogOf(s) ==
    [items |-> ItemsInOrder(s.nodes), edges |-> GraphEdges(s),
     goal |-> [NoGoal EXCEPT !.asked = s.query.words > 0]]

-----------------------------------------------------------------------------
(* rag.Metadata and the router.  A query is [cues, names, words]: the      *)
(* kinds of cue in it, the node IDs named in it and its length.            *)

ChunksOf(s) == {s.nodes[i].chunk : i \in DOMAIN s.nodes}
Entities(s) ==
    {s.nodes[i].item.id : i \in {j \in DOMAIN s.nodes : s.nodes[j].chunk = "entity"}}

\* Mutant of HasPermissionNode: a decision or a procedure will do.
HasApprovableNode(s) == \E chunk \in ChunksOf(s) : RequiresAgenticApproval(chunk)
HasPermissionNode(s) == "permission-record" \in ChunksOf(s)
HasDecisionBasis(s)  == \E i \in DOMAIN s.edges : NormalizeEdge(s.edges[i].type) = "decision-basis"
MaxTopicSpan(s) ==
    Cardinality(({s.nodes[i].community : i \in DOMAIN s.nodes}
                 \cup {s.nodes[i].semantic : i \in DOMAIN s.nodes}) \ {0})

Recommendation(type, mode, budget) ==
    [type |-> type, mode |-> mode, budget |-> budget, counterpoint |-> type = "Adversarial"]

\* The first rule that applies.
Route(s) ==
    LET cues == s.query.cues
    IN  IF (HasPermissionNode(s) \/ HasDecisionBasis(s)) /\ "action" \in cues
        THEN Recommendation("Agentic", "DRIFTChain", 6000)
        ELSE IF "temporal" \in cues THEN Recommendation("Temporal", "HybridBM25Dense", 4500)
        ELSE IF "procedural" \in cues THEN Recommendation("Procedural", "LocalNeighborhood", 5000)
        ELSE IF "comparison" \in cues THEN Recommendation("Comparative", "DRIFTChain", 5500)
        ELSE IF "adversarial" \in cues THEN Recommendation("Adversarial", "DRIFTChain", 6000)
        ELSE IF s.query.names \cap Entities(s) # {}
        THEN Recommendation("Factual", "LocalNeighborhood", 3500)
        ELSE IF MaxTopicSpan(s) > 3 \/ "broad" \in cues
        THEN Recommendation("Exploratory", "GlobalGraph", 6500)
        ELSE Recommendation("Factual", "HybridBM25Dense", IF s.query.words <= 8 THEN 3000 ELSE 4000)

-----------------------------------------------------------------------------
(* hygiene: suggestions.                                                   *)

\* Mutant of HasEdge: the ends are swapped.
HasEdgeBack(s, source, target, type) ==
    \E i \in DOMAIN s.edges : /\ s.edges[i].source = target /\ s.edges[i].target = source
                              /\ NormalizeEdge(s.edges[i].type) = type
HasEdge(s, source, target, type) ==
    \E i \in DOMAIN s.edges : /\ s.edges[i].source = source /\ s.edges[i].target = target
                              /\ NormalizeEdge(s.edges[i].type) = type
HasAnyEdgeBetween(s, a, b, type) == HasEdge(s, a, b, type) \/ HasEdge(s, b, a, type)

SameCommunity(m, n) == m.community # 0 /\ m.community = n.community
TopicOverlap(m, n) ==
    LET x == m.item.topics y == n.item.topics
    IN  /\ x # {} /\ y # {}
        /\ 100 * Cardinality(x \cap y) >= 60 * Min({Cardinality(x), Cardinality(y)})
SameTitle(m, n) ==
    LET x == m.item.title y == n.item.title
    IN  /\ x # {} /\ y # {}
        /\ 100 * Cardinality(x \cap y) >= 88 * Cardinality(x \cup y)

\* A superseded node asks for an edge towards it, and looks for one from it.
OneWaySuggestions(s, m, n) ==
    LET a == m.item.id b == n.item.id
    IN  {e \in {Edge(b, a, "supersedes", 100), Edge(b, a, "community-member-of", 80),
                Edge(b, a, "exception-to", 55)} :
           CASE e.type = "supersedes" ->
                  m.supersededBy = b /\ ~HasEdge(s, a, b, "supersedes")
             [] e.type = "community-member-of" ->
                  /\ SameCommunity(m, n) /\ m.chunk = "community-summary"
                  /\ ~HasEdge(s, b, a, "community-member-of")
             [] e.type = "exception-to" ->
                  /\ "policy" \in m.item.title /\ "exception" \in n.item.title
                  /\ ~HasEdge(s, b, a, "exception-to")}
TwoWaySuggestions(s, m, n) ==
    LET a == m.item.id b == n.item.id
    IN  {e \in {Edge(a, b, "same-question", 70), Edge(a, b, "duplicate", 90)} :
           /\ ~HasAnyEdgeBetween(s, a, b, e.type)
           /\ e.type = "same-question" => SameCommunity(m, n) /\ TopicOverlap(m, n)
           /\ e.type = "duplicate" => SameTitle(m, n)}

SuggestMissingEdges(s) ==
    LET ways == {p \in ToSet(s.nodes) \X ToSet(s.nodes) : p[1] # p[2]}
    IN  (UNION {OneWaySuggestions(s, p[1], p[2]) : p \in ways})
        \cup (UNION {TwoWaySuggestions(s, p[1], p[2]) :
                       p \in {q \in ways : q[1].item.id < q[2].item.id}})

(* hygiene: the report.  An analysis without a base analysis is read from  *)
(* the graph's own edges.                                                  *)

Touching(s, id) == {i \in DOMAIN s.edges : id \in {s.edges[i].source, s.edges[i].target}}
GraphOrphans(s) == {id \in NodeIDs(s.nodes) : Touching(s, id) = {}}
GraphBridges(s, r) ==
    {id \in NodeIDs(s.nodes) :
        /\ \E i \in Touching(s, id) : NormalizeEdge(s.edges[i].type) = "prerequisite"
        /\ \A i \in Touching(s, id) : r[Other(s.edges[i], id)] \notin {"overview", "bridge"}}

OrphanNodes(b, s) == IF b.items # <<>> THEN Orphans(b) ELSE GraphOrphans(s)
BridgesMissing(b, s, r) == IF b.items # <<>> THEN MissingBridges(b, r) ELSE GraphBridges(s, r)
StaleNodes(b, s, r) ==
    (IF b.items # <<>> THEN StaleItems(b, r) ELSE {})
    \cup {s.nodes[i].item.id : i \in {j \in DOMAIN s.nodes : s.nodes[j].supersededBy # 0}}
CountOf(s, Test(_)) == Cardinality({i \in DOMAIN s.nodes : Test(s.nodes[i])})

\* The score times 100 and the number of nodes.
WeightedScore(b, s, r, found) ==
    100 * Len(s.nodes)
    - 18 * Cardinality(OrphanNodes(b, s)) - 18 * Cardinality(UNION found)
    - 20 * Cardinality(StaleNodes(b, s, r)) - 20 * Cardinality(BridgesMissing(b, s, r))
    - 14 * CountOf(s, LAMBDA n : n.trust < 35)
    - 10 * CountOf(s, LAMBDA n : RequiresAgenticApproval(n.chunk) /\ n.approvedBy = {})

\* An empty graph scores 1.  At a threshold the rounding of floats decides.
SignalsOf(score, n) ==
    IF n = 0 THEN {"green"}
    ELSE (IF score <= 55 * n THEN {"red"} ELSE {})
         \cup (IF score >= 55 * n /\ score <= 70 * n THEN {"yellow"} ELSE {})
         \cup (IF score >= 70 * n THEN {"green"} ELSE {})

RetrievalTargets(bridges, suggestions) ==
    bridges \cup {e.source : e \in suggestions} \cup {e.target : e \in suggestions}

-----------------------------------------------------------------------------
(* The host and the service.                                               *)

NoSet    == [query |-> NoQuery, nodes |-> <<>>, edges |-> <<>>, candidates |-> {}]
NoReport == [signal |-> "none"]
NoRec    == [type |-> "none"]
NoHandoff == [origin |-> "none"]
RagCall  == [command |-> "rag"]

RagInit ==
    /\ Init
    /\ handoff = NoHandoff /\ set = NoSet /\ added = <<>>
    /\ rec = NoRec /\ report = NoReport

Receive(h) ==
    /\ pc = "idle"
    /\ h.origin = "backlog" => ParseBacklog(file).ok
    /\ handoff' = h
    /\ set' = Mapped(h)
    /\ added' = <<>>
    /\ UNCHANGED <<citewiseVars, responseVars>>

RedactHandoff(ctx) ==
    /\ pc = "idle"
    /\ handoff.origin = "hybrid"
    /\ handoff' = RedactForReranker(ctx, handoff)
    /\ set' = MapHandoff(handoff')
    /\ added' = <<>>
    /\ UNCHANGED <<citewiseVars, responseVars>>

BuildAnalysis ==
    /\ pc = "idle"
    /\ handoff # NoHandoff
    /\ IF Buildable(set)
       THEN BeginAnalysis(BacklogOf(set)) /\ call' = RagCall /\ UNCHANGED exit
       ELSE Exit(1)
    /\ UNCHANGED <<file, reads, ragVars>>

RouteQuery ==
    /\ pc = "analyzed" /\ call = RagCall
    /\ rec' = Route(set)
    /\ pc' = "routed"
    /\ UNCHANGED <<exit, file, call, engineVars, queueVars, reads, handoff, set, added, report>>

\* Retrieval targets are for a red graph whose plan may not be used.
AnalyzeHygiene(degraded) ==
    /\ pc = "routed"
    /\ LET bridges == BridgesMissing(backlog, set, roles)
           suggestions == SuggestMissingEdges(set)
           score == WeightedScore(backlog, set, roles, clusters)
       IN  \E signal \in SignalsOf(score, Len(set.nodes)) :
             report' = [clusters |-> clusters, orphans |-> OrphanNodes(backlog, set),
                        stale |-> StaleNodes(backlog, set, roles), bridges |-> bridges,
                        suggestions |-> suggestions, score |-> score, signal |-> signal,
                        targets |-> IF signal = "red" /\ ~degraded
                                    THEN RetrievalTargets(bridges, suggestions) ELSE {}]
    /\ pc' = "reported"
    /\ UNCHANGED <<exit, file, call, engineVars, queueVars, reads, handoff, set, added, rec>>

Respond ==
    /\ pc = "reported"
    /\ Exit(0)
    /\ rec' = NoRec /\ report' = NoReport
    /\ UNCHANGED <<file, reads>>

Discard == Respond /\ UNCHANGED <<handoff, set, added>>

\* The host adds a suggested edge to its graph.
AddSuggestion(e) ==
    /\ Respond
    /\ Len(added) < MaxAdded
    /\ set' = [set EXCEPT !.edges = Append(@, e)]
    /\ added' = Append(added, e)
    /\ UNCHANGED handoff

CitewiseNext == Next /\ UNCHANGED ragVars

RagNext ==
    \/ CitewiseNext
    \/ \E h \in Handoffs : Receive(h)
    \/ \E ctx \in Callers : RedactHandoff(ctx)
    \/ BuildAnalysis \/ RouteQuery \/ (\E degraded \in BOOLEAN : AnalyzeHygiene(degraded))
    \/ Discard
    \/ pc = "reported" /\ \E e \in report.suggestions : AddSuggestion(e)

RagSpec == RagInit /\ [][RagNext]_vars

-----------------------------------------------------------------------------
(* Properties.                                                             *)

\* Everything has its type: relations that GraphRAG weighs as it likes are within bounds
\* once they are mapped, and every item has one role and one score.
RagTypeOK ==
    /\ pc \in {"idle", "join", "analyzed", "queue", "routed", "reported"}
    /\ exit \in {0, 1, 2}
    /\ handoff.origin = "graphrag" => \A i \in DOMAIN set.edges : set.edges[i].confidence \in 0 .. 100
    /\ DOMAIN parent = IDs(backlog) /\ \A id \in IDs(backlog) : parent[id] \in IDs(backlog)
    /\ pc \in {"analyzed", "queue", "routed", "reported"} =>
         /\ DOMAIN roles = IDs(backlog) /\ \A id \in IDs(backlog) : roles[id] \in Roles
         /\ DOMAIN scores = IDs(backlog) /\ \A id \in IDs(backlog) : scores[id] \in 0 .. 1000
    /\ waiting \subseteq IDs(backlog) /\ queue.skipped \subseteq IDs(backlog)
    /\ report # NoReport =>
         /\ report.orphans \cup report.stale \cup report.bridges \cup report.targets \subseteq IDs(backlog)
         /\ report.score \in 0 .. 100 * Len(set.nodes)
         /\ report.signal \in {"red", "yellow", "green"}

\* What BuildAnalysis accepts it still accepts after RedactForReranker: no edge and no
\* candidate is left of a node that was taken out.
RedactionKeepsItBuildable ==
    [][\A ctx \in Callers :
          RedactHandoff(ctx) /\ Buildable(MapHandoff(handoff)) => Buildable(set')]_vars

\* The two ways to the same answer agree: the hygiene of the base analysis is the one
\* read from the graph's own edges, and a backlog that is made into a graph has the
\* duplicate clusters of the backlog.
TwoPathsAgree ==
    pc = "analyzed" /\ call = RagCall =>
        /\ Orphans(backlog) = GraphOrphans(set)
        /\ MissingBridges(backlog, roles) = GraphBridges(set, roles)
        /\ handoff.origin = "backlog" /\ added = <<>> =>
             clusters = Clusters(Joined(ParseBacklog(file)))

\* A suggestion the host takes up is not made again and nothing else changes in the
\* report's suggestions, except that a supersedes edge is looked for the other way
\* round: it is suggested for ever, and it is the opposite one that is withdrawn.
SuggestionsSettle ==
    [][Len(added') > Len(added) =>
        LET new == Last(added')
            withdrawn == IF new.type = "supersedes"
                         THEN Edge(new.target, new.source, "supersedes", 100) ELSE new
        IN  SuggestMissingEdges(set') = SuggestMissingEdges(set) \ {withdrawn}]_vars

\* What the handoff itself says of permissions and decisions.
Basis == {"decision-basis", "basis", "decided-from"}
TypesOf(edges) == {edges[i].type : i \in DOMAIN edges}
GrantsAction(h) ==
    CASE h.origin = "graphrag" -> FALSE
      [] h.origin = "lightrag" ->
           \/ \E d \in ToSet(h.local \o h.global) : d.chunk = "permission-record"
           \/ TypesOf(h.relations) \cap Basis # {}
      [] h.origin = "hybrid"   -> \/ \E n \in ToSet(h.nodes) : n.chunk = "permission-record"
                                  \/ TypesOf(h.edges) \cap Basis # {}
      [] h.origin = "backlog"  -> TypesOf(ParseBacklog(file).edges) \cap Basis # {}

\* A query is taken as a request to act if and only if it names an action and the
\* handoff holds a permission record or a decision basis: never on a GraphRAG export,
\* and not because of an edge the hygiene report suggested.
RoutedByHandoff ==
    rec # NoRec => (rec.type = "Agentic" <=> "action" \in set.query.cues /\ GrantsAction(handoff))
=============================================================================
