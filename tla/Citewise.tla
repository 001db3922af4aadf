------------------------------- MODULE Citewise -------------------------------
(***************************************************************************)
(* pkg/citewise: the citewise command and its engine.  A run loads a       *)
(* backlog, clusters duplicates with a union-find, gives every item a role *)
(* and a score, and prints roles, scores, one explanation, the hygiene     *)
(* report or a reading queue.  Between runs the reader reads items.        *)
(*                                                                         *)
(* Fractions are in basis points (1/10000), rounded down where the code    *)
(* divides; totals are in tenths of a percent, as the code rounds them.    *)
(***************************************************************************)
EXTENDS Backlog, SequencesExt

CONSTANTS
    Files,      \* the backlog files, as Backlog.tla describes them
    Calls,      \* the command lines
    NowYear,    \* the current year
    MaxReads    \* bound on the items read between runs

ASSUME FilesAssumption == Files \subseteq FileType
CallType ==
    [command : STRING, file : BOOLEAN, prompt : BOOLEAN, id : Int, budget : Int, limit : Int]
ASSUME CallsAssumption == Calls \subseteq CallType
ASSUME YearAssumption == NowYear \in Int

VARIABLES
    pc,         \* where the run is
    exit,       \* the exit code of the last run
    file,       \* the backlog file
    call,       \* the command line
    backlog,    \* the parsed backlog and the goal of the run
    parent,     \* [IDs -> IDs]: the union-find of DetectDuplicates
    pairs,      \* the pairs of IDs it has still to join
    clusters,   \* Analysis.Duplicates
    roles,      \* Analysis.Roles
    scores,     \* the totals of Analysis.Scores
    waiting,    \* the candidates PlanQueue has not come to
    queue,      \* [entries, skipped, used, exceeded]: the plan so far
    reads       \* items read between runs so far

engineVars   == <<backlog, parent, pairs, clusters, roles, scores>>
queueVars    == <<waiting, queue>>
citewiseVars == <<pc, exit, file, call, engineVars, queueVars, reads>>

\* clamp01
Clamp(x) == IF x < 0 THEN 0 ELSE IF x > 10000 THEN 10000 ELSE x

-----------------------------------------------------------------------------
(* The graph of a backlog.  Edges with an unknown end are ignored.         *)

IDs(b) == {b.items[i].id : i \in DOMAIN b.items}
Item(b, id) == b.items[CHOOSE i \in DOMAIN b.items : b.items[i].id = id]

\* Mutant of In: edges are taken at their source.
InAtSource(b, id) ==
    {i \in DOMAIN b.edges : b.edges[i].source = id /\ b.edges[i].target \in IDs(b)}
In(b, id)  == {i \in DOMAIN b.edges : b.edges[i].target = id /\ b.edges[i].source \in IDs(b)}
Out(b, id) == {i \in DOMAIN b.edges : b.edges[i].source = id /\ b.edges[i].target \in IDs(b)}
InOfType(b, id, types) == {i \in In(b, id) : NormEdgeType(b.edges[i].type) \in types}
OfType(b, id, type) == {i \in In(b, id) \cup Out(b, id) : NormEdgeType(b.edges[i].type) = type}

\* A loop counts twice.
Degree(b, id) == Cardinality(In(b, id)) + Cardinality(Out(b, id))

\* The other end of an edge, seen from one end.
Other(e, id) == IF e.source = id THEN e.target ELSE e.source
Neighbours(b, id) == {Other(b.edges[i], id) : i \in In(b, id) \cup Out(b, id)}

EdgeWeight(type) ==
    CASE NormEdgeType(type) = "prerequisite"  -> 15000
      [] NormEdgeType(type) = "overview"      -> 12500
      [] NormEdgeType(type) = "cites"         -> 11000
      [] NormEdgeType(type) = "contradicts"   -> 10000
      [] NormEdgeType(type) = "same-question" -> 8000
      [] NormEdgeType(type) = "duplicate"     -> 2000
      [] OTHER                                -> 6000

WeightOf(b, places) ==
    SumOf([i \in DOMAIN b.edges |->
             IF i \in places THEN (EdgeWeight(b.edges[i].type) * b.edges[i].confidence) \div 100
             ELSE 0])
RawCentrality(b, id) ==
    WeightOf(b, In(b, id)) + (65 * WeightOf(b, Out(b, id))) \div 100
Centrality(b, id) ==
    LET most == Max({0} \cup {RawCentrality(b, x) : x \in IDs(b)})
    IN  IF most = 0 THEN 0 ELSE Clamp((10000 * RawCentrality(b, id)) \div most)

-----------------------------------------------------------------------------
(* Roles.                                                                  *)

Age(it) == NowYear - it.year

\* Title and notes, where most cue words are looked for.
Text(it) == it.title \cup it.textCues

IsOverview(it) == "overview" \in it.typeCues \cup Text(it)
IsStaleHype(it) ==
    /\ it.year > 0
    /\ \/ Age(it) >= 7 /\ ("hype" \in Text(it) \/ it.recs >= 3)
       \/ Age(it) >= 12 /\ "current" \in Text(it)

\* A prerequisite counts twice, once as a citation.
FoundationScore(b, id) ==
    LET it == Item(b, id)
        incoming == Cardinality(InOfType(b, id, {"prerequisite"}))
                    + Cardinality(InOfType(b, id, {"prerequisite", "cites"}))
        age == IF it.year > 0 /\ Age(it) >= 5 THEN 2000 ELSE 0
        cue == IF {"foundation", "classic"} \cap (it.typeCues \cup Text(it)) # {}
               THEN 2500 ELSE 0
    IN  Clamp((55 * Centrality(b, id)) \div 100 + (3500 * Min({3, incoming})) \div 3 + age + cue)

BridgeScore(b, id) ==
    LET own == Item(b, id).topics
        near == UNION {Item(b, n).topics : n \in Neighbours(b, id)}
    IN  Clamp((10000 * (Cardinality(own) + Cardinality(near)) * Min({3, Degree(b, id)}))
                \div 18)

\* Without a goal there are no terms to find.
GoalFit(it, goal) ==
    IF it.hint > 0 THEN Clamp(100 * it.hint)
    ELSE IF ~goal.asked \/ it.hits = 0 THEN 1000
    ELSE Clamp(3500 + 1800 * it.hits)

\* The first of these that applies.
Classify(b, found, id) ==
    LET it == Item(b, id)
    IN  IF id \in UNION found \/ OfType(b, id, "duplicate") # {} THEN "duplicate"
        ELSE IF InOfType(b, id, {"contradicts"}) # {} \/ "counterpoint" \in Text(it)
             THEN "counterpoint"
        ELSE IF IsOverview(it) \/ OfType(b, id, "overview") # {} THEN "overview"
        ELSE IF IsStaleHype(it) THEN "stale-hype"
        ELSE IF FoundationScore(b, id) >= 6000 THEN "foundation"
        ELSE IF BridgeScore(b, id) >= 5500 THEN "bridge"
        ELSE IF Degree(b, id) <= 1 /\ GoalFit(it, b.goal) < 4500 THEN "curiosity-leaf"
        ELSE IF Centrality(b, id) >= 7000 THEN "foundation"
        ELSE "curiosity-leaf"

Roles == {"duplicate", "counterpoint", "overview", "stale-hype", "foundation", "bridge",
          "curiosity-leaf"}

-----------------------------------------------------------------------------
(* Scores.                                                                 *)

Gap(x, y) == IF x > y THEN x - y ELSE y - x

\* Mutant of Missing: a prerequisite that was read counts as missing.
MissingRead(b, id) ==
    {i \in In(b, id) : b.edges[i].type = "prerequisite" /\ Item(b, b.edges[i].source).status = "read"}
Missing(b, id) ==
    {i \in In(b, id) : b.edges[i].type = "prerequisite" /\ Item(b, b.edges[i].source).status # "read"}

Readiness(b, id) ==
    LET familiarity == IF b.goal.familiarity = 0 THEN 3 ELSE b.goal.familiarity
        fit == 10000 - 2000 * Gap(Item(b, id).difficulty, familiarity)
        needed == Cardinality({i \in In(b, id) : b.edges[i].type = "prerequisite"})
        met == IF needed = 0 THEN 10000
               ELSE 10000 - (10000 * Cardinality(Missing(b, id))) \div needed
    IN  Clamp((60 * fit + 40 * met) \div 100)

Freshness(it) ==
    IF it.year = 0 THEN 6500
    ELSE IF Age(it) <= 2 THEN 9000
    ELSE IF Age(it) <= 7 THEN 8000
    ELSE IF "classic" \in it.typeCues \cup it.textCues THEN 8200
    ELSE Max({2500, 10000 - (10000 * Age(it)) \div 24})

RedundancyPenalty(id, r, found) ==
    IF r[id] = "duplicate" THEN 7500 ELSE IF id \in UNION found THEN 5500 ELSE 0

EnergyTimeFit(it, goal) ==
    LET budget == IF goal.minutes <= 0 THEN 90 ELSE goal.minutes
        time == IF it.minutes > budget THEN Max({2000, (10000 * budget) \div it.minutes}) ELSE 10000
        energy == IF goal.energy = "" \/ it.energy = "" THEN 8000
                  ELSE IF goal.energy = it.energy THEN 10000
                  ELSE IF goal.energy = "low" /\ (it.energy = "high" \/ it.difficulty >= 4)
                  THEN 3500 ELSE 7000
    IN  Clamp((55 * time + 45 * energy) \div 100)

Total(b, r, found, id) ==
    LET it == Item(b, id)
        sum == 30 * GoalFit(it, b.goal) + 20 * Centrality(b, id) + 18 * Readiness(b, id)
               + 12 * Freshness(it) + 20 * EnergyTimeFit(it, b.goal)
               - 22 * RedundancyPenalty(id, r, found)
    IN  (Clamp(sum \div 100) + 5) \div 10

-----------------------------------------------------------------------------
(* DetectDuplicates.                                                       *)

DuplicateEdges(b) ==
    Cut(b.edges, {i \in DOMAIN b.edges :
                    /\ NormEdgeType(b.edges[i].type) = "duplicate"
                    /\ {b.edges[i].source, b.edges[i].target} \subseteq IDs(b)})
SimilarPlaces(b) ==
    LET similar == {p \in (DOMAIN b.items) \X (DOMAIN b.items) :
                      p[1] < p[2] /\ SimilarTitles(b.items[p[1]].title, b.items[p[2]].title)}
    IN  InOrder(similar, Lexicographic(similar))

\* The pairs to join: the duplicate edges in order, then the similar titles.
DuplicatePairs(b) ==
    LET edges   == DuplicateEdges(b)
        similar == SimilarPlaces(b)
    IN  [i \in DOMAIN edges |-> <<edges[i].source, edges[i].target>>]
        \o [i \in DOMAIN similar |-> <<b.items[similar[i][1]].id, b.items[similar[i][2]].id>>]

\* find: the IDs on the way from x to its root, all of which end up below the root.
Way(par) ==
    LET way[x \in DOMAIN par] == IF par[x] = x THEN {x} ELSE {x} \cup way[par[x]]
    IN  way
Root(par, x) == CHOOSE y \in Way(par)[x] : par[y] = y
Compress(par, x) ==
    [y \in DOMAIN par |-> IF y \in Way(par)[x] THEN Root(par, x) ELSE par[y]]

\* Mutant of Join: the second ID is hung below the first, not its root.
JoinNode(par, x, y) == [Compress(Compress(par, x), y) EXCEPT ![y] = Root(par, x)]
Join(par, x, y) ==
    IF Root(par, x) = Root(par, y) THEN Compress(Compress(par, x), y)
    ELSE [Compress(Compress(par, x), y) EXCEPT ![Root(par, y)] = Root(par, x)]

Groups(par) ==
    LET root == [x \in DOMAIN par |-> Root(par, x)]
    IN  {{y \in DOMAIN par : root[y] = root[x]} : x \in DOMAIN par}
Clusters(par) == {g \in Groups(par) : Cardinality(g) > 1}

-----------------------------------------------------------------------------
(* Hygiene(a).                                                             *)

Orphans(b) == {id \in IDs(b) : Degree(b, id) = 0}
StaleItems(b, r) == {id \in IDs(b) : IsStaleHype(Item(b, id)) \/ r[id] = "stale-hype"}
MissingBridges(b, r) ==
    {id \in IDs(b) :
        /\ \E i \in In(b, id) \cup Out(b, id) : b.edges[i].type = "prerequisite"
        /\ \A n \in Neighbours(b, id) : r[n] \notin {"overview", "bridge"}}

-----------------------------------------------------------------------------
(* The run: Run, Analyze and PlanQueue.                                    *)

NoCall == [command |-> "none"]
NoBacklog == [items |-> <<>>, edges |-> <<>>, goal |-> NoGoal]
EmptyQueue(budget) ==
    [entries |-> <<>>, skipped |-> {}, used |-> 0, exceeded |-> FALSE, budget |-> budget]

Init ==
    /\ pc = "idle" /\ exit = 0
    /\ file \in Files
    /\ call = NoCall
    /\ backlog = NoBacklog
    /\ parent = <<>> /\ pairs = <<>> /\ clusters = {} /\ roles = <<>> /\ scores = <<>>
    /\ waiting = {} /\ queue = EmptyQueue(0)
    /\ reads = 0

\* A run that ends leaves its exit code and nothing else.
Exit(code) ==
    /\ exit' = code
    /\ pc' = "idle"
    /\ call' = NoCall
    /\ backlog' = NoBacklog
    /\ parent' = <<>> /\ pairs' = <<>> /\ clusters' = {} /\ roles' = <<>> /\ scores' = <<>>
    /\ waiting' = {} /\ queue' = EmptyQueue(0)

\* --budget is the time of the goal only when there is a goal: Analyze takes the
\* backlog's own goal over one without prompt and topics.
GoalOf(goal, c) ==
    IF c.prompt \/ goal.asked
    THEN [goal EXCEPT !.asked = TRUE, !.minutes = IF @ = 0 THEN c.budget ELSE @]
    ELSE goal

\* Help, a missing --file, and a file that cannot be loaded.
RunRefused(c) ==
    /\ pc = "idle"
    /\ \/ c.command = "help" /\ Exit(0)
       \/ c.command # "help" /\ ~c.file /\ Exit(2)
       \/ c.command # "help" /\ c.file /\ ~ParseBacklog(file).ok /\ Exit(1)
    /\ UNCHANGED <<file, reads>>

BeginAnalysis(b) ==
    /\ backlog' = b
    /\ parent' = [id \in IDs(b) |-> id]
    /\ pairs' = DuplicatePairs(b)
    /\ clusters' = {} /\ roles' = <<>> /\ scores' = <<>>
    /\ waiting' = {} /\ queue' = EmptyQueue(0)
    /\ pc' = "join"

Run(c) ==
    /\ pc = "idle"
    /\ c.command # "help" /\ c.file
    /\ LET parsed == ParseBacklog(file)
       IN  /\ parsed.ok
           /\ BeginAnalysis([items |-> parsed.items, edges |-> parsed.edges,
                             goal |-> GoalOf(parsed.goal, c)])
    /\ call' = c
    /\ UNCHANGED <<exit, file, reads>>

JoinPair ==
    /\ pc = "join"
    /\ pairs # <<>>
    /\ parent' = Join(parent, Head(pairs)[1], Head(pairs)[2])
    /\ pairs' = Tail(pairs)
    /\ UNCHANGED <<pc, exit, file, call, backlog, clusters, roles, scores, queueVars, reads>>

\* The clusters, with them every item's role, and with these its score.
Analyze ==
    /\ pc = "join"
    /\ pairs = <<>>
    /\ clusters' = Clusters(parent)
    /\ roles' = [id \in IDs(backlog) |-> Classify(backlog, clusters', id)]
    /\ scores' = [id \in IDs(backlog) |-> Total(backlog, roles', clusters', id)]
    /\ pc' = "analyzed"
    /\ UNCHANGED <<exit, file, call, backlog, parent, pairs, queueVars, reads>>

\* The commands that print the analysis; an unknown one is found out last.
Write ==
    /\ pc = "analyzed"
    /\ \/ call.command \in {"roles", "scores", "hygiene"} /\ Exit(0)
       \/ call.command = "explain" /\ call.id = 0 /\ Exit(2)
       \/ call.command = "explain" /\ call.id # 0 /\ Exit(IF call.id \in IDs(backlog) THEN 0 ELSE 1)
       \/ call.command = "unknown" /\ Exit(2)
    /\ UNCHANGED <<file, reads>>

Unread(b) == {id \in IDs(b) : Item(b, id).status # "read"}
Minutes(id) == Item(backlog, id).minutes

StartQueue ==
    /\ pc = "analyzed"
    /\ call.command \in {"queue", "export"}
    /\ waiting' = Unread(backlog)
    /\ queue' = EmptyQueue(IF call.budget <= 0 THEN 180 ELSE call.budget)
    /\ pc' = "queue"
    /\ UNCHANGED <<exit, file, call, engineVars, reads>>

\* Higher totals come first, then lower IDs.
Ahead(x, y) == scores[x] > scores[y] \/ (scores[x] = scores[y] /\ x < y)

First(id) ==
    /\ pc = "queue"
    /\ id \in waiting
    /\ \A other \in waiting \ {id} : Ahead(id, other)

Limit == IF call.limit <= 0 THEN 5 ELSE call.limit

\* Mutant of Full: a queue takes one item more than its limit.
FullLate == Len(queue.entries) > Limit
Full == Len(queue.entries) >= Limit

\* Mutant of Over: the items taken before do not count.
OverAlone(id) == Minutes(id) > queue.budget
Over(id) == queue.used + Minutes(id) > queue.budget

\* The first item is taken even if it is longer than the budget.
Take(id) ==
    /\ First(id)
    /\ ~Full
    /\ Over(id) => queue.entries = <<>>
    /\ waiting' = waiting \ {id}
    /\ queue' = [queue EXCEPT !.entries = Append(@, id), !.used = @ + Minutes(id),
                              !.exceeded = @ \/ Over(id)]
    /\ UNCHANGED <<pc, exit, file, call, engineVars, reads>>

Skip(id) ==
    /\ First(id)
    /\ ~Full => Over(id) /\ queue.entries # <<>>
    /\ waiting' = waiting \ {id}
    /\ queue' = [queue EXCEPT !.skipped = @ \cup {id}]
    /\ UNCHANGED <<pc, exit, file, call, engineVars, reads>>

EndQueue ==
    /\ pc = "queue"
    /\ waiting = {}
    /\ Exit(0)
    /\ UNCHANGED <<file, reads>>

\* Between two runs the reader reads an item and notes it in the file.
ReadItem ==
    /\ pc = "idle"
    /\ reads < MaxReads
    /\ reads' = reads + 1
    /\ LET parsed == ParseBacklog(file)
       IN  \E i \in DOMAIN parsed.items :
             /\ parsed.items[i].status # "read"
             /\ file' = [form |-> "object", edges |-> parsed.edges, rows |-> <<>>,
                         items |-> [parsed.items EXCEPT ![i].status = "read"],
                         goal |-> parsed.goal]
    /\ UNCHANGED <<pc, exit, call, engineVars, queueVars>>

EngineStep == JoinPair \/ Analyze
QueueStep  == StartQueue \/ (\E id \in waiting : Take(id) \/ Skip(id)) \/ EndQueue

Next ==
    \/ \E c \in Calls : Run(c) \/ RunRefused(c)
    \/ EngineStep \/ Write \/ QueueStep
    \/ ReadItem

-----------------------------------------------------------------------------
(* Properties.                                                             *)

\* PlanQueue deals with every unread item once, recommends none that was read, keeps
\* to the limit, and recommends something as long as something is unread.
EveryCandidateOnce ==
    pc = "queue" =>
        LET taken == {queue.entries[i] : i \in DOMAIN queue.entries}
        IN  /\ taken \cup queue.skipped \cup waiting = Unread(backlog)
            /\ \A i, j \in DOMAIN queue.entries : queue.entries[i] = queue.entries[j] => i = j
            /\ taken \cap queue.skipped = {}
            /\ (taken \cup queue.skipped) \cap waiting = {}
            /\ Len(queue.entries) <= Limit
            /\ queue.entries = <<>> => queue.skipped = {}

\* A queue over its budget is one single item and says so.
OverBudgetAlone ==
    queue.used > queue.budget => queue.exceeded /\ Len(queue.entries) = 1

\* An item is passed over for one that is not ahead of it only if it is the longer
\* of the two.
PassedOverIsLonger ==
    pc = "queue" /\ (\A id \in IDs(backlog) : Minutes(id) \in Nat) =>
        \A s \in queue.skipped : \A i \in DOMAIN queue.entries :
            Ahead(queue.entries[i], s) \/ Minutes(s) > Minutes(queue.entries[i])

\* PlanQueue and its budget: the items are tried in the order of their scores, and
\* the budget is broken only by an item that would fit no queue.
BudgetRespected == OverBudgetAlone /\ PassedOverIsLonger

\* The analysis of a backlog in one piece.
Joined(b) ==
    LET links == DuplicatePairs(b)
        after[n \in 0..Len(links)] ==
            IF n = 0 THEN [id \in IDs(b) |-> id]
            ELSE Join(after[n - 1], links[n][1], links[n][2])
    IN  after[Len(links)]
RolesOf(b) == [id \in IDs(b) |-> Classify(b, Clusters(Joined(b)), id)]
TotalOf(b, id) == Total(b, RolesOf(b), Clusters(Joined(b)), id)

\* An item that is read costs no item its role and none a part of its score: what was
\* read before its prerequisite can only rise.
ReadingNeverHurts ==
    [][reads' # reads =>
        LET before == ParseBacklog(file) after == ParseBacklog(file')
        IN  /\ after.ok
            /\ RolesOf(after) = RolesOf(before)
            /\ \A id \in IDs(before) : TotalOf(after, id) >= TotalOf(before, id)]_citewiseVars

Abstract == INSTANCE Partition WITH
    items    <- IDs(backlog),
    links    <- ToSet(DuplicatePairs(backlog)),
    classes  <- Groups(parent),
    clusters <- clusters,
    reported <- pc \notin {"idle", "join"}

\* The union-find implements the partition of the items by their duplicate links.
ImplementsPartition == Abstract!Spec
=============================================================================
