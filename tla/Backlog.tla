------------------------------- MODULE Backlog -------------------------------
(***************************************************************************)
(* pkg/citewise/types.go: a reading backlog as it is parsed and normalised.*)
(*                                                                         *)
(* An item is a record [id, title, status, minutes, difficulty, year,      *)
(* topics, typeCues, textCues, hint, hits, energy, recs].  IDs are         *)
(* numbers, compared as the code compares strings; 0 is the empty ID.  A   *)
(* title is its set of words, cue words included; typeCues and textCues    *)
(* are those of the item's type and its notes; hits is how many goal terms *)
(* it contains, hint its goal_fit in percent.                              *)
(***************************************************************************)
EXTENDS Integers, Sequences, FiniteSets, Ordering

ItemType ==
    [id : Int, title : SUBSET STRING, status : STRING, minutes : Int, difficulty : Int,
     year : Int, topics : SUBSET STRING, typeCues : SUBSET STRING, textCues : SUBSET STRING,
     hint : Int, hits : Nat, energy : STRING, recs : Int]
EdgeType == [source : Int, target : Int, type : STRING, confidence : Int]
GoalType == [asked : BOOLEAN, familiarity : Int, energy : STRING, minutes : Int]
RowType  == [kind : STRING, edge : EdgeType, item : ItemType]
FileType ==
    [form : STRING, items : Seq(ItemType), edges : Seq(EdgeType), rows : Seq(RowType),
     goal : GoalType]

StopWords == {"the", "of"}
NormalizeTitle(title) == title \ StopWords

\* titleSimilarity(a, b) >= 0.88
SimilarTitles(a, b) ==
    LET x == NormalizeTitle(a) y == NormalizeTitle(b)
    IN  /\ x # {} /\ y # {}
        /\ 100 * Cardinality(x \cap y) >= 88 * Cardinality(x \cup y)

\* Edge types; one that is not listed stays as it is.
NormEdgeType(s) ==
    CASE s \in {"same-question", "same-topic", "similar"}      -> "same-question"
      [] s \in {"duplicates", "duplicate-of", "dupe"}          -> "duplicate"
      [] s \in {"contradicts", "counterpoint", "responds-to"}  -> "contradicts"
      [] s \in {"cites", "mentions", "mention"}                -> "cites"
      [] s \in {"prereq", "requires"}                          -> "prerequisite"
      [] s \in {"review", "surveys"}                           -> "overview"
      [] OTHER                                                 -> s

\* slugID: an ID made from the title ends in the item's place, and may be one
\* that another item was given.
SlugID(place) == place

WithID(items) ==
    [i \in DOMAIN items |->
        IF items[i].id = 0 THEN [items[i] EXCEPT !.id = SlugID(i)] ELSE items[i]]

NormalizeItem(it) ==
    [it EXCEPT !.status = IF @ = "" THEN "unread" ELSE @,
               !.difficulty = IF @ = 0 THEN 3 ELSE IF @ < 1 THEN 1 ELSE IF @ > 5 THEN 5 ELSE @,
               !.minutes = IF @ = 0 THEN 45 ELSE @]

\* Edges are [source, target, type, confidence], the confidence in percent.
NormalizeBacklogEdge(e) ==
    [e EXCEPT !.type = NormEdgeType(@), !.confidence = IF @ = 0 THEN 100 ELSE @]

Titled(items)    == \A i \in DOMAIN items : items[i].title # {}
DistinctIDs(items) == \A i, j \in DOMAIN items : items[i].id = items[j].id => i = j

NoGoal == [asked |-> FALSE, familiarity |-> 0, energy |-> "", minutes |-> 0]
Rejected == [ok |-> FALSE, items |-> <<>>, edges |-> <<>>, goal |-> NoGoal]

NormalizeBacklog(items, edges, goal) ==
    IF ~Titled(items) \/ ~DistinctIDs(WithID(items)) THEN Rejected
    ELSE LET known == WithID(items)
         IN  [ok    |-> TRUE,
              items |-> [i \in DOMAIN known |-> NormalizeItem(known[i])],
              edges |-> [i \in DOMAIN edges |-> NormalizeBacklogEdge(edges[i])],
              goal  |-> goal]

\* CSV rows are [kind, edge, item]: a row with a type, a source and a target is an
\* edge whatever its kind says, and one of kind edge is an edge whatever it lacks.
IsEdgeRow(row) ==
    row.kind = "edge" \/ (row.edge.type # "" /\ row.edge.source # 0 /\ row.edge.target # 0)

ParseCSV(rows) ==
    LET edges == Cut(rows, {i \in DOMAIN rows : IsEdgeRow(rows[i])})
        items == Cut(rows, {i \in DOMAIN rows : ~IsEdgeRow(rows[i])})
    IN  NormalizeBacklog([i \in DOMAIN items |-> items[i].item],
                         [i \in DOMAIN edges |-> edges[i].edge], NoGoal)

\* A file is [form, items, edges, rows, goal]; a CSV file without rows has no more
\* than its header.
ParseBacklog(file) ==
    CASE file.form = "object"                  -> NormalizeBacklog(file.items, file.edges, file.goal)
      [] file.form = "array"                   -> NormalizeBacklog(file.items, <<>>, NoGoal)
      [] file.form = "csv" /\ file.rows # <<>> -> ParseCSV(file.rows)
      [] OTHER                                 -> Rejected
=============================================================================
