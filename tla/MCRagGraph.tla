------------------------------ MODULE MCRagGraph ------------------------------
(***************************************************************************)
(* Backlogs of up to four papers, one of them read already, and one        *)
(* handoff or two of each retriever.                                       *)
(***************************************************************************)
EXTENDS RagGraph

Paper(id, title) ==
    [id |-> id, title |-> title, status |-> "unread", minutes |-> 60, difficulty |-> 0,
     year |-> 0, topics |-> {"t"}, typeCues |-> {}, textCues |-> {}, hint |-> 0, hits |-> 0,
     energy |-> "", recs |-> 0]
Link(s, t, type) == Edge(s, t, type, 0)
File(form, items, edges) ==
    [form |-> form, items |-> items, edges |-> edges, rows |-> <<>>, goal |-> NoGoal]

\* Two duplicate edges into one paper, a similar title, a chain of prerequisites.
Chain == File("object",
    <<[Paper(1, {"the", "graphs"}) EXCEPT !.topics = {"t", "u", "v"}],
      [Paper(2, {"logic"}) EXCEPT !.minutes = 150, !.hint = 90, !.difficulty = 9],
      [Paper(3, {"of", "graphs"}) EXCEPT !.minutes = 30, !.status = "read"],
      [Paper(4, {"sets"}) EXCEPT !.energy = "high"]>>,
    <<Link(2, 1, "requires"), Link(4, 2, "prereq"), Link(4, 3, "cites"), Link(4, 1, "mentions"),
      Link(3, 9, "cites")>>)
Dupes == File("object",
    <<Paper(1, {"a"}), Paper(2, {"b"}), [Paper(3, {"c"}) EXCEPT !.minutes = 400, !.hint = 100],
      Paper(4, {"d"})>>,
    <<Link(1, 2, "dupe"), Link(3, 2, "duplicates"), Link(4, 4, "review")>>)
Sheet == [File("csv", <<>>, <<>>) EXCEPT !.rows =
    <<[kind |-> "", edge |-> Link(0, 0, "book"), item |-> [Paper(0, {"sets"}) EXCEPT !.minutes = 200]],
      [kind |-> "item", edge |-> Link(1, 3, "prerequisite"), item |-> Paper(7, {"lost"})],
      [kind |-> "", edge |-> Link(0, 0, ""), item |-> [Paper(3, {"old"}) EXCEPT !.year = 2010, !.textCues = {"current"}]]>>]
Clash == File("array", <<Paper(2, {"a"}), Paper(0, {"b"})>>, <<>>)
Junk  == File("broken", <<>>, <<>>)
AllFiles == {Chain, Dupes, Sheet, Clash, Junk}

Call(command) ==
    [command |-> command, file |-> TRUE, prompt |-> FALSE, id |-> 0, budget |-> 180, limit |-> 0]
AllCalls ==
    {Call("help"), Call("unknown"), Call("hygiene"), Call("queue"), Call("explain"),
     [Call("roles") EXCEPT !.file = FALSE], [Call("explain") EXCEPT !.id = 1],
     [Call("queue") EXCEPT !.budget = 100, !.prompt = TRUE],
     [Call("export") EXCEPT !.budget = -1, !.limit = 2]}

Asking(cues) == [cues |-> cues, names |-> {1}, words |-> 5]
Act  == Asking({"action", "temporal"})
Name == Asking({"broad"})

Source(id, title, community) == [id |-> id, title |-> title, text |-> {}, community |-> community]
Export ==
    [origin |-> "graphrag", query |-> Act,
     documents |-> <<Source(4, {"refund", "policy"}, 0)>>,
     units |-> <<Source(2, {}, 1)>>,
     entities |-> <<Source(1, {"refund", "exception"}, 1)>>,
     reports |-> <<Source(3, {"refunds"}, 1)>>,
     claims |-> <<[id |-> 5, text |-> {"counterpoint"}, status |-> "disputed", evidence |-> <<2>>]>>,
     relations |-> <<[sourceID |-> 0, source |-> 1, targetID |-> 2, target |-> 0, weight |-> 250]>>,
     communities |-> <<[id |-> 3, report |-> 0, entities |-> <<1>>, units |-> <<>>]>>]

Result(id, chunk) == [id |-> id, title |-> {"x"}, text |-> {}, community |-> 1, chunk |-> chunk]
Results(local, global, edges) ==
    [origin |-> "lightrag", query |-> Act, local |-> local, global |-> global, relations |-> edges]
Granting == Results(<<Result(1, "permission-record")>>, <<Result(2, "")>>, <<>>)
Deciding == Results(<<Result(1, "decision")>>, <<Result(2, "")>>, <<Link(2, 1, "requires")>>)
Based    == [Deciding EXCEPT !.relations = <<Link(1, 2, "basis")>>]
Twice    == Results(<<Result(1, "")>>, <<Result(1, "")>>, <<>>)

Page(id, title, sensitivity) ==
    [NewNode(id, title, {}, "document", 1, 30) EXCEPT !.sensitivity = sensitivity,
                                                      !.item.topics = {"t"}, !.noted = FALSE]
Hybrid ==
    [origin |-> "hybrid", query |-> Name,
     nodes |-> <<[Page(3, {"policy"}, "") EXCEPT !.supersededBy = 1], [Page(1, {"policy", "exception"}, "") EXCEPT !.supersededBy = 3],
                 Page(2, {"policy", "exception"}, "confidential")>>,
     edges |-> <<Link(2, 1, "prerequisite"), Link(1, 3, "overview")>>,
     candidates |-> {1, 2}]
Dangling == [Hybrid EXCEPT !.edges = <<Link(1, 7, "cites")>>]
\* Red, and without a retrieval target.
Adrift   == [Hybrid EXCEPT !.nodes = <<[Page(1, {"x"}, "") EXCEPT !.supersededBy = 9, !.chunk = "decision"]>>,
                           !.edges = <<>>, !.candidates = {}]
AllHandoffs ==
    {FromBacklog, Export, Granting, Deciding, Based, Twice, Hybrid, Dangling, Adrift}

Reader(clearance) == [clearance |-> clearance, tenant |-> "", trusted |-> {}, unapproved |-> TRUE]
AllCallers == {Reader("internal"), Reader("public")}
=============================================================================
