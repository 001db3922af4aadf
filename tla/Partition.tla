------------------------------ MODULE Partition ------------------------------
(***************************************************************************)
(* What duplicate detection promises: it starts from items that stand each *)
(* alone, joins the classes of linked items until no link leaves a class,  *)
(* and reports the classes of more than one item.  Citewise.tla implements *)
(* it with the union-find of DetectDuplicates (pkg/citewise/engine.go).    *)
(***************************************************************************)
EXTENDS Integers

VARIABLES
    items,      \* the items compared
    links,      \* the pairs found to be duplicates
    classes,    \* the classes so far
    clusters,   \* the classes reported
    reported    \* whether they were

partitionVars == <<items, links, classes, clusters, reported>>

Init ==
    /\ items = {} /\ links = {} /\ classes = {}
    /\ clusters = {} /\ reported = FALSE

\* A new question.
Pose ==
    /\ links' \subseteq items' \X items'
    /\ classes' = {{x} : x \in items'}
    /\ clusters' = {} /\ reported' = FALSE

Crossing(c, d) == \E l \in links : l[1] \in c /\ l[2] \in d

Merge ==
    /\ \E c, d \in classes :
         /\ c # d /\ Crossing(c, d)
         /\ classes' = (classes \ {c, d}) \cup {c \cup d}
    /\ UNCHANGED <<items, links, clusters, reported>>

Report ==
    /\ \A c, d \in classes : c # d => ~Crossing(c, d)
    /\ clusters' = {c \in classes : \E x, y \in c : x # y}
    /\ reported' = TRUE
    /\ UNCHANGED <<items, links, classes>>

Next == Pose \/ Merge \/ Report

Spec == Init /\ [][Next]_partitionVars

-----------------------------------------------------------------------------
(* Properties.  Together they say: the clusters are the connected          *)
(* components of the links with more than one item.                        *)

\* The classes divide the items.
IsPartition ==
    /\ UNION classes = items
    /\ {} \notin classes
    /\ \A c, d \in classes : c = d \/ c \cap d = {}

\* Two linked items are in the same reported cluster.
LinkedTogether ==
    reported => \A l \in links : l[1] # l[2] => \E c \in clusters : {l[1], l[2]} \subseteq c

Equivalence(E) ==
    /\ E \subseteq items \X items
    /\ \A x \in items : <<x, x>> \in E
    /\ \A x, y \in items : <<x, y>> \in E => <<y, x>> \in E
    /\ \A x, y, z \in items : <<x, y>> \in E /\ <<y, z>> \in E => <<x, z>> \in E

\* Nothing but links brings items together: items that some equivalence which
\* respects the links keeps apart are never in one class.
NothingElseTogether ==
    \A E \in SUBSET (items \X items) :
        Equivalence(E) /\ links \subseteq E =>
            \A c \in classes : \A x, y \in c : <<x, y>> \in E
=============================================================================
