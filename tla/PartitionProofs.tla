--------------------------- MODULE PartitionProofs ---------------------------
(***************************************************************************)
(* The reported clusters are the connected components of the links that    *)
(* have more than one item.                                                *)
(***************************************************************************)
EXTENDS Partition, TLAPS

PartitionInv ==
    /\ IsPartition
    /\ links \subseteq items \X items
    /\ LinkedTogether
    /\ NothingElseTogether

LEMMA PartitionInvInit == Init => PartitionInv
BY DEF Init, PartitionInv, IsPartition, LinkedTogether, NothingElseTogether

LEMMA PartitionInvPose == PartitionInv /\ Pose => PartitionInv'
<1> SUFFICES ASSUME Pose PROVE PartitionInv'
  OBVIOUS
<1>1. IsPartition'
  BY DEF Pose, IsPartition
<1>2. NothingElseTogether'
  <2> SUFFICES ASSUME NEW E \in SUBSET (items' \X items'), Equivalence(E)', links' \subseteq E,
                      NEW c \in classes', NEW x \in c, NEW y \in c
               PROVE  <<x, y>> \in E
    BY DEF NothingElseTogether
  <2>1. PICK z \in items' : c = {z}
    BY DEF Pose
  <2>2. <<z, z>> \in E
    BY DEF Equivalence
  <2> QED BY <2>1, <2>2
<1> QED BY <1>1, <1>2 DEF Pose, PartitionInv, LinkedTogether

\* Two classes joined by a link stay within every equivalence that respects the links.
LEMMA PartitionInvMerge == PartitionInv /\ Merge => PartitionInv'
<1> SUFFICES ASSUME PartitionInv, Merge PROVE PartitionInv'
  OBVIOUS
<1>1. PICK c \in classes, d \in classes :
         c # d /\ Crossing(c, d) /\ classes' = (classes \ {c, d}) \cup {c \cup d}
  BY DEF Merge
<1>2. UNCHANGED <<items, links, clusters, reported>>
  BY DEF Merge
<1>3. IsPartition'
  <2>1. UNION classes' = UNION classes
    <3>1. \A x : (\E e \in classes' : x \in e) <=> (\E e \in classes : x \in e)
      BY <1>1, ZenonT(60)
    <3> QED BY <3>1, ZenonT(60)
  <2>2. {} \notin classes'
    BY <1>1 DEF PartitionInv, IsPartition
  <2>3. ASSUME NEW a \in classes', NEW b \in classes', a # b PROVE a \cap b = {}
    <3>1. \A e \in classes \ {c, d} : e \cap (c \cup d) = {}
      BY DEF PartitionInv, IsPartition
    <3>2. CASE a \in classes \ {c, d} /\ b \in classes \ {c, d}
      BY <2>3, <3>2 DEF PartitionInv, IsPartition
    <3>3. CASE a = c \cup d
      BY <1>1, <2>3, <3>1, <3>3
    <3>4. CASE b = c \cup d
      BY <1>1, <2>3, <3>1, <3>4
    <3> QED BY <1>1, <3>2, <3>3, <3>4
  <2> QED BY <1>2, <2>1, <2>2, <2>3 DEF PartitionInv, IsPartition
<1>4. NothingElseTogether'
  <2> SUFFICES ASSUME NEW E \in SUBSET (items \X items), Equivalence(E), links \subseteq E,
                      NEW e \in classes', NEW x \in e, NEW y \in e
               PROVE  <<x, y>> \in E
    BY <1>2 DEF NothingElseTogether, Equivalence
  <2>1. \A b \in classes : \A u, v \in b : <<u, v>> \in E
    BY DEF PartitionInv, NothingElseTogether
  <2>2. PICK l \in links : l[1] \in c /\ l[2] \in d
    BY <1>1 DEF Crossing
  <2>3. l = <<l[1], l[2]>> /\ <<l[1], l[2]>> \in E
    BY <2>2 DEF PartitionInv
  <2>4. c \subseteq items /\ d \subseteq items
    BY DEF PartitionInv, IsPartition
  <2>5. ASSUME NEW u \in c, NEW v \in d PROVE <<u, v>> \in E /\ <<v, u>> \in E
    <3>1. <<u, l[1]>> \in E /\ <<l[2], v>> \in E
      BY <2>1, <2>2
    <3>2. <<u, l[2]>> \in E
      BY <3>1, <2>2, <2>3, <2>4 DEF Equivalence
    <3>3. <<u, v>> \in E
      BY <3>1, <3>2, <2>2, <2>4 DEF Equivalence
    <3> QED BY <3>3, <2>4 DEF Equivalence
  <2>6. CASE e \in classes
    BY <2>1, <2>6
  <2>7. CASE e = c \cup d
    BY <2>1, <2>5, <2>7
  <2> QED BY <1>1, <2>6, <2>7
<1>5. LinkedTogether'
  BY <1>2 DEF PartitionInv, LinkedTogether
<1> QED BY <1>2, <1>3, <1>4, <1>5 DEF PartitionInv

\* What is said of the items, links and classes alone survives a step that keeps them.
LEMMA SameQuestion ==
    ASSUME UNCHANGED <<items, links, classes>>
    PROVE  (IsPartition => IsPartition') /\ (NothingElseTogether => NothingElseTogether')
<1>1. IsPartition => IsPartition'
  BY DEF IsPartition
<1>2. ASSUME NothingElseTogether PROVE NothingElseTogether'
  <2>1. ASSUME NEW E PROVE Equivalence(E)' <=> Equivalence(E)
    BY DEF Equivalence
  <2> SUFFICES ASSUME NEW E \in SUBSET (items' \X items'), Equivalence(E)', links' \subseteq E,
                      NEW c \in classes', NEW x \in c, NEW y \in c
               PROVE  <<x, y>> \in E
    BY DEF NothingElseTogether
  <2> QED BY <1>2, <2>1 DEF NothingElseTogether
<1> QED BY <1>1, <1>2

LEMMA PartitionInvReport == PartitionInv /\ Report => PartitionInv'
<1> SUFFICES ASSUME PartitionInv, Report PROVE PartitionInv'
  OBVIOUS
<1>1. /\ UNCHANGED <<items, links, classes>>
      /\ \A c, d \in classes : c # d => ~Crossing(c, d)
      /\ clusters' = {c \in classes : \E x, y \in c : x # y}
  BY DEF Report
<1>2. LinkedTogether'
  <2> SUFFICES ASSUME NEW l \in links, l[1] # l[2]
               PROVE  \E c \in clusters' : {l[1], l[2]} \subseteq c
    BY <1>1 DEF LinkedTogether
  <2>1. PICK c \in classes, d \in classes : l[1] \in c /\ l[2] \in d
    BY DEF PartitionInv, IsPartition
  <2>2. c = d
    BY <1>1, <2>1 DEF Crossing
  <2> QED BY <1>1, <2>1, <2>2
<1>3. IsPartition' /\ NothingElseTogether'
  BY <1>1, SameQuestion DEF PartitionInv
<1> QED BY <1>1, <1>2, <1>3 DEF PartitionInv

LEMMA PartitionInvAlways == Spec => []PartitionInv
<1>1. PartitionInv /\ [Next]_partitionVars => PartitionInv'
  <2> SUFFICES ASSUME PartitionInv, [Next]_partitionVars PROVE PartitionInv'
    OBVIOUS
  <2>1. CASE UNCHANGED partitionVars
    <3>1. UNCHANGED <<items, links, classes, clusters, reported>>
      BY <2>1 DEF partitionVars
    <3>2. LinkedTogether'
      BY <3>1 DEF PartitionInv, LinkedTogether
    <3> QED BY <3>1, <3>2, SameQuestion DEF PartitionInv
  <2> QED BY <2>1, PartitionInvPose, PartitionInvMerge, PartitionInvReport DEF Next
<1> QED BY <1>1, PartitionInvInit, PTL DEF Spec

\* Duplicate clusters divide the items, and linked items share one.
THEOREM LinksAreClustered == Spec => [](IsPartition /\ LinkedTogether)
<1>1. PartitionInv => IsPartition /\ LinkedTogether
  BY DEF PartitionInv
<1> QED BY <1>1, PartitionInvAlways, PTL

\* Items come together only along links: a cluster is not larger than its component.
THEOREM OnlyLinksAreClustered == Spec => []NothingElseTogether
<1>1. PartitionInv => NothingElseTogether
  BY DEF PartitionInv
<1> QED BY <1>1, PartitionInvAlways, PTL
=============================================================================
