----------------------------- MODULE ClusterProofs -----------------------------
(***************************************************************************)
(* DetectDuplicates: the union-find of Citewise.tla implements the         *)
(* partition of the items by their duplicate links (Partition.tla), for    *)
(* every backlog a file or a handoff makes.                                *)
(***************************************************************************)
EXTENDS RagGraph, OrderingProofs

-----------------------------------------------------------------------------
(* The union-find.  A set is closed if it holds the parent of each of its  *)
(* IDs; in a forest every closed set has a root, so following the parents  *)
(* comes to an end.                                                        *)

Parents(par) == par \in [DOMAIN par -> DOMAIN par]
ClosedSet(par, S) == S \subseteq DOMAIN par /\ \A y \in S : par[y] \in S
IsRoot(par, r) == r \in DOMAIN par /\ par[r] = r
Forest(par) == \A S \in SUBSET DOMAIN par : S # {} /\ ClosedSet(par, S) => \E r \in S : IsRoot(par, r)

\* The IDs that no closed set with x is without.
Reach(par, x) == {y \in DOMAIN par : \A S \in SUBSET DOMAIN par : x \in S /\ ClosedSet(par, S) => y \in S}

LEMMA ReachClosed ==
    ASSUME NEW par, Parents(par), NEW x \in DOMAIN par
    PROVE  /\ x \in Reach(par, x) /\ ClosedSet(par, Reach(par, x))
           /\ \A S : x \in S /\ ClosedSet(par, S) => Reach(par, x) \subseteq S
<1>1. \A y \in DOMAIN par : par[y] \in DOMAIN par BY DEF Parents
<1>2. \A y \in Reach(par, x) : par[y] \in Reach(par, x) BY <1>1 DEF Reach, ClosedSet
<1>3. Reach(par, x) \subseteq DOMAIN par /\ x \in Reach(par, x) BY DEF Reach
<1>4. \A S : x \in S /\ ClosedSet(par, S) => Reach(par, x) \subseteq S BY DEF Reach, ClosedSet
<1> QED BY <1>2, <1>3, <1>4 DEF ClosedSet

LEMMA ReachStep ==
    ASSUME NEW par, Parents(par), NEW x \in DOMAIN par
    PROVE  Reach(par, x) = IF par[x] = x THEN {x} ELSE {x} \cup Reach(par, par[x])
<1>1. par[x] \in DOMAIN par BY DEF Parents
<1>2. /\ x \in Reach(par, x) /\ ClosedSet(par, Reach(par, x))
      /\ \A S : x \in S /\ ClosedSet(par, S) => Reach(par, x) \subseteq S
  BY ReachClosed
<1>3. /\ par[x] \in Reach(par, par[x]) /\ ClosedSet(par, Reach(par, par[x]))
      /\ \A S : par[x] \in S /\ ClosedSet(par, S) => Reach(par, par[x]) \subseteq S
  BY <1>1, ReachClosed
<1>4. CASE par[x] = x
  <2>1. ClosedSet(par, {x}) BY <1>4 DEF ClosedSet
  <2> QED BY <1>2, <1>4, <2>1
<1>5. CASE par[x] # x
  <2>1. ClosedSet(par, {x} \cup Reach(par, par[x])) BY <1>3 DEF ClosedSet
  <2>2. par[x] \in Reach(par, x) BY <1>2 DEF ClosedSet
  <2> QED BY <1>2, <1>3, <1>5, <2>1, <2>2
<1> QED BY <1>4, <1>5

\* What find follows is what closed sets cannot do without.
LEMMA WayIsReach ==
    ASSUME NEW par, Parents(par), Forest(par)
    PROVE  \A x \in DOMAIN par : Way(par)[x] = Reach(par, x)
<1> DEFINE w == [x \in DOMAIN par |-> Reach(par, x)]
<1>1. w = [x \in DOMAIN par |-> IF par[x] = x THEN {x} ELSE {x} \cup w[par[x]]]
  <2>1. \A x \in DOMAIN par : par[x] \in DOMAIN par BY DEF Parents
  <2>2. \A x \in DOMAIN par : w[x] = IF par[x] = x THEN {x} ELSE {x} \cup w[par[x]]
    BY <2>1, ReachStep
  <2> QED BY <2>2
<1> HIDE DEF w
<1>2. Way(par) = [x \in DOMAIN par |-> IF par[x] = x THEN {x} ELSE {x} \cup Way(par)[par[x]]]
  BY <1>1, Zenon DEF Way
<1>3. \A x \in DOMAIN par : Way(par)[x] = IF par[x] = x THEN {x} ELSE {x} \cup Way(par)[par[x]]
  BY <1>2
<1> DEFINE T == {x \in DOMAIN par : Way(par)[x] # Reach(par, x)}
<1>4. SUFFICES ASSUME T # {} PROVE FALSE OBVIOUS
<1>5. ClosedSet(par, T)
  <2> SUFFICES ASSUME NEW x \in T PROVE par[x] \in T BY DEF ClosedSet
  <2>1. par[x] \in DOMAIN par BY DEF Parents
  <2>2. Reach(par, x) = IF par[x] = x THEN {x} ELSE {x} \cup Reach(par, par[x]) BY ReachStep
  <2> QED BY <1>3, <2>1, <2>2
<1>6. PICK r \in T : IsRoot(par, r) BY <1>4, <1>5 DEF Forest
<1>7. Reach(par, r) = {r} BY <1>6, ReachStep DEF IsRoot
<1>8. Way(par)[r] = {r} BY <1>3, <1>6 DEF IsRoot
<1> QED BY <1>6, <1>7, <1>8

\* The root is the one root on the way, and an ID shares its parent's.
LEMMA RootOnWay ==
    ASSUME NEW par, Parents(par), Forest(par), NEW x \in DOMAIN par
    PROVE  /\ Root(par, x) \in Way(par)[x] /\ IsRoot(par, Root(par, x))
           /\ \A r \in Way(par)[x] : IsRoot(par, r) => r = Root(par, x)
           /\ Root(par, par[x]) = Root(par, x)
           /\ \A y \in Way(par)[x] : y \in DOMAIN par /\ Root(par, y) = Root(par, x)
<1> DEFINE way(z) == Way(par)[z]
<1>1. \A z \in DOMAIN par :
         /\ z \in way(z) /\ ClosedSet(par, way(z))
         /\ \A S : z \in S /\ ClosedSet(par, S) => way(z) \subseteq S
  BY WayIsReach, ReachClosed
<1>2. \A z \in DOMAIN par : way(z) = IF par[z] = z THEN {z} ELSE {z} \cup way(par[z])
  <2> SUFFICES ASSUME NEW z \in DOMAIN par
               PROVE  way(z) = IF par[z] = z THEN {z} ELSE {z} \cup way(par[z])
    OBVIOUS
  <2>1. par[z] \in DOMAIN par BY DEF Parents
  <2>2. way(z) = Reach(par, z) /\ way(par[z]) = Reach(par, par[z]) BY <2>1, WayIsReach
  <2>3. Reach(par, z) = IF par[z] = z THEN {z} ELSE {z} \cup Reach(par, par[z]) BY ReachStep
  <2> HIDE DEF way
  <2> QED BY <2>2, <2>3
<1>3. \A z \in DOMAIN par : Root(par, z) \in way(z) /\ IsRoot(par, Root(par, z))
  <2> SUFFICES ASSUME NEW z \in DOMAIN par
               PROVE  Root(par, z) \in way(z) /\ IsRoot(par, Root(par, z))
    OBVIOUS
  <2>1. way(z) # {} /\ way(z) \in SUBSET DOMAIN par /\ ClosedSet(par, way(z))
    BY <1>1 DEF ClosedSet
  <2>2. \E y \in way(z) : par[y] = y BY <2>1 DEF Forest, IsRoot
  <2> QED BY <2>1, <2>2 DEF Root, IsRoot
<1> HIDE DEF way
<1>4. ASSUME NEW z \in DOMAIN par, NEW r \in way(z), IsRoot(par, r), NEW q \in way(z), IsRoot(par, q)
      PROVE  q = r
  <2> DEFINE T == {y \in way(z) : r \in way(y)}
  <2>0. way(z) \subseteq DOMAIN par BY <1>1 DEF ClosedSet
  <2>1. ClosedSet(par, T)
    <3> SUFFICES ASSUME NEW y \in T PROVE par[y] \in way(z) /\ r \in way(par[y])
      BY <2>0 DEF ClosedSet
    <3>1. y \in DOMAIN par /\ par[y] \in way(z) BY <1>1 DEF ClosedSet
    <3> QED BY <1>2, <1>4, <3>1 DEF IsRoot
  <2>2. z \in T BY <1>1
  <2>3. q \in T BY <1>1, <2>1, <2>2
  <2>4. way(q) = {q} BY <1>2, <1>4 DEF IsRoot
  <2> QED BY <2>3, <2>4
<1>5. \A z \in DOMAIN par : \A r \in way(z) : IsRoot(par, r) => r = Root(par, z)
  BY <1>3, <1>4
<1>6. ASSUME NEW y \in way(x) PROVE y \in DOMAIN par /\ Root(par, y) = Root(par, x)
  <2>1. y \in DOMAIN par BY <1>1 DEF ClosedSet
  <2>2. way(y) \subseteq way(x) BY <1>1, <2>1
  <2> QED BY <1>3, <1>5, <2>1, <2>2
<1>7. par[x] \in way(x) BY <1>1 DEF ClosedSet
<1> QED BY <1>3, <1>5, <1>6, <1>7 DEF way

\* A function that parents and children agree on, and that keeps the roots, is Root.
LEMMA RootIs ==
    ASSUME NEW par, Parents(par), Forest(par), NEW f \in [DOMAIN par -> DOMAIN par],
           \A x \in DOMAIN par : f[par[x]] = f[x],
           \A r \in DOMAIN par : par[r] = r => f[r] = r
    PROVE  \A x \in DOMAIN par : Root(par, x) = f[x]
<1> SUFFICES ASSUME NEW x \in DOMAIN par PROVE Root(par, x) = f[x]
  OBVIOUS
<1> DEFINE S == {y \in DOMAIN par : f[y] = f[x]}
<1>1. x \in S /\ ClosedSet(par, S) BY DEF ClosedSet, Parents
<1>2. Way(par)[x] \subseteq S BY <1>1, WayIsReach, ReachClosed
<1>3. Root(par, x) \in S /\ IsRoot(par, Root(par, x)) BY <1>2, RootOnWay
<1> QED BY <1>3 DEF IsRoot

\* Compressing a way keeps every root.
LEMMA CompressKeeps ==
    ASSUME NEW par, Parents(par), Forest(par), NEW x \in DOMAIN par
    PROVE  /\ DOMAIN Compress(par, x) = DOMAIN par
           /\ Parents(Compress(par, x)) /\ Forest(Compress(par, x))
           /\ \A y \in DOMAIN par : Root(Compress(par, x), y) = Root(par, y)
<1> DEFINE com == Compress(par, x)
           way == Way(par)[x]
           top == Root(par, x)
           f == [y \in DOMAIN par |-> Root(par, y)]
<1>1. top \in way /\ IsRoot(par, top) /\ \A y \in way : y \in DOMAIN par /\ Root(par, y) = top
  BY RootOnWay
<1>2. /\ DOMAIN com = DOMAIN par
      /\ \A y \in DOMAIN par : com[y] = IF y \in way THEN top ELSE par[y]
      /\ com = [y \in DOMAIN com |-> com[y]]
  BY DEF Compress
<1>3. \A y \in DOMAIN par : IsRoot(par, Root(par, y)) /\ Root(par, par[y]) = Root(par, y)
  BY RootOnWay
<1>4. \A r \in way : par[r] = r => r = top BY <1>1, RootOnWay DEF IsRoot
<1>5. \A r \in DOMAIN par : par[r] = r => Root(par, r) = r
  <2> SUFFICES ASSUME NEW r \in DOMAIN par, par[r] = r PROVE Root(par, r) = r
    OBVIOUS
  <2>1. r \in Way(par)[r] BY WayIsReach, ReachClosed
  <2> QED BY <2>1, RootOnWay DEF IsRoot
<1> HIDE DEF com, way, top
<1>6. Parents(com) BY <1>1, <1>2 DEF Parents, IsRoot
<1>7. Forest(com)
  <2> SUFFICES ASSUME NEW S \in SUBSET DOMAIN par, S # {}, ClosedSet(com, S)
               PROVE  \E r \in S : IsRoot(com, r)
    BY <1>2 DEF Forest
  <2>1. CASE S \cap way # {}
    <3>1. top \in S BY <1>2, <2>1 DEF ClosedSet
    <3>2. com[top] = top BY <1>1, <1>2
    <3> QED BY <1>2, <3>1, <3>2 DEF IsRoot
  <2>2. CASE S \cap way = {}
    <3>1. \A y \in S : com[y] = par[y] BY <1>2, <2>2
    <3>2. ClosedSet(par, S) BY <3>1 DEF ClosedSet
    <3>3. PICK r \in S : IsRoot(par, r) BY <3>2 DEF Forest
    <3> QED BY <1>2, <3>1, <3>3 DEF IsRoot
  <2> QED BY <2>1, <2>2
<1>8. f \in [DOMAIN com -> DOMAIN com] /\ \A y \in DOMAIN par : f[y] = Root(par, y)
  BY <1>2, <1>3 DEF IsRoot
<1> HIDE DEF f
<1>9. \A y \in DOMAIN com : f[com[y]] = f[y]
  <2> SUFFICES ASSUME NEW y \in DOMAIN par PROVE f[com[y]] = f[y]
    BY <1>2
  <2>1. CASE y \in way
    <3>1. com[y] = top /\ top \in DOMAIN par BY <1>1, <1>2, <2>1
    <3>2. Root(par, top) = top /\ Root(par, y) = top BY <1>1, <2>1
    <3> QED BY <1>8, <3>1, <3>2
  <2>2. CASE y \notin way
    <3>1. com[y] = par[y] /\ par[y] \in DOMAIN par BY <1>2, <2>2 DEF Parents
    <3> QED BY <1>3, <1>8, <3>1
  <2> QED BY <2>1, <2>2
<1>10. \A r \in DOMAIN com : com[r] = r => f[r] = r
  <2> SUFFICES ASSUME NEW r \in DOMAIN par, com[r] = r PROVE Root(par, r) = r
    BY <1>2, <1>8
  <2>1. CASE r \in way
    BY <1>1, <1>2, <2>1
  <2>2. CASE r \notin way
    BY <1>2, <1>5, <2>2
  <2> QED BY <2>1, <2>2
<1>11. \A y \in DOMAIN com : Root(com, y) = f[y] BY <1>6, <1>7, <1>8, <1>9, <1>10, RootIs
<1> QED BY <1>2, <1>6, <1>7, <1>8, <1>11 DEF com

\* Joining two IDs moves the root of the second one's tree below the first one's.
LEMMA JoinMoves ==
    ASSUME NEW par, Parents(par), Forest(par), NEW x \in DOMAIN par, NEW y \in DOMAIN par
    PROVE  /\ DOMAIN Join(par, x, y) = DOMAIN par
           /\ Parents(Join(par, x, y)) /\ Forest(Join(par, x, y))
           /\ \A z \in DOMAIN par :
                Root(Join(par, x, y), z) = IF Root(par, z) = Root(par, y) THEN Root(par, x)
                                           ELSE Root(par, z)
<1> DEFINE com == Compress(Compress(par, x), y)
           a == Root(par, x)
           b == Root(par, y)
           f == [z \in DOMAIN par |-> IF Root(par, z) = b THEN a ELSE Root(par, z)]
<1>1. /\ DOMAIN com = DOMAIN par /\ Parents(com) /\ Forest(com)
      /\ \A z \in DOMAIN par : Root(com, z) = Root(par, z)
  BY CompressKeeps
<1>2. Join(par, x, y) = IF a = b THEN com ELSE [com EXCEPT ![b] = a]
  BY DEF Join
<1> HIDE DEF com
<1>3. \A z \in DOMAIN par :
         /\ IsRoot(com, Root(par, z)) /\ Root(par, com[z]) = Root(par, z)
         /\ com[z] \in DOMAIN par
  BY <1>1, RootOnWay DEF Parents
<1>4. \A r \in DOMAIN par : com[r] = r => Root(par, r) = r
  <2> SUFFICES ASSUME NEW r \in DOMAIN par, com[r] = r PROVE Root(com, r) = r
    BY <1>1
  <2>1. r \in Way(com)[r] BY <1>1, WayIsReach, ReachClosed
  <2> QED BY <1>1, <2>1, RootOnWay DEF IsRoot
<1>5. a \in DOMAIN par /\ b \in DOMAIN par /\ com[a] = a /\ com[b] = b
  BY <1>1, <1>3 DEF IsRoot
<1>6. CASE a = b
  BY <1>1, <1>2, <1>6
<1>7. CASE a # b
  <2> DEFINE new == [com EXCEPT ![b] = a]
  <2>1. /\ DOMAIN new = DOMAIN par /\ new = [z \in DOMAIN par |-> new[z]]
        /\ new[b] = a /\ \A z \in DOMAIN par : z # b => new[z] = com[z]
    BY <1>1, <1>5
  <2> HIDE DEF new, a, b
  <2>2. Parents(new) BY <1>3, <1>5, <2>1 DEF Parents
  <2>3. Forest(new)
    <3> SUFFICES ASSUME NEW S \in SUBSET DOMAIN par, S # {}, ClosedSet(new, S)
                 PROVE  \E r \in S : IsRoot(new, r)
      BY <2>1 DEF Forest
    <3>1. CASE b \in S
      <4>1. a \in S /\ new[a] = a BY <1>5, <1>7, <2>1, <3>1 DEF ClosedSet
      <4> QED BY <1>5, <2>1, <4>1 DEF IsRoot
    <3>2. CASE b \notin S
      <4>1. ClosedSet(com, S) BY <1>1, <2>1, <3>2 DEF ClosedSet
      <4>2. PICK r \in S : IsRoot(com, r) BY <1>1, <4>1 DEF Forest
      <4> QED BY <2>1, <3>2, <4>2 DEF IsRoot
    <3> QED BY <3>1, <3>2
  <2>4. /\ f \in [DOMAIN new -> DOMAIN new]
        /\ \A z \in DOMAIN par : f[z] = IF Root(par, z) = b THEN a ELSE Root(par, z)
    BY <1>1, <1>3, <1>5, <2>1 DEF IsRoot
  <2> HIDE DEF f
  <2>5. Root(par, a) = a /\ Root(par, b) = b BY <1>4, <1>5
  <2>6. \A z \in DOMAIN new : f[new[z]] = f[z]
    <3> SUFFICES ASSUME NEW z \in DOMAIN par PROVE f[new[z]] = f[z]
      BY <2>1
    <3>1. CASE z = b
      BY <1>5, <1>7, <2>1, <2>4, <2>5, <3>1
    <3>2. CASE z # b
      BY <1>3, <2>1, <2>4, <3>2
    <3> QED BY <3>1, <3>2
  <2>7. \A r \in DOMAIN new : new[r] = r => f[r] = r
    BY <1>4, <1>5, <1>7, <2>1, <2>4
  <2>8. \A z \in DOMAIN new : Root(new, z) = f[z] BY <2>2, <2>3, <2>4, <2>6, <2>7, RootIs
  <2> QED BY <1>2, <1>7, <2>1, <2>2, <2>3, <2>4, <2>8 DEF new, a, b
<1> QED BY <1>6, <1>7

-----------------------------------------------------------------------------
(* The groups: the IDs with one root.                                      *)

Group(par, x) == {y \in DOMAIN par : Root(par, y) = Root(par, x)}

LEMMA GroupsAre ==
    ASSUME NEW par
    PROVE  /\ Groups(par) = {Group(par, x) : x \in DOMAIN par}
           /\ \A x, y \in DOMAIN par : Group(par, x) = Group(par, y) <=> Root(par, x) = Root(par, y)
           /\ \A g \in Groups(par) : \A x \in g : x \in DOMAIN par /\ g = Group(par, x)
<1>1. Groups(par) = {Group(par, x) : x \in DOMAIN par}
  <2>1. Groups(par) = {{y \in DOMAIN par : Root(par, y) = Root(par, x)} : x \in DOMAIN par}
    BY DEF Groups
  <2> QED BY <2>1 DEF Group
<1>2. \A x \in DOMAIN par : x \in Group(par, x) BY DEF Group
<1>3. \A x, y \in DOMAIN par : Group(par, x) = Group(par, y) <=> Root(par, x) = Root(par, y)
  BY <1>2 DEF Group
<1>4. ASSUME NEW g \in Groups(par), NEW x \in g PROVE x \in DOMAIN par /\ g = Group(par, x)
  <2>1. PICK z \in DOMAIN par : g = Group(par, z) BY <1>1
  <2>2. x \in DOMAIN par /\ Root(par, x) = Root(par, z) BY <2>1 DEF Group
  <2> QED BY <1>3, <2>1, <2>2
<1> QED BY <1>1, <1>3, <1>4

\* Each ID stands alone at first.
LEMMA GroupsAlone ==
    ASSUME NEW S
    PROVE  LET par == [x \in S |-> x]
           IN  Parents(par) /\ Forest(par) /\ Groups(par) = {{x} : x \in S}
<1> DEFINE par == [x \in S |-> x]
<1>1. DOMAIN par = S /\ \A x \in S : par[x] = x OBVIOUS
<1>2. par = [x \in DOMAIN par |-> par[x]] OBVIOUS
<1> HIDE DEF par
<1>3. Parents(par) BY <1>1, <1>2 DEF Parents
<1>4. Forest(par) BY <1>1 DEF Forest, IsRoot
<1>5. \A x \in S : Root(par, x) = x
  <2> SUFFICES ASSUME NEW x \in S PROVE Root(par, x) = x
    OBVIOUS
  <2>1. Way(par)[x] = {x}
    <3>1. Way(par)[x] = Reach(par, x) BY <1>1, <1>3, <1>4, WayIsReach
    <3>2. Reach(par, x) = {x} BY <1>1, <1>3, ReachStep
    <3> QED BY <3>1, <3>2
  <2> QED BY <1>1, <1>3, <1>4, <2>1, RootOnWay
<1>6. \A x \in S : Group(par, x) = {x} BY <1>1, <1>5 DEF Group
<1>7. Groups(par) = {Group(par, x) : x \in S} BY <1>1, GroupsAre
<1> QED BY <1>3, <1>4, <1>6, <1>7 DEF par

\* Joining two IDs of one group changes no group, and else makes one group of theirs.
LEMMA GroupsJoin ==
    ASSUME NEW par, Parents(par), Forest(par), NEW x \in DOMAIN par, NEW y \in DOMAIN par
    PROVE  /\ Root(par, x) = Root(par, y) => Groups(Join(par, x, y)) = Groups(par)
           /\ Root(par, x) # Root(par, y) =>
                Groups(Join(par, x, y)) =
                  (Groups(par) \ {Group(par, x), Group(par, y)}) \cup {Group(par, x) \cup Group(par, y)}
<1> DEFINE new == Join(par, x, y)
           a == Root(par, x)
           b == Root(par, y)
<1>1. /\ DOMAIN new = DOMAIN par
      /\ \A z \in DOMAIN par : Root(new, z) = IF Root(par, z) = b THEN a ELSE Root(par, z)
  BY JoinMoves
<1>2. /\ Groups(new) = {Group(new, z) : z \in DOMAIN par}
      /\ Groups(par) = {Group(par, z) : z \in DOMAIN par}
  BY <1>1, GroupsAre
<1>3. CASE a = b
  <2>1. \A z \in DOMAIN par : Root(new, z) = Root(par, z) BY <1>1, <1>3
  <2> HIDE DEF new
  <2>2. \A z \in DOMAIN par : Group(new, z) = Group(par, z) BY <1>1, <2>1 DEF Group
  <2> QED BY <1>2, <1>3, <2>2 DEF new
<1>4. CASE a # b
  <2> HIDE DEF new
  <2>0. /\ \A z \in DOMAIN par : z \in Group(par, x) <=> Root(par, z) = a
        /\ \A z \in DOMAIN par : z \in Group(par, y) <=> Root(par, z) = b
        /\ Group(par, x) \subseteq DOMAIN par /\ Group(par, y) \subseteq DOMAIN par
    BY DEF Group
  <2> HIDE DEF a, b
  <2>1. \A z \in DOMAIN par : Root(par, z) \in {a, b} => Group(new, z) = Group(par, x) \cup Group(par, y)
    <3> SUFFICES ASSUME NEW z \in DOMAIN par, Root(par, z) \in {a, b}
                 PROVE  Group(new, z) = Group(par, x) \cup Group(par, y)
      OBVIOUS
    <3>1. Root(new, z) = a BY <1>1
    <3>2. \A u \in DOMAIN par : Root(new, u) = a <=> u \in Group(par, x) \cup Group(par, y)
      BY <1>1, <2>0
    <3>3. Group(new, z) = {u \in DOMAIN par : Root(new, u) = a} BY <1>1, <3>1 DEF Group
    <3> QED BY <2>0, <3>2, <3>3
  <2>2. \A z \in DOMAIN par : Root(par, z) \notin {a, b} => Group(new, z) = Group(par, z)
    BY <1>1 DEF Group
  <2>3. \A z \in DOMAIN par :
           Root(par, z) \in {a, b} <=> Group(par, z) \in {Group(par, x), Group(par, y)}
    BY GroupsAre DEF a, b
  <2>4. x \in DOMAIN par /\ Root(par, x) \in {a, b} BY DEF a
  <2>5. Groups(new) = (Groups(par) \ {Group(par, x), Group(par, y)}) \cup {Group(par, x) \cup Group(par, y)}
    <3>1. \A z \in DOMAIN par :
             Group(new, z) \in (Groups(par) \ {Group(par, x), Group(par, y)})
                               \cup {Group(par, x) \cup Group(par, y)}
      BY <1>2, <2>1, <2>2, <2>3
    <3>2. Group(par, x) \cup Group(par, y) \in Groups(new) BY <1>2, <2>1, <2>4
    <3>3. \A z \in DOMAIN par :
             Group(par, z) \notin {Group(par, x), Group(par, y)} => Group(par, z) \in Groups(new)
      BY <1>2, <2>2, <2>3
    <3> QED BY <1>2, <3>1, <3>2, <3>3, ZenonT(60)
  <2> QED BY <1>4, <2>5 DEF new, a, b
<1> QED BY <1>3, <1>4

-----------------------------------------------------------------------------
(* What a backlog, a handoff and a candidate set are made of.  The title   *)
(* of a node made from a text unit or a claim is its ID.  The provers do   *)
(* not know that a literal is a string, so Names lists the literals.       *)

Names ==
    STRING \cup
    {"", "unread", "read", "same-question", "duplicate", "contradicts", "cites", "prerequisite",
     "overview", "supersedes", "decision-basis", "approved-by", "evidence-for",
     "evidence-against", "implements", "exception-to", "applies-to", "version-of",
     "community-member-of", "owned-by", "related-to", "document", "chunk", "entity",
     "community-summary", "claim", "internal"}
Words == Names \cup {ToString(n) : n \in Int}
ItemKind ==
    [id : Int, title : SUBSET Words, status : Names, minutes : Int, difficulty : Int,
     year : Int, topics : SUBSET Words, typeCues : SUBSET Words, textCues : SUBSET Words,
     hint : Int, hits : Nat, energy : Names, recs : Int]
EdgeKind == [source : Int, target : Int, type : Names, confidence : Int]
GoalKind == [asked : BOOLEAN, familiarity : Int, energy : Names, minutes : Int]
RowKind  == [kind : Names, edge : EdgeKind, item : ItemKind]
FileKind ==
    [form : Names \cup {"object"}, items : Seq(ItemKind), edges : Seq(EdgeKind),
     rows : Seq(RowKind), goal : GoalKind]
BacklogKind == [items : Seq(ItemKind), edges : Seq(EdgeKind), goal : GoalKind]
ParsedKind  == [ok : BOOLEAN, items : Seq(ItemKind), edges : Seq(EdgeKind), goal : GoalKind]
NodeKind ==
    [item : ItemKind, text : SUBSET Words, noted : BOOLEAN, chunk : Names, community : Int,
     semantic : Int, supersededBy : Int, trust : Int, approvedBy : SUBSET STRING,
     tenant : Names, sensitivity : Names]
SetKind ==
    [query : QueryType, nodes : Seq(NodeKind), edges : Seq(EdgeKind), candidates : SUBSET Int]
HandoffKind == ExportType \cup ResultsType \cup HybridType \cup {FromBacklog, NoHandoff}

LEMMA InKind ==
    /\ ItemType \subseteq ItemKind /\ EdgeType \subseteq EdgeKind /\ GoalType \subseteq GoalKind
    /\ RowType \subseteq RowKind /\ NodeType \subseteq NodeKind
    /\ Seq(ItemType) \subseteq Seq(ItemKind) /\ Seq(EdgeType) \subseteq Seq(EdgeKind)
    /\ Seq(RowType) \subseteq Seq(RowKind) /\ Seq(NodeType) \subseteq Seq(NodeKind)
<1>0. STRING \subseteq Names /\ SUBSET STRING \subseteq SUBSET Words
  BY DEF Names, Words
<1>1. ItemType \subseteq ItemKind BY <1>0 DEF ItemType, ItemKind
<1>2. EdgeType \subseteq EdgeKind BY <1>0 DEF EdgeType, EdgeKind
<1>3. GoalType \subseteq GoalKind BY <1>0 DEF GoalType, GoalKind
<1>4. RowType \subseteq RowKind BY <1>0, <1>1, <1>2 DEF RowType, RowKind
<1>5. NodeType \subseteq NodeKind BY <1>0, <1>1 DEF NodeType, NodeKind
<1> QED BY <1>1, <1>2, <1>3, <1>4, <1>5, SeqMonotonic

LEMMA FileInKind == FileType \subseteq FileKind
<1>1. STRING \subseteq Names BY DEF Names
<1> QED BY <1>1, InKind DEF FileType, FileKind

\* A function of the numbers up to n is a sequence.
LEMMA MadeSeq ==
    ASSUME NEW n \in Nat, NEW T, NEW t, t = [i \in 1..n |-> t[i]], \A i \in 1..n : t[i] \in T
    PROVE  t \in Seq(T) /\ Len(t) = n /\ DOMAIN t = 1..n
<1>1. t \in [1..n -> T] OBVIOUS
<1> QED BY <1>1

-----------------------------------------------------------------------------
(* Parsing a file.                                                         *)

LEMMA NoGoalKind == NoGoal \in GoalKind /\ Rejected \in ParsedKind
<1>1. <<>> \in Seq(ItemKind) /\ <<>> \in Seq(EdgeKind) OBVIOUS
<1>2. NoGoal \in GoalKind BY DEF NoGoal, GoalKind, Names
<1> QED BY <1>1, <1>2 DEF Rejected, ParsedKind

LEMMA NormalizeItemKind ==
    ASSUME NEW it \in ItemKind
    PROVE  NormalizeItem(it) \in ItemKind
<1> DEFINE a == IF it.status = "" THEN "unread" ELSE it.status
           b == IF it.difficulty = 0 THEN 3
                ELSE IF it.difficulty < 1 THEN 1
                ELSE IF it.difficulty > 5 THEN 5 ELSE it.difficulty
           c == IF it.minutes = 0 THEN 45 ELSE it.minutes
<1>1. it.status \in Names /\ it.difficulty \in Int /\ it.minutes \in Int BY DEF ItemKind
<1>2. a \in Names BY <1>1 DEF Names
<1>3. b \in Int BY <1>1
<1>4. c \in Int BY <1>1
<1>5. NormalizeItem(it) = [it EXCEPT !.status = a, !.difficulty = b, !.minutes = c]
  BY Zenon DEF NormalizeItem
<1> HIDE DEF a, b, c
<1>6. [it EXCEPT !.status = a, !.difficulty = b, !.minutes = c] \in ItemKind
  BY <1>2, <1>3, <1>4 DEF ItemKind
<1> QED BY <1>5, <1>6

LEMMA NormalizeEdgeKind ==
    ASSUME NEW e \in EdgeKind
    PROVE  NormalizeBacklogEdge(e) \in EdgeKind /\ NormalizeEdgeValue(e) \in EdgeKind
<1> DEFINE a == NormEdgeType(e.type)
           b == IF e.confidence = 0 THEN 100 ELSE e.confidence
           c == NormalizeEdge(e.type)
<1>1. e.type \in Names /\ e.confidence \in Int BY DEF EdgeKind
<1>2. a \in Names BY <1>1 DEF NormEdgeType, Names
<1>3. b \in Int BY <1>1
<1>4. c \in Names BY DEF NormalizeEdge, Names
<1>5. NormalizeBacklogEdge(e) = [e EXCEPT !.type = a, !.confidence = b]
  BY Zenon DEF NormalizeBacklogEdge
<1>6. NormalizeEdgeValue(e) = [e EXCEPT !.type = c]
  BY Zenon DEF NormalizeEdgeValue
<1> HIDE DEF a, b, c
<1>7. [e EXCEPT !.type = a, !.confidence = b] \in EdgeKind BY <1>2, <1>3 DEF EdgeKind
<1>8. [e EXCEPT !.type = c] \in EdgeKind BY <1>4 DEF EdgeKind
<1> QED BY <1>5, <1>6, <1>7, <1>8

LEMMA NormalizeBacklogKind ==
    ASSUME NEW items \in Seq(ItemKind), NEW edges \in Seq(EdgeKind), NEW goal \in GoalKind
    PROVE  NormalizeBacklog(items, edges, goal) \in ParsedKind
<1> DEFINE known == WithID(items)
           its == [i \in DOMAIN known |-> NormalizeItem(known[i])]
           eds == [i \in DOMAIN edges |-> NormalizeBacklogEdge(edges[i])]
<1>2. Len(items) \in Nat /\ DOMAIN items = 1..Len(items) /\ \A i \in 1..Len(items) : items[i] \in ItemKind
  OBVIOUS
<1>3. known \in Seq(ItemKind)
  <2>1. DOMAIN known = 1..Len(items) /\ known = [i \in 1..Len(items) |-> known[i]]
    BY <1>2 DEF WithID
  <2>2. ASSUME NEW i \in 1..Len(items) PROVE known[i] \in ItemKind
    <3>1. items[i] \in ItemKind /\ i \in Int BY <1>2
    <3>2. [items[i] EXCEPT !.id = i] \in ItemKind BY <3>1 DEF ItemKind
    <3>3. known[i] = IF items[i].id = 0 THEN [items[i] EXCEPT !.id = i] ELSE items[i]
      BY <1>2 DEF WithID, SlugID
    <3> QED BY <3>1, <3>2, <3>3
  <2> HIDE DEF known
  <2> QED BY <1>2, <2>1, <2>2, MadeSeq
<1> HIDE DEF known
<1>4. its \in Seq(ItemKind)
  <2>0. Len(known) \in Nat /\ DOMAIN known = 1..Len(known) /\ \A i \in 1..Len(known) : known[i] \in ItemKind
    BY <1>3
  <2>1. its = [i \in 1..Len(known) |-> its[i]] BY <2>0
  <2>2. ASSUME NEW i \in 1..Len(known) PROVE its[i] \in ItemKind
    BY <2>0, NormalizeItemKind
  <2> HIDE DEF its
  <2> QED BY <2>0, <2>1, <2>2, MadeSeq
<1>5. eds \in Seq(EdgeKind)
  <2>0. Len(edges) \in Nat /\ DOMAIN edges = 1..Len(edges) /\ \A i \in 1..Len(edges) : edges[i] \in EdgeKind
    OBVIOUS
  <2>1. eds = [i \in 1..Len(edges) |-> eds[i]] BY <2>0
  <2>2. ASSUME NEW i \in 1..Len(edges) PROVE eds[i] \in EdgeKind
    BY <2>0, NormalizeEdgeKind
  <2> HIDE DEF eds
  <2> QED BY <2>0, <2>1, <2>2, MadeSeq
<1>6. NormalizeBacklog(items, edges, goal) = Rejected
      \/ NormalizeBacklog(items, edges, goal) = [ok |-> TRUE, items |-> its, edges |-> eds, goal |-> goal]
  BY DEF NormalizeBacklog, known
<1> HIDE DEF its, eds
<1>7. [ok |-> TRUE, items |-> its, edges |-> eds, goal |-> goal] \in ParsedKind
  BY <1>4, <1>5 DEF ParsedKind
<1> QED BY <1>6, <1>7, NoGoalKind

LEMMA ParseKind ==
    ASSUME NEW f \in FileKind
    PROVE  /\ ParseBacklog(f) \in ParsedKind
           /\ \/ ParseBacklog(f) = Rejected
              \/ \E items \in Seq(ItemKind), edges \in Seq(EdgeKind), goal \in GoalKind :
                   ParseBacklog(f) = NormalizeBacklog(items, edges, goal)
<1>1. /\ f.items \in Seq(ItemKind) /\ f.edges \in Seq(EdgeKind) /\ f.goal \in GoalKind
      /\ f.rows \in Seq(RowKind)
  BY DEF FileKind
<1>2. <<>> \in Seq(EdgeKind) OBVIOUS
<1>3. \E its \in Seq(ItemKind), eds \in Seq(EdgeKind) : ParseCSV(f.rows) = NormalizeBacklog(its, eds, NoGoal)
  <2> DEFINE A == {i \in DOMAIN f.rows : IsEdgeRow(f.rows[i])}
             B == {i \in DOMAIN f.rows : ~IsEdgeRow(f.rows[i])}
             edges == Cut(f.rows, A)
             items == Cut(f.rows, B)
             its == [i \in DOMAIN items |-> items[i].item]
             eds == [i \in DOMAIN edges |-> edges[i].edge]
  <2>1. edges \in Seq(RowKind) BY <1>1, CutType
  <2>2. items \in Seq(RowKind) BY <1>1, CutType
  <2>3. ParseCSV(f.rows) = NormalizeBacklog(its, eds, NoGoal) BY DEF ParseCSV
  <2> HIDE DEF edges, items
  <2>4. its \in Seq(ItemKind)
    <3>1. /\ Len(items) \in Nat /\ DOMAIN items = 1..Len(items)
          /\ \A i \in 1..Len(items) : items[i] \in RowKind
      BY <2>2
    <3>2. its = [i \in 1..Len(items) |-> its[i]] BY <3>1
    <3>3. \A i \in 1..Len(items) : its[i] \in ItemKind BY <3>1 DEF RowKind
    <3> HIDE DEF its
    <3> QED BY <3>1, <3>2, <3>3, MadeSeq
  <2>5. eds \in Seq(EdgeKind)
    <3>1. /\ Len(edges) \in Nat /\ DOMAIN edges = 1..Len(edges)
          /\ \A i \in 1..Len(edges) : edges[i] \in RowKind
      BY <2>1
    <3>2. eds = [i \in 1..Len(edges) |-> eds[i]] BY <3>1
    <3>3. \A i \in 1..Len(edges) : eds[i] \in EdgeKind BY <3>1 DEF RowKind
    <3> HIDE DEF eds
    <3> QED BY <3>1, <3>2, <3>3, MadeSeq
  <2> HIDE DEF its, eds
  <2> QED BY <2>3, <2>4, <2>5
<1>4. \/ ParseBacklog(f) = Rejected
      \/ ParseBacklog(f) = NormalizeBacklog(f.items, f.edges, f.goal)
      \/ ParseBacklog(f) = NormalizeBacklog(f.items, <<>>, NoGoal)
      \/ ParseBacklog(f) = ParseCSV(f.rows)
  BY DEF ParseBacklog
<1>5. \/ ParseBacklog(f) = Rejected
      \/ \E items \in Seq(ItemKind), edges \in Seq(EdgeKind), goal \in GoalKind :
           ParseBacklog(f) = NormalizeBacklog(items, edges, goal)
  BY <1>1, <1>2, <1>3, <1>4, NoGoalKind
<1> QED BY <1>5, NoGoalKind, NormalizeBacklogKind

-----------------------------------------------------------------------------
(* Mapping a handoff.                                                      *)

LEMMA NewNodeKind ==
    ASSUME NEW id \in Int, NEW title \in SUBSET Words, NEW text \in SUBSET Words,
           NEW chunk \in Names, NEW community \in Int, NEW trust \in Int
    PROVE  /\ NewNode(id, title, text, chunk, community, trust) \in NodeKind
           /\ NewNode(id, title, text, chunk, community, trust).chunk = chunk
           /\ NewNode(id, title, text, chunk, community, trust).item.id = id
<1> DEFINE it == [id |-> id, title |-> title, status |-> "", minutes |-> 0, difficulty |-> 0,
               year |-> 0, topics |-> {}, typeCues |-> {}, textCues |-> text, hint |-> 0,
               hits |-> 0, energy |-> "", recs |-> 0]
<1>1. it \in ItemKind /\ it.id = id
  <2>1. "" \in Names /\ {} \in SUBSET Words BY DEF Names
  <2>2. 0 \in Int /\ 0 \in Nat OBVIOUS
  <2>3. it.id = id OBVIOUS
  <2>4. it \in ItemKind BY <2>1, <2>2, Zenon DEF ItemKind
  <2> QED BY <2>3, <2>4
<1> HIDE DEF it
<1> DEFINE n == [item |-> it, text |-> text, noted |-> TRUE, chunk |-> chunk,
                 community |-> community, semantic |-> 0, supersededBy |-> 0, trust |-> trust,
                 approvedBy |-> {}, tenant |-> "", sensitivity |-> "internal"]
<1>2. NewNode(id, title, text, chunk, community, trust) = n
  BY DEF NewNode, it
<1>3. n.chunk = chunk /\ n.item = it OBVIOUS
<1>4. n \in NodeKind
  <2>1. "" \in Names /\ "internal" \in Names BY DEF Names
  <2>2. 0 \in Int /\ TRUE \in BOOLEAN /\ {} \in SUBSET STRING OBVIOUS
  <2> QED BY <1>1, <2>1, <2>2, Zenon DEF NodeKind
<1> HIDE DEF n
<1> QED BY <1>1, <1>2, <1>3, <1>4

LEMMA ItemNodeKind ==
    ASSUME NEW it \in ItemKind
    PROVE  /\ RAGNodeFromItem(it) \in NodeKind
           /\ RAGNodeFromItem(it).chunk = "document" /\ RAGNodeFromItem(it).item = it
<1> DEFINE n == NewNode(it.id, it.title, it.textCues, "document", 0, 0)
<1>1. it.id \in Int /\ it.title \in SUBSET Words /\ it.textCues \in SUBSET Words BY DEF ItemKind
<1>2. "document" \in Names BY DEF Names
<1>3. n \in NodeKind /\ n.chunk = "document" BY <1>1, <1>2, NewNodeKind
<1>4. RAGNodeFromItem(it) = [n EXCEPT !.item = it] BY DEF RAGNodeFromItem
<1> HIDE DEF n
<1> QED BY <1>3, <1>4 DEF NodeKind

LEMMA EdgeIsKind ==
    ASSUME NEW a \in Int, NEW b \in Int, NEW type \in Names, NEW c \in Int
    PROVE  Edge(a, b, type, c) \in EdgeKind
BY DEF Edge, EdgeKind

\* The nodes a GraphRAG export is mapped to.
LEMMA ExportNodeKind ==
    ASSUME NEW d \in SourceType
    PROVE  /\ DocumentNode(d) \in NodeKind /\ DocumentNode(d).chunk = "document"
           /\ UnitNode(d) \in NodeKind /\ UnitNode(d).chunk = "chunk"
           /\ EntityNode(d) \in NodeKind /\ EntityNode(d).chunk = "entity"
           /\ ReportNode(d) \in NodeKind /\ ReportNode(d).chunk = "community-summary"
<1>1. /\ d.id \in Int /\ d.title \in SUBSET Words /\ d.text \in SUBSET Words /\ d.community \in Int
      /\ {ToString(d.id)} \in SUBSET Words
  BY DEF SourceType, Words, Names
<1>2. {"document", "chunk", "entity", "community-summary"} \subseteq Names BY DEF Names
<1>3. DocumentNode(d) \in NodeKind /\ DocumentNode(d).chunk = "document"
  BY <1>1, <1>2, NewNodeKind DEF DocumentNode, GraphNode
<1>4. UnitNode(d) \in NodeKind /\ UnitNode(d).chunk = "chunk"
  BY <1>1, <1>2, NewNodeKind DEF UnitNode, GraphNode
<1>5. EntityNode(d) \in NodeKind /\ EntityNode(d).chunk = "entity"
  BY <1>1, <1>2, NewNodeKind DEF EntityNode, GraphNode
<1>6. ReportNode(d) \in NodeKind /\ ReportNode(d).chunk = "community-summary"
  <2> DEFINE n == GraphNode(d, d.title, "community-summary", d.community)
  <2>1. n \in NodeKind /\ n.chunk = "community-summary"
    BY <1>1, <1>2, NewNodeKind DEF GraphNode
  <2>2. ReportNode(d) = [n EXCEPT !.item.typeCues = {"overview"}] BY DEF ReportNode
  <2> HIDE DEF n
  <2>3. [n EXCEPT !.item.typeCues = {"overview"}] = [n EXCEPT !.item = [n.item EXCEPT !.typeCues = {"overview"}]]
    BY <2>1 DEF NodeKind
  <2>4. n.item \in ItemKind /\ {"overview"} \in SUBSET Words BY <2>1 DEF NodeKind, Words, Names
  <2>5. [n.item EXCEPT !.typeCues = {"overview"}] \in ItemKind BY <2>4 DEF ItemKind
  <2> DEFINE it == [n.item EXCEPT !.typeCues = {"overview"}]
  <2> HIDE DEF it
  <2>6. [n EXCEPT !.item = it] \in NodeKind /\ [n EXCEPT !.item = it].chunk = n.chunk
    <3>1. it \in ItemKind BY <2>5 DEF it
    <3> QED BY <2>1, <3>1 DEF NodeKind
  <2> QED BY <2>1, <2>2, <2>3, <2>6 DEF it
<1> QED BY <1>3, <1>4, <1>5, <1>6

LEMMA ClaimNodeKind ==
    ASSUME NEW d \in ClaimType
    PROVE  ClaimNode(d) \in NodeKind /\ ClaimNode(d).chunk = "claim"
<1>1. /\ d.id \in Int /\ d.text \in SUBSET Words /\ {ToString(d.id)} \in SUBSET Words
  BY DEF ClaimType, Words, Names
<1>2. "claim" \in Names BY DEF Names
<1> QED BY <1>1, <1>2, NewNodeKind DEF ClaimNode, GraphNode

\* The edges it is mapped to.
LEMMA EvidenceKind ==
    ASSUME NEW d \in ClaimType
    PROVE  /\ Evidence(d) \in Seq(EdgeKind)
           /\ \A i \in DOMAIN Evidence(d) : Evidence(d)[i].type \in {"evidence-for", "evidence-against"}
<1> DEFINE type == IF d.status \in {"negative", "false", "disputed"}
                   THEN "evidence-against" ELSE "evidence-for"
           s == [i \in DOMAIN d.evidence |-> Edge(d.evidence[i], d.id, type, 100)]
<1>1. d.evidence \in Seq(Int) /\ d.id \in Int BY DEF ClaimType
<1>2. Len(d.evidence) \in Nat /\ DOMAIN d.evidence = 1..Len(d.evidence)
      /\ \A i \in 1..Len(d.evidence) : d.evidence[i] \in Int
  BY <1>1
<1>3. type \in Names /\ type \in {"evidence-for", "evidence-against"} BY DEF Names
<1> HIDE DEF type
<1>4. s = [i \in 1..Len(d.evidence) |-> s[i]] BY <1>2
<1>5. \A i \in 1..Len(d.evidence) : s[i] \in EdgeKind /\ s[i].type = type
  <2> SUFFICES ASSUME NEW i \in 1..Len(d.evidence) PROVE s[i] \in EdgeKind /\ s[i].type = type
    OBVIOUS
  <2>1. s[i] = Edge(d.evidence[i], d.id, type, 100) BY <1>2
  <2>2. d.evidence[i] \in Int BY <1>2
  <2> HIDE DEF s
  <2>3. s[i] \in EdgeKind BY <1>1, <1>3, <2>1, <2>2, EdgeIsKind
  <2> QED BY <2>1, <2>3 DEF Edge
<1>6. Evidence(d) = s BY DEF Evidence, Each, type
<1> HIDE DEF s
<1>7. s \in Seq(EdgeKind) /\ DOMAIN s = 1..Len(d.evidence) BY <1>2, <1>4, <1>5, MadeSeq
<1> QED BY <1>3, <1>5, <1>6, <1>7

LEMMA RelationKind ==
    ASSUME NEW d \in RelationType
    PROVE  Relation(d) \in EdgeKind /\ Relation(d).type = "related-to"
           /\ Relation(d).confidence \in 0..100
<1>1. /\ d.sourceID \in Int /\ d.source \in Int /\ d.targetID \in Int /\ d.target \in Int
      /\ d.weight \in Int
  BY DEF RelationType
<1>2. NormalizeWeight(d.weight) \in 0..100 BY <1>1 DEF NormalizeWeight
<1>3. "related-to" \in Names BY DEF Names
<1> QED BY <1>1, <1>2, <1>3 DEF Relation, Edge, EdgeKind

LEMMA MembershipKind ==
    ASSUME NEW d \in CommunityType
    PROVE  /\ Membership(d) \in Seq(EdgeKind)
           /\ \A i \in DOMAIN Membership(d) :
                Membership(d)[i].type = "community-member-of" /\ Membership(d)[i].confidence = 80
<1> DEFINE to == IF d.report = 0 THEN d.id ELSE d.report
           ids == d.entities \o d.units
           s == [i \in DOMAIN ids |-> Edge(ids[i], to, "community-member-of", 80)]
<1>1. d.entities \in Seq(Int) /\ d.units \in Seq(Int) /\ to \in Int BY DEF CommunityType
<1>2. ids \in Seq(Int) BY <1>1
<1> HIDE DEF to, ids
<1>3. Len(ids) \in Nat /\ DOMAIN ids = 1..Len(ids) /\ \A i \in 1..Len(ids) : ids[i] \in Int
  BY <1>2
<1>4. "community-member-of" \in Names BY DEF Names
<1>5. s = [i \in 1..Len(ids) |-> s[i]] BY <1>3
<1>6. \A i \in 1..Len(ids) : s[i] \in EdgeKind /\ s[i].type = "community-member-of" /\ s[i].confidence = 80
  <2> SUFFICES ASSUME NEW i \in 1..Len(ids)
               PROVE  s[i] \in EdgeKind /\ s[i].type = "community-member-of" /\ s[i].confidence = 80
    OBVIOUS
  <2>1. s[i] = Edge(ids[i], to, "community-member-of", 80) BY <1>3
  <2>2. ids[i] \in Int BY <1>3
  <2> HIDE DEF s
  <2>3. s[i] \in EdgeKind BY <1>1, <1>4, <2>1, <2>2, EdgeIsKind
  <2> QED BY <2>1, <2>3 DEF Edge
<1>7. Membership(d) = s BY DEF Membership, Each, to, ids
<1> HIDE DEF s
<1>8. s \in Seq(EdgeKind) /\ DOMAIN s = 1..Len(ids) BY <1>3, <1>5, <1>6, MadeSeq
<1> QED BY <1>6, <1>7, <1>8

\* A GraphRAG export has no permission record and no decision basis, and its weights
\* are within bounds.
PlainNode == {n \in NodeKind : n.chunk # "permission-record"}
PlainEdge == {e \in EdgeKind : NormalizeEdge(e.type) # "decision-basis" /\ e.confidence \in 0..100}

LEMMA ExportKind ==
    ASSUME NEW h \in ExportType
    PROVE  /\ MapExport(h) \in SetKind
           /\ MapExport(h).nodes \in Seq(PlainNode) /\ MapExport(h).edges \in Seq(PlainEdge)
<1>0. /\ h.query \in QueryType /\ h.documents \in Seq(SourceType) /\ h.units \in Seq(SourceType)
      /\ h.entities \in Seq(SourceType) /\ h.reports \in Seq(SourceType)
      /\ h.claims \in Seq(ClaimType) /\ h.relations \in Seq(RelationType)
      /\ h.communities \in Seq(CommunityType)
  BY DEF ExportType
<1>1. ASSUME NEW s \in Seq(SourceType)
      PROVE  /\ Each(DocumentNode, s) \in Seq(PlainNode) /\ Each(UnitNode, s) \in Seq(PlainNode)
             /\ Each(EntityNode, s) \in Seq(PlainNode) /\ Each(ReportNode, s) \in Seq(PlainNode)
  <2>1. Len(s) \in Nat /\ DOMAIN s = 1..Len(s) /\ \A i \in 1..Len(s) : s[i] \in SourceType
    OBVIOUS
  <2> DEFINE a == [i \in 1..Len(s) |-> DocumentNode(s[i])]
             b == [i \in 1..Len(s) |-> UnitNode(s[i])]
             c == [i \in 1..Len(s) |-> EntityNode(s[i])]
             d == [i \in 1..Len(s) |-> ReportNode(s[i])]
  <2>2. /\ Each(DocumentNode, s) = a /\ Each(UnitNode, s) = b
        /\ Each(EntityNode, s) = c /\ Each(ReportNode, s) = d
    BY <2>1 DEF Each
  <2>3. ASSUME NEW i \in 1..Len(s)
        PROVE  a[i] \in PlainNode /\ b[i] \in PlainNode /\ c[i] \in PlainNode /\ d[i] \in PlainNode
    <3>1. s[i] \in SourceType BY <2>1
    <3>2. a[i] = DocumentNode(s[i]) /\ b[i] = UnitNode(s[i])
          /\ c[i] = EntityNode(s[i]) /\ d[i] = ReportNode(s[i])
      OBVIOUS
    <3> HIDE DEF a, b, c, d
    <3> QED BY <3>1, <3>2, ExportNodeKind DEF PlainNode
  <2>4. /\ a = [i \in 1..Len(s) |-> a[i]] /\ b = [i \in 1..Len(s) |-> b[i]]
        /\ c = [i \in 1..Len(s) |-> c[i]] /\ d = [i \in 1..Len(s) |-> d[i]]
    OBVIOUS
  <2> HIDE DEF a, b, c, d
  <2> QED BY <2>1, <2>2, <2>3, <2>4, MadeSeq
<1>2. Each(ClaimNode, h.claims) \in Seq(PlainNode) /\ Flat(Each(Evidence, h.claims)) \in Seq(PlainEdge)
  <2> DEFINE s == h.claims
             a == [i \in 1..Len(s) |-> ClaimNode(s[i])]
             b == [i \in 1..Len(s) |-> Evidence(s[i])]
  <2>1. Len(s) \in Nat /\ DOMAIN s = 1..Len(s) /\ \A i \in 1..Len(s) : s[i] \in ClaimType
    BY <1>0
  <2>2. Each(ClaimNode, s) = a /\ Each(Evidence, s) = b BY <2>1 DEF Each
  <2>3. ASSUME NEW i \in 1..Len(s) PROVE a[i] \in PlainNode
    BY <2>1, ClaimNodeKind DEF PlainNode
  <2>4. ASSUME NEW i \in 1..Len(s) PROVE b[i] \in Seq(PlainEdge)
    <3> DEFINE e == Evidence(s[i])
    <3>1. e \in Seq(EdgeKind) /\ \A j \in DOMAIN e : e[j].type \in {"evidence-for", "evidence-against"}
      BY <2>1, EvidenceKind
    <3>2. \A j \in DOMAIN e : e[j].confidence = 100
      BY DEF Evidence, Each, Edge
    <3>3. b[i] = e OBVIOUS
    <3> HIDE DEF e
    <3>4. DOMAIN e = 1..Len(e) /\ Len(e) \in Nat /\ \A j \in 1..Len(e) : e[j] \in EdgeKind BY <3>1
    <3>5. \A j \in 1..Len(e) : e[j] \in PlainEdge
      <4> SUFFICES ASSUME NEW j \in 1..Len(e) PROVE e[j] \in PlainEdge
        OBVIOUS
      <4>1. e[j].type \in {"evidence-for", "evidence-against"} /\ e[j].confidence = 100
        BY <3>1, <3>2, <3>4
      <4>2. NormalizeEdge(e[j].type) # "decision-basis" BY <4>1 DEF NormalizeEdge
      <4> QED BY <3>4, <4>1, <4>2 DEF PlainEdge
    <3>6. e = [j \in 1..Len(e) |-> e[j]] BY <3>1
    <3> QED BY <3>3, <3>4, <3>5, <3>6, MadeSeq
  <2>5. a = [i \in 1..Len(s) |-> a[i]] /\ b = [i \in 1..Len(s) |-> b[i]] OBVIOUS
  <2> HIDE DEF a, b
  <2>6. a \in Seq(PlainNode) BY <2>1, <2>3, <2>5, MadeSeq
  <2>7. b \in Seq(Seq(PlainEdge)) BY <2>1, <2>4, <2>5, MadeSeq
  <2> QED BY <2>2, <2>6, <2>7, FlatSeq
<1>3. Each(Relation, h.relations) \in Seq(PlainEdge)
  <2> DEFINE s == h.relations
             a == [i \in 1..Len(s) |-> Relation(s[i])]
  <2>1. Len(s) \in Nat /\ DOMAIN s = 1..Len(s) /\ \A i \in 1..Len(s) : s[i] \in RelationType
    BY <1>0
  <2>2. Each(Relation, s) = a BY <2>1 DEF Each
  <2>3. NormalizeEdge("related-to") # "decision-basis" BY DEF NormalizeEdge
  <2>4. ASSUME NEW i \in 1..Len(s) PROVE a[i] \in PlainEdge
    BY <2>1, <2>3, RelationKind DEF PlainEdge
  <2>5. a = [i \in 1..Len(s) |-> a[i]] OBVIOUS
  <2> HIDE DEF a
  <2>6. a \in Seq(PlainEdge) BY <2>1, <2>4, <2>5, MadeSeq
  <2> QED BY <2>2, <2>6
<1>4. Flat(Each(Membership, h.communities)) \in Seq(PlainEdge)
  <2> DEFINE s == h.communities
             b == [i \in 1..Len(s) |-> Membership(s[i])]
  <2>1. Len(s) \in Nat /\ DOMAIN s = 1..Len(s) /\ \A i \in 1..Len(s) : s[i] \in CommunityType
    BY <1>0
  <2>2. Each(Membership, s) = b BY <2>1 DEF Each
  <2>3. NormalizeEdge("community-member-of") # "decision-basis" BY DEF NormalizeEdge
  <2>4. ASSUME NEW i \in 1..Len(s) PROVE b[i] \in Seq(PlainEdge)
    <3> DEFINE e == Membership(s[i])
    <3>1. e \in Seq(EdgeKind)
          /\ \A j \in DOMAIN e : e[j].type = "community-member-of" /\ e[j].confidence = 80
      BY <2>1, MembershipKind
    <3>3. b[i] = e OBVIOUS
    <3> HIDE DEF e
    <3>4. DOMAIN e = 1..Len(e) /\ Len(e) \in Nat /\ \A j \in 1..Len(e) : e[j] \in EdgeKind BY <3>1
    <3>5. \A j \in 1..Len(e) : e[j] \in PlainEdge
      <4> SUFFICES ASSUME NEW j \in 1..Len(e) PROVE e[j] \in PlainEdge
        OBVIOUS
      <4>1. e[j].type = "community-member-of" /\ e[j].confidence = 80 BY <3>1, <3>4
      <4> QED BY <2>3, <3>4, <4>1 DEF PlainEdge
    <3>6. e = [j \in 1..Len(e) |-> e[j]] BY <3>1
    <3> QED BY <3>3, <3>4, <3>5, <3>6, MadeSeq
  <2>5. b = [i \in 1..Len(s) |-> b[i]] OBVIOUS
  <2> HIDE DEF b
  <2>6. b \in Seq(Seq(PlainEdge)) BY <2>1, <2>4, <2>5, MadeSeq
  <2> QED BY <2>2, <2>6, FlatSeq
<1> DEFINE nodes == Each(DocumentNode, h.documents) \o Each(UnitNode, h.units)
                    \o Each(EntityNode, h.entities) \o Each(ReportNode, h.reports)
                    \o Each(ClaimNode, h.claims)
           edges == Flat(Each(Evidence, h.claims)) \o Each(Relation, h.relations)
                    \o Flat(Each(Membership, h.communities))
<1>5. nodes \in Seq(PlainNode)
  <2>1. /\ Each(DocumentNode, h.documents) \in Seq(PlainNode) /\ Each(UnitNode, h.units) \in Seq(PlainNode)
        /\ Each(EntityNode, h.entities) \in Seq(PlainNode) /\ Each(ReportNode, h.reports) \in Seq(PlainNode)
    BY <1>0, <1>1
  <2> QED BY <1>2, <2>1
<1>6. edges \in Seq(PlainEdge) BY <1>2, <1>3, <1>4
<1>7. MapExport(h) = [query |-> h.query, nodes |-> nodes, edges |-> edges, candidates |-> {}]
  BY DEF MapExport
<1> HIDE DEF nodes, edges
<1>8. nodes \in Seq(NodeKind) /\ edges \in Seq(EdgeKind)
  <2>1. PlainNode \subseteq NodeKind /\ PlainEdge \subseteq EdgeKind BY DEF PlainNode, PlainEdge
  <2> QED BY <1>5, <1>6, <2>1, SeqMonotonic
<1> QED BY <1>0, <1>5, <1>6, <1>7, <1>8 DEF SetKind

\* A LightRAG handoff.
LEMMA ResultNodeKind ==
    ASSUME NEW d \in ResultType
    PROVE  /\ LocalNode(d) \in NodeKind /\ LocalNode(d).chunk = IF d.chunk = "" THEN "entity" ELSE d.chunk
           /\ GlobalNode(d) \in NodeKind
           /\ GlobalNode(d).chunk = IF d.chunk = "" THEN "community-summary" ELSE d.chunk
<1>1. /\ d.id \in Int /\ d.title \in SUBSET Words /\ d.text \in SUBSET Words /\ d.community \in Int
      /\ d.chunk \in Names
  BY DEF ResultType, Words, Names
<1> DEFINE near == IF d.chunk = "" THEN "entity" ELSE d.chunk
           far == IF d.chunk = "" THEN "community-summary" ELSE d.chunk
           node(chunk) == NewNode(d.id, d.title, d.text, chunk, d.community, 70)
<1>2. near \in Names /\ far \in Names
  BY <1>1 DEF Names
<1>3. 70 \in Int OBVIOUS
<1>4. ASSUME NEW chunk \in Names PROVE node(chunk) \in NodeKind /\ node(chunk).chunk = chunk
  BY <1>1, <1>3, NewNodeKind
<1>5. LocalNode(d) = node(near) /\ GlobalNode(d) = node(far)
  BY DEF LocalNode, GlobalNode, ResultNode
<1> HIDE DEF node
<1>6. LocalNode(d) \in NodeKind /\ LocalNode(d).chunk = near
  <2> HIDE DEF near
  <2> QED BY <1>2, <1>4, <1>5
<1>7. GlobalNode(d) \in NodeKind /\ GlobalNode(d).chunk = far
  <2> HIDE DEF far
  <2> QED BY <1>2, <1>4, <1>5
<1> QED BY <1>6, <1>7

LEMMA ResultsKind ==
    ASSUME NEW h \in ResultsType
    PROVE  MapResults(h) \in SetKind
<1>0. /\ h.query \in QueryType /\ h.local \in Seq(ResultType) /\ h.global \in Seq(ResultType)
      /\ h.relations \in Seq(EdgeKind)
  BY InKind DEF ResultsType
<1>1. ASSUME NEW s \in Seq(ResultType)
      PROVE  /\ Each(LocalNode, s) \in Seq(NodeKind) /\ Each(GlobalNode, s) \in Seq(NodeKind)
             /\ {s[i].id : i \in DOMAIN s} \subseteq Int
  <2>1. Len(s) \in Nat /\ DOMAIN s = 1..Len(s) /\ \A i \in 1..Len(s) : s[i] \in ResultType
    OBVIOUS
  <2> DEFINE a == [i \in 1..Len(s) |-> LocalNode(s[i])]
             b == [i \in 1..Len(s) |-> GlobalNode(s[i])]
  <2>2. Each(LocalNode, s) = a /\ Each(GlobalNode, s) = b BY <2>1 DEF Each
  <2>3. \A i \in 1..Len(s) : a[i] \in NodeKind /\ b[i] \in NodeKind BY <2>1, ResultNodeKind
  <2>4. a = [i \in 1..Len(s) |-> a[i]] /\ b = [i \in 1..Len(s) |-> b[i]] OBVIOUS
  <2>5. \A i \in 1..Len(s) : s[i].id \in Int BY <2>1 DEF ResultType
  <2>6. {s[i].id : i \in DOMAIN s} \subseteq Int BY <2>1, <2>5
  <2> HIDE DEF a, b
  <2>7. a \in Seq(NodeKind) BY <2>1, <2>3, <2>4, MadeSeq
  <2>8. b \in Seq(NodeKind) BY <2>1, <2>3, <2>4, MadeSeq
  <2> QED BY <2>2, <2>6, <2>7, <2>8
<1>2. Each(NormalizeEdgeValue, h.relations) \in Seq(EdgeKind)
  <2> DEFINE s == h.relations
             a == [i \in 1..Len(s) |-> NormalizeEdgeValue(s[i])]
  <2>1. Len(s) \in Nat /\ DOMAIN s = 1..Len(s) /\ \A i \in 1..Len(s) : s[i] \in EdgeKind
    BY <1>0
  <2>2. Each(NormalizeEdgeValue, s) = a BY <2>1 DEF Each
  <2>3. \A i \in 1..Len(s) : a[i] \in EdgeKind BY <2>1, NormalizeEdgeKind
  <2>4. a = [i \in 1..Len(s) |-> a[i]] OBVIOUS
  <2> HIDE DEF a
  <2>5. a \in Seq(EdgeKind) BY <2>1, <2>3, <2>4, MadeSeq
  <2> QED BY <2>2, <2>5
<1> DEFINE nodes == Each(LocalNode, h.local) \o Each(GlobalNode, h.global)
           ids == {h.local[i].id : i \in DOMAIN h.local} \cup {h.global[i].id : i \in DOMAIN h.global}
<1>3. nodes \in Seq(NodeKind)
  <2>1. Each(LocalNode, h.local) \in Seq(NodeKind) /\ Each(GlobalNode, h.global) \in Seq(NodeKind)
    BY <1>0, <1>1
  <2> QED BY <2>1
<1>4. ids \in SUBSET Int BY <1>0, <1>1
<1>5. MapResults(h) = [query |-> h.query, nodes |-> nodes,
                       edges |-> Each(NormalizeEdgeValue, h.relations), candidates |-> ids]
  BY DEF MapResults
<1> HIDE DEF nodes, ids
<1> QED BY <1>0, <1>2, <1>3, <1>4, <1>5 DEF SetKind

\* A hybrid handoff, redacted or not, and a backlog made into a graph.
LEMMA HybridKind ==
    ASSUME NEW h \in HybridType
    PROVE  MapHandoff(h) \in SetKind
<1>1. /\ h.query \in QueryType /\ h.nodes \in Seq(NodeKind) /\ h.edges \in Seq(EdgeKind)
      /\ h.candidates \in SUBSET Int
  BY InKind DEF HybridType
<1> QED BY <1>1 DEF MapHandoff, SetKind

LEMMA RedactKind ==
    ASSUME NEW h \in HybridType, NEW ctx
    PROVE  RedactForReranker(ctx, h) \in HybridType
<1> DEFINE nodes == VisibleNodes(ctx, h)
           edges == EdgesWithin(NodeIDs(nodes), h.edges)
           ids == h.candidates \cap NodeIDs(nodes)
<1>1. h.nodes \in Seq(NodeType) /\ h.edges \in Seq(EdgeType) /\ h.candidates \in SUBSET Int
  BY DEF HybridType
<1>2. nodes \in Seq(NodeType) BY <1>1, CutType DEF VisibleNodes
<1>3. edges \in Seq(EdgeType) BY <1>1, CutType DEF EdgesWithin
<1>4. ids \in SUBSET Int BY <1>1
<1>5. RedactForReranker(ctx, h) = [h EXCEPT !.nodes = nodes, !.edges = edges, !.candidates = ids]
  BY DEF RedactForReranker
<1> HIDE DEF nodes, edges, ids
<1> QED BY <1>2, <1>3, <1>4, <1>5 DEF HybridType

LEMMA BacklogSetKind ==
    ASSUME NEW b \in ParsedKind
    PROVE  /\ CandidateSetFromBacklog(b) \in SetKind
           /\ \A i \in DOMAIN b.items :
                /\ CandidateSetFromBacklog(b).nodes[i].chunk = "document"
                /\ CandidateSetFromBacklog(b).nodes[i].item = b.items[i]
           /\ DOMAIN CandidateSetFromBacklog(b).nodes = DOMAIN b.items
<1> DEFINE s == b.items
           a == [i \in 1..Len(s) |-> RAGNodeFromItem(s[i])]
<1>0. b.items \in Seq(ItemKind) /\ b.edges \in Seq(EdgeKind) BY DEF ParsedKind
<1>1. Len(s) \in Nat /\ DOMAIN s = 1..Len(s) /\ \A i \in 1..Len(s) : s[i] \in ItemKind
  BY <1>0
<1>2. Each(RAGNodeFromItem, s) = a BY <1>1 DEF Each
<1>3. \A i \in 1..Len(s) : a[i] \in NodeKind /\ a[i].chunk = "document" /\ a[i].item = s[i]
  BY <1>1, ItemNodeKind
<1>4. a = [i \in 1..Len(s) |-> a[i]] OBVIOUS
<1> HIDE DEF a
<1>5. a \in Seq(NodeKind) /\ DOMAIN a = 1..Len(s) BY <1>1, <1>3, <1>4, MadeSeq
<1>6. NoQuery \in QueryType
  BY DEF NoQuery, QueryType
<1>7. CandidateSetFromBacklog(b) = [query |-> NoQuery, nodes |-> a, edges |-> b.edges, candidates |-> {}]
  BY <1>2 DEF CandidateSetFromBacklog
<1> QED BY <1>0, <1>1, <1>3, <1>5, <1>6, <1>7 DEF SetKind

LEMMA MappedKind ==
    ASSUME file \in FileKind, NEW h \in HandoffKind \ {NoHandoff}
    PROVE  Mapped(h) \in SetKind
<1>1. CASE h \in ExportType
  <2>1. h.origin = "graphrag" BY <1>1 DEF ExportType
  <2> QED BY <1>1, <2>1, ExportKind DEF Mapped
<1>2. CASE h \in ResultsType
  <2>1. h.origin = "lightrag" BY <1>2 DEF ResultsType
  <2> QED BY <1>2, <2>1, ResultsKind DEF Mapped
<1>3. CASE h \in HybridType
  <2>1. h.origin = "hybrid" BY <1>3 DEF HybridType
  <2> QED BY <1>3, <2>1, HybridKind DEF Mapped
<1>4. CASE h = FromBacklog
  <2>1. h.origin = "backlog" BY <1>4 DEF FromBacklog
  <2>2. Mapped(h) = CandidateSetFromBacklog(ParseBacklog(file)) BY <2>1 DEF Mapped
  <2> QED BY <2>2, ParseKind, BacklogSetKind
<1> QED BY <1>1, <1>2, <1>3, <1>4 DEF HandoffKind

-----------------------------------------------------------------------------
(* What BuildAnalysis makes of a graph.                                    *)

\* The elements of S that are put in order are those of S.
LEMMA InOrderHolds ==
    ASSUME NEW S, IsFiniteSet(S), NEW R, Orders(R, S)
    PROVE  /\ InOrder(S, R) \in Seq(S)
           /\ \A x \in S : \E k \in DOMAIN InOrder(S, R) : InOrder(S, R)[k] = x
<1>1. /\ InOrder(S, R) \in Seq(S) /\ Len(InOrder(S, R)) = Cardinality(S)
      /\ \A x \in S : \E k \in 1..Cardinality(S) : InOrder(S, R)[k] = x
  BY InOrderType
<1>2. DOMAIN InOrder(S, R) = 1..Cardinality(S) BY <1>1
<1> QED BY <1>1, <1>2

LEMMA SeqElements ==
    ASSUME NEW T, NEW s \in Seq(T)
    PROVE  /\ Len(s) \in Nat /\ DOMAIN s = 1..Len(s) /\ \A i \in DOMAIN s : s[i] \in T
           /\ IsFiniteSet(DOMAIN s) /\ \A i \in DOMAIN s : i \in Int
           /\ ToSet(s) = {s[i] : i \in DOMAIN s} /\ IsFiniteSet(ToSet(s))
<1>1. Len(s) \in Nat /\ DOMAIN s = 1..Len(s) /\ \A i \in DOMAIN s : s[i] \in T OBVIOUS
<1>2. IsFiniteSet(DOMAIN s) BY <1>1, UpTo
<1>3. IsFiniteSet({s[i] : i \in DOMAIN s})
  <2> DEFINE E == {s[i] : i \in DOMAIN s}
  <2>1. s \in Surjection(DOMAIN s, E) BY <1>1 DEF Surjection
  <2> QED BY <1>2, <2>1, FS_Surjection
<1> QED BY <1>1, <1>2, <1>3 DEF ToSet

LEMMA ItemsInOrderKind ==
    ASSUME NEW s \in SetKind, Buildable(s)
    PROVE  /\ ItemsInOrder(s.nodes) \in Seq(ItemKind)
           /\ {ItemsInOrder(s.nodes)[k].id : k \in DOMAIN ItemsInOrder(s.nodes)} = NodeIDs(s.nodes)
           /\ \A k \in DOMAIN ItemsInOrder(s.nodes) : \E i \in DOMAIN s.nodes :
                ItemsInOrder(s.nodes)[k] = ToItem(s.nodes[i])
<1> DEFINE T == ToSet(s.nodes)
           byID == {p \in T \X T : p[1].item.id < p[2].item.id}
           sorted == InOrder(T, byID)
           items == [k \in DOMAIN sorted |-> ToItem(sorted[k])]
<1>1. s.nodes \in Seq(NodeKind) BY DEF SetKind
<1>2. /\ T = {s.nodes[i] : i \in DOMAIN s.nodes} /\ IsFiniteSet(T)
      /\ \A i \in DOMAIN s.nodes : s.nodes[i] \in NodeKind
  BY <1>1, SeqElements
<1>3. \A n \in T : n \in NodeKind /\ n.item \in ItemKind /\ n.item.id \in Int
  BY <1>2 DEF NodeKind, ItemKind
<1>4. \A m, n \in T : m.item.id = n.item.id => m = n
  BY <1>2 DEF Buildable
<1>5. Orders(byID, T)
  <2> DEFINE key == [n \in T |-> n.item.id]
  <2>1. \A n \in T : key[n] \in Int BY <1>3
  <2>2. \A m, n \in T : m # n => key[m] # key[n] BY <1>4
  <2>3. \A m, n \in T : <<m, n>> \in byID <=> key[m] < key[n] OBVIOUS
  <2> HIDE DEF key, byID, T
  <2> QED BY <2>1, <2>2, <2>3 DEF Orders
<1>6. sorted \in Seq(T) /\ \A x \in T : \E k \in DOMAIN sorted : sorted[k] = x
  <2>1. IsFiniteSet(T) BY <1>2
  <2> HIDE DEF T, byID
  <2> QED BY <1>5, <2>1, InOrderHolds
<1>7. ItemsInOrder(s.nodes) = items BY DEF ItemsInOrder, Each
<1> HIDE DEF byID, sorted, T
<1>8. Len(sorted) \in Nat /\ DOMAIN sorted = 1..Len(sorted) /\ \A k \in DOMAIN sorted : sorted[k] \in T
  BY <1>6
<1>9. ASSUME NEW n \in T PROVE ToItem(n) \in ItemKind /\ ToItem(n).id = n.item.id
  <2> DEFINE cues == n.item.textCues \cup n.text
  <2>1. n.item \in ItemKind /\ cues \in SUBSET Words BY <1>3 DEF NodeKind, ItemKind
  <2>2. ToItem(n) = IF n.noted THEN n.item ELSE [n.item EXCEPT !.textCues = cues]
    BY DEF ToItem
  <2> HIDE DEF cues
  <2>3. [n.item EXCEPT !.textCues = cues] \in ItemKind /\ [n.item EXCEPT !.textCues = cues].id = n.item.id
    BY <2>1 DEF ItemKind
  <2> QED BY <2>1, <2>2, <2>3
<1>10. items \in Seq(ItemKind)
  <2>1. items = [k \in 1..Len(sorted) |-> items[k]] /\ \A k \in 1..Len(sorted) : items[k] \in ItemKind
    BY <1>8, <1>9
  <2> HIDE DEF items
  <2> QED BY <1>8, <2>1, MadeSeq
<1>11. \A k \in DOMAIN items : items[k] = ToItem(sorted[k]) /\ items[k].id = sorted[k].item.id
  BY <1>8, <1>9
<1>12. {items[k].id : k \in DOMAIN items} = NodeIDs(s.nodes)
  <2>1. NodeIDs(s.nodes) = {n.item.id : n \in T} BY <1>2 DEF NodeIDs
  <2>2. \A k \in DOMAIN items : items[k].id \in {n.item.id : n \in T} BY <1>8, <1>11
  <2>3. \A n \in T : \E k \in DOMAIN items : items[k].id = n.item.id BY <1>6, <1>11
  <2> QED BY <2>1, <2>2, <2>3
<1>13. \A k \in DOMAIN items : \E i \in DOMAIN s.nodes : items[k] = ToItem(s.nodes[i])
  BY <1>2, <1>8, <1>11
<1> HIDE DEF items
<1> QED BY <1>7, <1>10, <1>12, <1>13

LEMMA EdgesInOrderKind ==
    ASSUME NEW edges \in Seq(EdgeKind)
    PROVE  /\ EdgesInOrder(edges) \in Seq(EdgeKind)
           /\ \A k \in DOMAIN EdgesInOrder(edges) : \E i \in DOMAIN edges : EdgesInOrder(edges)[k] = edges[i]
           /\ \A i \in DOMAIN edges : \E k \in DOMAIN EdgesInOrder(edges) : EdgesInOrder(edges)[k] = edges[i]
<1> DEFINE D == DOMAIN edges
           source == [i \in D |-> edges[i].source]
           target == [i \in D |-> edges[i].target]
           before(i, j) == \/ edges[i].source < edges[j].source
                           \/ /\ edges[i].source = edges[j].source
                              /\ \/ edges[i].target < edges[j].target
                                 \/ edges[i].target = edges[j].target /\ i < j
           byEnds == {p \in D \X D : before(p[1], p[2])}
           sorted == InOrder(D, byEnds)
           out == [k \in DOMAIN sorted |-> edges[sorted[k]]]
<1>1. IsFiniteSet(D) /\ (\A i \in D : i \in Int) /\ \A i \in D : edges[i] \in EdgeKind
  BY SeqElements
<1>2. \A i \in D : source[i] \in Int /\ target[i] \in Int BY <1>1 DEF EdgeKind
<1>3. \A i, j \in D : <<i, j>> \in byEnds <=>
          \/ source[i] < source[j]
          \/ source[i] = source[j] /\ target[i] < target[j]
          \/ source[i] = source[j] /\ target[i] = target[j] /\ i < j
  OBVIOUS
<1>4. Orders(byEnds, D)
  <2> HIDE DEF byEnds, source, target, D
  <2>1. \A x \in D : <<x, x>> \notin byEnds BY <1>1, <1>2, <1>3
  <2>2. \A x, y \in D : x # y => <<x, y>> \in byEnds \/ <<y, x>> \in byEnds
    BY <1>1, <1>2, <1>3
  <2>3. \A x, y, z \in D : <<x, y>> \in byEnds /\ <<y, z>> \in byEnds => <<x, z>> \in byEnds
    BY <1>1, <1>2, <1>3, SMTT(60)
  <2> QED BY <2>1, <2>2, <2>3 DEF Orders
<1>5. sorted \in Seq(D) /\ \A x \in D : \E k \in DOMAIN sorted : sorted[k] = x
  <2>1. IsFiniteSet(D) BY <1>1
  <2> HIDE DEF D, byEnds
  <2> QED BY <1>4, <2>1, InOrderHolds
<1>6. EdgesInOrder(edges) = out BY DEF EdgesInOrder, Each
<1> HIDE DEF sorted
<1>7. Len(sorted) \in Nat /\ DOMAIN sorted = 1..Len(sorted) /\ \A k \in DOMAIN sorted : sorted[k] \in D
  BY <1>5
<1>8. out \in Seq(EdgeKind)
  <2>1. out = [k \in 1..Len(sorted) |-> out[k]] /\ \A k \in 1..Len(sorted) : out[k] \in EdgeKind
    BY <1>1, <1>7
  <2> HIDE DEF out
  <2> QED BY <1>7, <2>1, MadeSeq
<1>9. \A k \in DOMAIN out : sorted[k] \in D /\ out[k] = edges[sorted[k]] BY <1>7
<1>10. \A i \in D : \E k \in DOMAIN out : out[k] = edges[i] BY <1>5
<1> HIDE DEF out
<1> QED BY <1>6, <1>8, <1>9, <1>10

\* The edges of the analysis are the normalised edges of the graph.
LEMMA GraphEdgesKind ==
    ASSUME NEW s \in SetKind
    PROVE  /\ GraphEdges(s) \in Seq(EdgeKind)
           /\ \A k \in DOMAIN GraphEdges(s) : \E i \in DOMAIN s.edges :
                GraphEdges(s)[k] = NormalizeEdgeValue(s.edges[i])
           /\ \A i \in DOMAIN s.edges : \E k \in DOMAIN GraphEdges(s) :
                GraphEdges(s)[k] = NormalizeEdgeValue(s.edges[i])
<1> DEFINE sorted == EdgesInOrder(s.edges)
           out == [k \in DOMAIN sorted |-> NormalizeEdgeValue(sorted[k])]
<1>1. s.edges \in Seq(EdgeKind) BY DEF SetKind
<1>2. /\ sorted \in Seq(EdgeKind)
      /\ \A k \in DOMAIN sorted : \E i \in DOMAIN s.edges : sorted[k] = s.edges[i]
      /\ \A i \in DOMAIN s.edges : \E k \in DOMAIN sorted : sorted[k] = s.edges[i]
  BY <1>1, EdgesInOrderKind
<1>3. GraphEdges(s) = out BY DEF GraphEdges, Each
<1> HIDE DEF sorted
<1>4. Len(sorted) \in Nat /\ DOMAIN sorted = 1..Len(sorted) /\ \A k \in DOMAIN sorted : sorted[k] \in EdgeKind
  BY <1>2
<1>5. out \in Seq(EdgeKind)
  <2>1. out = [k \in 1..Len(sorted) |-> out[k]] OBVIOUS
  <2>2. \A k \in 1..Len(sorted) : out[k] \in EdgeKind BY <1>4, NormalizeEdgeKind
  <2> HIDE DEF out
  <2> QED BY <1>4, <2>1, <2>2, MadeSeq
<1>6. DOMAIN out = DOMAIN sorted /\ \A k \in DOMAIN out : out[k] = NormalizeEdgeValue(sorted[k])
  OBVIOUS
<1> HIDE DEF out
<1> QED BY <1>2, <1>3, <1>5, <1>6

LEMMA BuiltKind ==
    ASSUME NEW s \in SetKind, Buildable(s)
    PROVE  BacklogOf(s) \in BacklogKind /\ IDs(BacklogOf(s)) = NodeIDs(s.nodes)
<1> DEFINE goal == [NoGoal EXCEPT !.asked = s.query.words > 0]
<1>1. goal \in GoalKind
  <2>1. (s.query.words > 0) \in BOOLEAN OBVIOUS
  <2> QED BY <2>1, NoGoalKind DEF GoalKind
<1>2. BacklogOf(s) = [items |-> ItemsInOrder(s.nodes), edges |-> GraphEdges(s), goal |-> goal]
  BY DEF BacklogOf
<1> DEFINE its == ItemsInOrder(s.nodes)
           eds == GraphEdges(s)
<1>3. its \in Seq(ItemKind) /\ {its[k].id : k \in DOMAIN its} = NodeIDs(s.nodes) /\ eds \in Seq(EdgeKind)
  BY ItemsInOrderKind, GraphEdgesKind
<1> HIDE DEF goal, its, eds
<1>4. BacklogOf(s) = [items |-> its, edges |-> eds, goal |-> goal] BY <1>2 DEF its, eds
<1> QED BY <1>1, <1>3, <1>4 DEF BacklogKind, IDs

LEMMA IDsFinite ==
    ASSUME NEW b, b.items \in Seq(ItemKind)
    PROVE  IDs(b) \subseteq Int /\ IsFiniteSet(IDs(b))
<1>1. IsFiniteSet(DOMAIN b.items) /\ \A i \in DOMAIN b.items : b.items[i].id \in Int
  <2>1. IsFiniteSet(DOMAIN b.items) /\ \A i \in DOMAIN b.items : b.items[i] \in ItemKind
    BY SeqElements
  <2> QED BY <2>1 DEF ItemKind
<1> DEFINE f == [i \in DOMAIN b.items |-> b.items[i].id]
<1>2. f \in Surjection(DOMAIN b.items, IDs(b)) BY DEF Surjection, IDs
<1>3. IsFiniteSet(IDs(b)) BY <1>1, <1>2, FS_Surjection
<1> QED BY <1>1, <1>3 DEF IDs

LEMMA IDsKind ==
    ASSUME NEW b \in BacklogKind
    PROVE  IDs(b) \subseteq Int /\ IsFiniteSet(IDs(b))
BY IDsFinite DEF BacklogKind

LEMMA PlacesKind ==
    ASSUME NEW b, b.items \in Seq(ItemKind)
    PROVE  SimilarPlaces(b) \in Seq((DOMAIN b.items) \X (DOMAIN b.items))
<1> DEFINE D == DOMAIN b.items
           P == {p \in D \X D :
                  p[1] < p[2] /\ SimilarTitles(b.items[p[1]].title, b.items[p[2]].title)}
<1>1. SimilarPlaces(b) = InOrder(P, Lexicographic(P)) BY DEF SimilarPlaces
<1>2. IsFiniteSet(D) /\ D \subseteq Int BY SeqElements
<1>3. P \in SUBSET (D \X D) OBVIOUS
<1> HIDE DEF D, P
<1>4. IsFiniteSet(D \X D) BY <1>2, FS_Product
<1>5. IsFiniteSet(P) BY <1>3, <1>4, FS_Subset
<1>6. P \in SUBSET (Int \X Int) BY <1>2, <1>3
<1>7. Orders(Lexicographic(P), P) BY <1>6, LexicographicOrders
<1>8. InOrder(P, Lexicographic(P)) \in Seq(P) BY <1>5, <1>7, InOrderHolds
<1>9. InOrder(P, Lexicographic(P)) \in Seq(D \X D) BY <1>3, <1>8, SeqMonotonic
<1> QED BY <1>1, <1>9 DEF D

\* The pairs to be joined are pairs of the backlog's IDs.
LEMMA PairsKind ==
    ASSUME NEW b \in BacklogKind
    PROVE  DuplicatePairs(b) \in Seq(IDs(b) \X IDs(b))
<1>1. b.items \in Seq(ItemKind) /\ b.edges \in Seq(EdgeKind) BY DEF BacklogKind
<1> DEFINE edges == DuplicateEdges(b)
           linked == [i \in DOMAIN edges |-> <<edges[i].source, edges[i].target>>]
           similar == SimilarPlaces(b)
           alike == [i \in DOMAIN similar |-> <<b.items[similar[i][1]].id, b.items[similar[i][2]].id>>]
<1>2. Len(edges) \in Nat /\ DOMAIN edges = 1..Len(edges)
      /\ \A i \in 1..Len(edges) : {edges[i].source, edges[i].target} \subseteq IDs(b)
  <2> DEFINE S == {i \in DOMAIN b.edges :
                    /\ NormEdgeType(b.edges[i].type) = "duplicate"
                    /\ {b.edges[i].source, b.edges[i].target} \subseteq IDs(b)}
  <2>1. edges = Cut(b.edges, S) BY DEF DuplicateEdges
  <2>2. \A i \in S : {b.edges[i].source, b.edges[i].target} \subseteq IDs(b) OBVIOUS
  <2>3. S \in SUBSET (DOMAIN b.edges) OBVIOUS
  <2> HIDE DEF S, edges
  <2>4. /\ edges \in Seq(EdgeKind) /\ Len(edges) = Cardinality(S)
        /\ \A k \in 1..Cardinality(S) : Place(S, k) \in S /\ edges[k] = b.edges[Place(S, k)]
    BY <1>1, <2>1, <2>3, CutType
  <2> QED BY <2>2, <2>4
<1>3. linked \in Seq(IDs(b) \X IDs(b))
  <2>1. linked = [i \in 1..Len(edges) |-> linked[i]] BY <1>2
  <2>2. \A i \in 1..Len(edges) : linked[i] \in IDs(b) \X IDs(b) BY <1>2
  <2> HIDE DEF linked
  <2> QED BY <1>2, <2>1, <2>2, MadeSeq
<1>4. similar \in Seq((DOMAIN b.items) \X (DOMAIN b.items)) BY <1>1, PlacesKind
<1>5. alike \in Seq(IDs(b) \X IDs(b))
  <2> HIDE DEF similar
  <2>1. Len(similar) \in Nat /\ DOMAIN similar = 1..Len(similar)
        /\ \A i \in 1..Len(similar) : similar[i] \in (DOMAIN b.items) \X (DOMAIN b.items)
    BY <1>4
  <2>2. alike = [i \in 1..Len(similar) |-> alike[i]] BY <2>1
  <2>3. \A i \in 1..Len(similar) : alike[i] \in IDs(b) \X IDs(b) BY <2>1 DEF IDs
  <2> HIDE DEF alike
  <2> QED BY <2>1, <2>2, <2>3, MadeSeq
<1>6. DuplicatePairs(b) = linked \o alike BY DEF DuplicatePairs
<1> HIDE DEF linked, alike
<1> QED BY <1>3, <1>5, <1>6

-----------------------------------------------------------------------------
(* The invariant.                                                          *)

Shape ==
    /\ file \in FileKind /\ backlog \in BacklogKind
    /\ set \in SetKind /\ handoff \in HandoffKind /\ added \in Seq(EdgeKind)

\* An analysis of a graph is one of the graph as it stands.
OfTheGraph ==
    /\ pc = "idle" => call = NoCall
    /\ pc \in {"routed", "reported"} => call = RagCall
    /\ call = RagCall => Buildable(set) /\ backlog = BacklogOf(set)
    /\ pc = "reported" => report.suggestions = SuggestMissingEdges(set)

Links(b) == ToSet(DuplicatePairs(b))

\* Every link is still to be joined or has its ends under one root.
Joining ==
    /\ DOMAIN parent = IDs(backlog) /\ Parents(parent) /\ Forest(parent)
    /\ pc = "join" =>
         /\ pairs \in Seq(IDs(backlog) \X IDs(backlog))
         /\ \A i \in DOMAIN pairs : pairs[i] \in Links(backlog)
         /\ \A l \in Links(backlog) :
              (\E i \in DOMAIN pairs : pairs[i] = l) \/ Root(parent, l[1]) = Root(parent, l[2])

ClusterInv == Shape /\ OfTheGraph /\ Joining

\* A new backlog, none at the end of a run.
Begins(b) ==
    /\ backlog' = b
    /\ parent' = [id \in IDs(b) |-> id]
    /\ clusters' = {}
    /\ pc' \in {"idle", "join"}
    /\ pc' = "join" => pairs' = DuplicatePairs(b)

\* No step of duplicate detection.
Keeps ==
    /\ UNCHANGED <<backlog, parent, clusters, roles, scores>>
    /\ pc # "join" /\ pc' # "join"
    /\ pc' = "idle" <=> pc = "idle"

LEMMA NoBacklogKind == NoBacklog \in BacklogKind /\ IDs(NoBacklog) = {} /\ [id \in {} |-> id] = <<>>
<1>1. <<>> \in Seq(ItemKind) /\ <<>> \in Seq(EdgeKind) OBVIOUS
<1>2. NoBacklog \in BacklogKind BY <1>1, NoGoalKind DEF NoBacklog, BacklogKind
<1>3. IDs(NoBacklog) = {} BY DEF NoBacklog, IDs
<1>4. [id \in {} |-> id] = <<>> OBVIOUS
<1> QED BY <1>2, <1>3, <1>4

LEMMA ExitBegins ==
    ASSUME NEW code, Exit(code)
    PROVE  /\ NoBacklog \in BacklogKind /\ Begins(NoBacklog)
           /\ pc' = "idle" /\ call' = NoCall
BY NoBacklogKind DEF Exit, Begins

LEMMA GoalOfKind ==
    ASSUME NEW goal \in GoalKind, NEW c \in Calls
    PROVE  GoalOf(goal, c) \in GoalKind
<1> DEFINE minutes == IF goal.minutes = 0 THEN c.budget ELSE goal.minutes
<1>1. c.budget \in Int BY CallsAssumption DEF CallType
<1>2. minutes \in Int BY <1>1 DEF GoalKind
<1>3. GoalOf(goal, c) = IF c.prompt \/ goal.asked
                        THEN [goal EXCEPT !.asked = TRUE, !.minutes = minutes] ELSE goal
  BY DEF GoalOf
<1> HIDE DEF minutes
<1> QED BY <1>2, <1>3 DEF GoalKind

\* What a run starts with.
LEMMA RunBegins ==
    ASSUME file \in FileKind, NEW c \in Calls, Run(c)
    PROVE  \E b \in BacklogKind : Begins(b)
<1> DEFINE parsed == ParseBacklog(file)
           goal == GoalOf(parsed.goal, c)
           b == [items |-> parsed.items, edges |-> parsed.edges, goal |-> goal]
<1>1. /\ parsed.items \in Seq(ItemKind) /\ parsed.edges \in Seq(EdgeKind)
      /\ parsed.goal \in GoalKind
  BY ParseKind DEF ParsedKind
<1>2. goal \in GoalKind BY <1>1, GoalOfKind
<1>3. BeginAnalysis(b) BY DEF Run
<1> HIDE DEF parsed, goal
<1>4. b \in BacklogKind BY <1>1, <1>2 DEF BacklogKind
<1> HIDE DEF b
<1> QED BY <1>3, <1>4 DEF BeginAnalysis, Begins

LEMMA ClusterSteps ==
    ASSUME ClusterInv, RagNext
    PROVE  (\E b \in BacklogKind : Begins(b)) \/ JoinPair \/ Analyze \/ Keeps
<1>1. CASE CitewiseNext
  <2>1. CASE \E c \in Calls : Run(c) \/ RunRefused(c)
    <3>1. PICK c \in Calls : Run(c) \/ RunRefused(c) BY <2>1
    <3>2. CASE Run(c)
      BY <3>2, RunBegins DEF ClusterInv, Shape
    <3>3. CASE RunRefused(c)
      BY <3>3, ExitBegins DEF RunRefused
    <3> QED BY <3>1, <3>2, <3>3
  <2>2. CASE EngineStep
    BY <2>2 DEF EngineStep
  <2>3. CASE Write
    BY <2>3, ExitBegins DEF Write
  <2>4. CASE QueueStep
    <3>1. CASE StartQueue
      BY <3>1 DEF StartQueue, Keeps, engineVars
    <3>2. CASE \E id \in waiting : Take(id) \/ Skip(id)
      BY <3>2 DEF Take, Skip, First, Keeps, engineVars
    <3>3. CASE EndQueue
      BY <3>3, ExitBegins DEF EndQueue
    <3> QED BY <2>4, <3>1, <3>2, <3>3 DEF QueueStep
  <2>5. CASE ReadItem
    BY <2>5 DEF ReadItem, Keeps, engineVars
  <2> QED BY <1>1, <2>1, <2>2, <2>3, <2>4, <2>5 DEF CitewiseNext, Next
<1>2. CASE \E h \in Handoffs : Receive(h)
  BY <1>2 DEF Receive, Keeps, citewiseVars, engineVars
<1>3. CASE \E ctx \in Callers : RedactHandoff(ctx)
  BY <1>3 DEF RedactHandoff, Keeps, citewiseVars, engineVars
<1>4. CASE BuildAnalysis
  <2>1. CASE Buildable(set)
    <3>1. BacklogOf(set) \in BacklogKind BY <2>1, BuiltKind DEF ClusterInv, Shape
    <3>2. BeginAnalysis(BacklogOf(set)) BY <1>4, <2>1 DEF BuildAnalysis
    <3>3. Begins(BacklogOf(set)) BY <3>2 DEF BeginAnalysis, Begins
    <3> QED BY <3>1, <3>3
  <2>2. CASE ~Buildable(set)
    BY <1>4, <2>2, ExitBegins DEF BuildAnalysis
  <2> QED BY <2>1, <2>2
<1>5. CASE RouteQuery
  BY <1>5 DEF RouteQuery, Keeps, engineVars
<1>6. CASE \E degraded \in BOOLEAN : AnalyzeHygiene(degraded)
  BY <1>6 DEF AnalyzeHygiene, Keeps, engineVars
<1>7. CASE Discard
  BY <1>7, ExitBegins DEF Discard, Respond
<1>8. CASE \E e \in report.suggestions : AddSuggestion(e)
  BY <1>8, ExitBegins DEF AddSuggestion, Respond
<1> QED BY <1>1, <1>2, <1>3, <1>4, <1>5, <1>6, <1>7, <1>8 DEF RagNext

LEMMA LinksKind ==
    ASSUME NEW b \in BacklogKind
    PROVE  /\ Links(b) = {DuplicatePairs(b)[i] : i \in DOMAIN DuplicatePairs(b)}
           /\ Links(b) \subseteq IDs(b) \X IDs(b)
<1>1. /\ \A i \in DOMAIN DuplicatePairs(b) : DuplicatePairs(b)[i] \in IDs(b) \X IDs(b)
      /\ ToSet(DuplicatePairs(b)) = {DuplicatePairs(b)[i] : i \in DOMAIN DuplicatePairs(b)}
  BY PairsKind, SeqElements
<1> QED BY <1>1 DEF Links

LEMMA JoiningBegins ==
    ASSUME NEW b \in BacklogKind, Begins(b)
    PROVE  Joining'
<1>1. backlog' = b /\ parent' = [id \in IDs(b) |-> id] /\ (pc' = "join" => pairs' = DuplicatePairs(b))
  BY DEF Begins
<1>2. Parents(parent') /\ Forest(parent') BY <1>1, GroupsAlone
<1>3. DOMAIN parent' = IDs(backlog') BY <1>1
<1>4. Parents(parent)' /\ Forest(parent)' BY <1>2 DEF Parents, Forest, ClosedSet, IsRoot
<1>5. DuplicatePairs(b) \in Seq(IDs(b) \X IDs(b)) BY PairsKind
<1>6. Links(backlog)' = Links(b) BY <1>1 DEF Links
<1> QED BY <1>1, <1>3, <1>4, <1>5, <1>6, LinksKind DEF Joining

LEMMA JoinPairJoins ==
    ASSUME backlog \in BacklogKind, Joining, JoinPair
    PROVE  LET l == pairs[1]
           IN  /\ l \in Links(backlog) /\ l[1] \in DOMAIN parent /\ l[2] \in DOMAIN parent
               /\ parent' = Join(parent, l[1], l[2])
               /\ Joining'
<1> DEFINE l == pairs[1]
           new == Join(parent, l[1], l[2])
<1>1. /\ pc = "join" /\ pc' = "join" /\ pairs # <<>> /\ backlog' = backlog
      /\ parent' = new /\ pairs' = Tail(pairs)
  BY DEF JoinPair
<1>2. /\ pairs \in Seq(IDs(backlog) \X IDs(backlog))
      /\ \A i \in DOMAIN pairs : pairs[i] \in Links(backlog)
      /\ \A m \in Links(backlog) :
           (\E i \in DOMAIN pairs : pairs[i] = m) \/ Root(parent, m[1]) = Root(parent, m[2])
  BY <1>1 DEF Joining
<1>3. /\ Len(pairs) \in Nat /\ DOMAIN pairs = 1..Len(pairs) /\ 1 \in DOMAIN pairs
      /\ Tail(pairs) \in Seq(IDs(backlog) \X IDs(backlog))
      /\ DOMAIN Tail(pairs) = 1..(Len(pairs) - 1)
      /\ \A i \in 1..(Len(pairs) - 1) : Tail(pairs)[i] = pairs[i + 1]
  BY <1>1, <1>2
<1>4. l \in Links(backlog) /\ l[1] \in DOMAIN parent /\ l[2] \in DOMAIN parent
  <2>1. l \in Links(backlog) BY <1>2, <1>3
  <2>2. DOMAIN parent = IDs(backlog) BY DEF Joining
  <2> QED BY <2>1, <2>2, LinksKind
<1>5. /\ DOMAIN new = DOMAIN parent /\ Parents(new) /\ Forest(new)
      /\ \A z \in DOMAIN parent :
           Root(new, z) = IF Root(parent, z) = Root(parent, l[2]) THEN Root(parent, l[1])
                          ELSE Root(parent, z)
  <2>1. Parents(parent) /\ Forest(parent) BY DEF Joining
  <2> QED BY <1>4, <2>1, JoinMoves
<1> HIDE DEF new
<1>6. Parents(parent)' /\ Forest(parent)' /\ DOMAIN parent' = IDs(backlog')
  <2>1. DOMAIN parent = IDs(backlog) BY DEF Joining
  <2> QED BY <1>1, <1>5, <2>1 DEF Parents, Forest, ClosedSet, IsRoot
<1>7. ASSUME NEW m \in Links(backlog)
      PROVE  (\E i \in DOMAIN Tail(pairs) : Tail(pairs)[i] = m) \/ Root(new, m[1]) = Root(new, m[2])
  <2>1. m[1] \in DOMAIN parent /\ m[2] \in DOMAIN parent
    <3>1. DOMAIN parent = IDs(backlog) BY DEF Joining
    <3> QED BY <3>1, LinksKind
  <2>2. CASE Root(parent, m[1]) = Root(parent, m[2])
    BY <1>5, <2>1, <2>2
  <2>3. CASE m = l
    BY <1>4, <1>5, <2>3
  <2>4. ASSUME NEW i \in DOMAIN pairs, pairs[i] = m, i # 1
        PROVE  \E j \in DOMAIN Tail(pairs) : Tail(pairs)[j] = m
    <3>1. i - 1 \in 1..(Len(pairs) - 1) /\ (i - 1) + 1 = i BY <1>3, <2>4
    <3>2. Tail(pairs)[i - 1] = pairs[i] BY <1>3, <3>1
    <3> QED BY <1>3, <2>4, <3>1, <3>2
  <2> QED BY <1>2, <2>2, <2>3, <2>4
<1>8. \A i \in DOMAIN Tail(pairs) : Tail(pairs)[i] \in Links(backlog)
  <2> SUFFICES ASSUME NEW i \in 1..(Len(pairs) - 1) PROVE pairs[i + 1] \in Links(backlog)
    BY <1>3
  <2>1. i + 1 \in DOMAIN pairs BY <1>3
  <2> QED BY <1>2, <2>1
<1>9. Links(backlog)' = Links(backlog) /\ IDs(backlog)' = IDs(backlog) BY <1>1 DEF Links, IDs
<1>10. \A z : Root(parent, z)' = Root(new, z) BY <1>1 DEF Root, Way
<1>11. Joining'
  <2>1. pairs' \in Seq(IDs(backlog)' \X IDs(backlog)') BY <1>1, <1>3, <1>9
  <2>2. \A i \in DOMAIN pairs' : pairs'[i] \in Links(backlog)' BY <1>1, <1>8, <1>9
  <2>3. \A m \in Links(backlog)' :
          (\E i \in DOMAIN pairs' : pairs'[i] = m) \/ Root(parent, m[1])' = Root(parent, m[2])'
    BY <1>1, <1>7, <1>9, <1>10
  <2> QED BY <1>6, <2>1, <2>2, <2>3 DEF Joining
<1> QED BY <1>1, <1>4, <1>11 DEF new

LEMMA JoiningKept ==
    ASSUME Joining, backlog' = backlog, parent' = parent, pc' # "join"
    PROVE  Joining'
<1>1. Parents(parent)' /\ Forest(parent)' /\ DOMAIN parent' = IDs(backlog')
  BY DEF Joining, Parents, Forest, ClosedSet, IsRoot
<1> QED BY <1>1 DEF Joining

\* The steps of the union-find are steps of the partition.
LEMMA BeginsPoses ==
    ASSUME NEW b \in BacklogKind, Begins(b)
    PROVE  Abstract!Pose
<1>1. backlog' = b /\ parent' = [id \in IDs(b) |-> id] /\ clusters' = {} /\ pc' \in {"idle", "join"}
  BY DEF Begins
<1>2. ToSet(DuplicatePairs(b)) \subseteq IDs(b) \X IDs(b) BY LinksKind DEF Links
<1>3. Groups(parent') = {{x} : x \in IDs(b)} BY <1>1, GroupsAlone
<1>4. Groups(parent)' = Groups(parent') OBVIOUS
<1> QED BY <1>1, <1>2, <1>3, <1>4 DEF Abstract!Pose

LEMMA JoinPairMerges ==
    ASSUME backlog \in BacklogKind, Joining, JoinPair
    PROVE  Abstract!Merge \/ UNCHANGED Abstract!partitionVars
<1> DEFINE l == pairs[1]
           x == l[1]
           y == l[2]
           c == Group(parent, x)
           d == Group(parent, y)
<1>1. l \in Links(backlog) /\ x \in DOMAIN parent /\ y \in DOMAIN parent /\ parent' = Join(parent, x, y)
  BY JoinPairJoins
<1>2. pc = "join" /\ pc' = "join" /\ backlog' = backlog /\ clusters' = clusters
  BY DEF JoinPair
<1>3. Parents(parent) /\ Forest(parent) BY DEF Joining
<1> HIDE DEF l
<1>4. /\ Root(parent, x) = Root(parent, y) => Groups(Join(parent, x, y)) = Groups(parent)
      /\ Root(parent, x) # Root(parent, y) =>
           Groups(Join(parent, x, y)) = (Groups(parent) \ {c, d}) \cup {c \cup d}
  BY <1>1, <1>3, GroupsJoin
<1>5. Groups(parent)' = Groups(Join(parent, x, y)) BY <1>1 DEF Groups, Root, Way
<1>6. CASE Root(parent, x) = Root(parent, y)
  BY <1>2, <1>4, <1>5, <1>6 DEF Abstract!partitionVars
<1>7. CASE Root(parent, x) # Root(parent, y)
  <2>1. c \in Groups(parent) /\ d \in Groups(parent) /\ c # d
    BY <1>1, <1>7, GroupsAre
  <2>2. x \in c /\ y \in d BY <1>1 DEF Group
  <2>3. l \in ToSet(DuplicatePairs(backlog)) BY <1>1 DEF Links
  <2>4. Abstract!Crossing(c, d) BY <2>2, <2>3 DEF Abstract!Crossing
  <2>5. Groups(parent)' = (Groups(parent) \ {c, d}) \cup {c \cup d} BY <1>4, <1>5, <1>7
  <2> HIDE DEF c, d
  <2> QED BY <1>2, <2>1, <2>4, <2>5 DEF Abstract!Merge
<1> QED BY <1>6, <1>7

LEMMA AnalyzeReports ==
    ASSUME backlog \in BacklogKind, Joining, Analyze
    PROVE  Abstract!Report
<1>1. /\ pc = "join" /\ pairs = <<>> /\ pc' = "analyzed"
      /\ backlog' = backlog /\ parent' = parent /\ clusters' = Clusters(parent)
  BY DEF Analyze
<1>2. DOMAIN parent = IDs(backlog) /\ \A l \in Links(backlog) : Root(parent, l[1]) = Root(parent, l[2])
  <2>1. \A l \in Links(backlog) :
          (\E i \in DOMAIN pairs : pairs[i] = l) \/ Root(parent, l[1]) = Root(parent, l[2])
    BY <1>1 DEF Joining
  <2>2. DOMAIN pairs = {} BY <1>1
  <2> QED BY <2>1, <2>2 DEF Joining
<1>3. ASSUME NEW c \in Groups(parent), NEW d \in Groups(parent), c # d
      PROVE  ~Abstract!Crossing(c, d)
  <2> SUFFICES ASSUME NEW l \in Links(backlog), l[1] \in c, l[2] \in d PROVE FALSE
    BY DEF Abstract!Crossing, Links
  <2>1. /\ l[1] \in DOMAIN parent /\ l[2] \in DOMAIN parent
        /\ c = Group(parent, l[1]) /\ d = Group(parent, l[2])
    BY GroupsAre
  <2>2. Root(parent, l[1]) = Root(parent, l[2]) BY <1>2
  <2> QED BY <1>3, <2>1, <2>2, GroupsAre
<1>4. ASSUME NEW g \in Groups(parent)
      PROVE  Cardinality(g) > 1 <=> \E x, y \in g : x # y
  <2>1. g \subseteq IDs(backlog) BY <1>2, GroupsAre
  <2>2. IsFiniteSet(g) /\ Cardinality(g) \in Nat BY <2>1, IDsKind, FS_Subset, FS_CardinalityType
  <2>3. Cardinality(g) = 0 <=> g = {} BY <2>2, FS_EmptySet
  <2>4. Cardinality(g) = 1 <=> \E x : g = {x} BY <2>2, FS_Singleton
  <2>5. Cardinality(g) > 1 <=> Cardinality(g) # 0 /\ Cardinality(g) # 1 BY <2>2
  <2>6. (g # {} /\ ~\E x : g = {x}) <=> \E x, y \in g : x # y
    <3>1. ASSUME NEW x \in g, g # {x} PROVE \E y \in g : x # y BY <3>1
    <3> QED BY <3>1
  <2> QED BY <2>3, <2>4, <2>5, <2>6
<1>5. clusters' = {c \in Groups(parent) : \E x, y \in c : x # y}
  BY <1>1, <1>4 DEF Clusters
<1>6. Groups(parent)' = Groups(parent) BY <1>1 DEF Groups, Root, Way
<1> QED BY <1>1, <1>3, <1>5, <1>6 DEF Abstract!Report

-----------------------------------------------------------------------------
(* The other parts of the invariant.                                       *)

SuggestedTypes == {"supersedes", "community-member-of", "exception-to", "same-question", "duplicate"}

\* What the hygiene report suggests runs between two nodes of the graph.
LEMMA SuggestionKind ==
    ASSUME NEW s \in SetKind, NEW e \in SuggestMissingEdges(s)
    PROVE  /\ e \in EdgeKind /\ e.type \in SuggestedTypes
           /\ \E i, j \in DOMAIN s.nodes :
                s.nodes[i] # s.nodes[j] /\ e.source = s.nodes[i].item.id /\ e.target = s.nodes[j].item.id
<1>1. /\ ToSet(s.nodes) = {s.nodes[i] : i \in DOMAIN s.nodes}
      /\ \A i \in DOMAIN s.nodes : s.nodes[i] \in NodeKind
  BY SeqElements DEF SetKind
<1>2. PICK m \in ToSet(s.nodes), n \in ToSet(s.nodes) :
         m # n /\ (e \in OneWaySuggestions(s, m, n) \/ e \in TwoWaySuggestions(s, m, n))
  <2> DEFINE T == ToSet(s.nodes)
             ways == {p \in T \X T : p[1] # p[2]}
             later == {q \in ways : q[1].item.id < q[2].item.id}
             one == UNION {OneWaySuggestions(s, p[1], p[2]) : p \in ways}
             two == UNION {TwoWaySuggestions(s, p[1], p[2]) : p \in later}
  <2>0. SuggestMissingEdges(s) = one \cup two BY DEF SuggestMissingEdges
  <2>1. e \in one \/ e \in two
    <3> HIDE DEF one, two
    <3> QED BY <2>0
  <2>2. later \subseteq ways OBVIOUS
  <2> HIDE DEF later
  <2>3. PICK p \in ways : e \in OneWaySuggestions(s, p[1], p[2]) \/ e \in TwoWaySuggestions(s, p[1], p[2])
    BY <2>1, <2>2
  <2> QED BY <2>3
<1>3. m.item.id \in Int /\ n.item.id \in Int BY <1>1 DEF NodeKind, ItemKind
<1>4. PICK a \in {m.item.id}, b \in {n.item.id}, type \in SuggestedTypes, c \in Int :
         e = Edge(a, b, type, c) \/ e = Edge(b, a, type, c)
  <2> DEFINE a == m.item.id
             b == n.item.id
  <2>1. CASE e \in OneWaySuggestions(s, m, n)
    <3>1. e \in {Edge(b, a, "supersedes", 100), Edge(b, a, "community-member-of", 80),
                 Edge(b, a, "exception-to", 55)}
      BY <2>1 DEF OneWaySuggestions
    <3> HIDE DEF a, b
    <3> QED BY <3>1 DEF SuggestedTypes, a, b
  <2>2. CASE e \in TwoWaySuggestions(s, m, n)
    <3>1. e \in {Edge(a, b, "same-question", 70), Edge(a, b, "duplicate", 90)}
      BY <2>2 DEF TwoWaySuggestions
    <3> QED BY <3>1 DEF SuggestedTypes
  <2> QED BY <1>2, <2>1, <2>2
<1>5. type \in Names BY DEF SuggestedTypes, Names
<1>6. e \in EdgeKind BY <1>3, <1>4, <1>5, EdgeIsKind
<1>7. e.type = type /\ ((e.source = a /\ e.target = b) \/ (e.source = b /\ e.target = a))
  BY <1>4 DEF Edge
<1> QED BY <1>1, <1>2, <1>4, <1>6, <1>7

LEMMA ReadKind ==
    ASSUME file \in FileKind, ReadItem
    PROVE  file' \in FileKind
<1> DEFINE parsed == ParseBacklog(file)
<1>1. parsed.items \in Seq(ItemKind) /\ parsed.edges \in Seq(EdgeKind) /\ parsed.goal \in GoalKind
  BY ParseKind DEF ParsedKind
<1>2. PICK i \in DOMAIN parsed.items :
         file' = [form |-> "object", edges |-> parsed.edges, rows |-> <<>>,
                  items |-> [parsed.items EXCEPT ![i].status = "read"], goal |-> parsed.goal]
  BY DEF ReadItem
<1> HIDE DEF parsed
<1> DEFINE one == [parsed.items[i] EXCEPT !.status = "read"]
           items == [parsed.items EXCEPT ![i].status = "read"]
<1>3. Len(parsed.items) \in Nat /\ DOMAIN parsed.items = 1..Len(parsed.items)
      /\ \A j \in DOMAIN parsed.items : parsed.items[j] \in ItemKind
  BY <1>1
<1>4. one \in ItemKind
  <2>1. "read" \in Names BY DEF Names
  <2> QED BY <1>3, <2>1 DEF ItemKind
<1>5. items = [j \in 1..Len(parsed.items) |-> IF j = i THEN one ELSE parsed.items[j]] BY <1>3
<1> HIDE DEF one
<1>6. items \in Seq(ItemKind)
  <2>1. \A j \in 1..Len(parsed.items) : items[j] \in ItemKind BY <1>3, <1>4, <1>5
  <2>2. items = [j \in 1..Len(parsed.items) |-> items[j]] BY <1>5
  <2> HIDE DEF items
  <2> QED BY <1>3, <2>1, <2>2, MadeSeq
<1>7. <<>> \in Seq(RowKind) /\ "object" \in Names \cup {"object"} OBVIOUS
<1> HIDE DEF items
<1>8. file' = [form |-> "object", edges |-> parsed.edges, rows |-> <<>>, items |-> items,
               goal |-> parsed.goal]
  BY <1>2 DEF items
<1> QED BY <1>1, <1>6, <1>7, <1>8 DEF FileKind

\* What a step may do to the file, the handoff and the graph.
Unhanded == UNCHANGED <<handoff, set, added>>

LEMMA GraphSteps ==
    ASSUME RagNext
    PROVE  /\ ReadItem \/ file' = file
           /\ \/ Unhanded
              \/ \E h \in Handoffs : Receive(h)
              \/ \E ctx \in Callers : RedactHandoff(ctx)
              \/ \E e \in report.suggestions : AddSuggestion(e)
<1>1. CASE CitewiseNext
  <2>1. Unhanded BY <1>1 DEF CitewiseNext, ragVars, Unhanded
  <2>2. ReadItem \/ file' = file
    BY <1>1 DEF CitewiseNext, Next, Run, RunRefused, EngineStep, JoinPair, Analyze, Write,
                QueueStep, StartQueue, Take, Skip, EndQueue
  <2> QED BY <2>1, <2>2
<1>2. CASE \E h \in Handoffs : Receive(h)
  BY <1>2 DEF Receive, citewiseVars
<1>3. CASE \E ctx \in Callers : RedactHandoff(ctx)
  BY <1>3 DEF RedactHandoff, citewiseVars
<1>4. CASE BuildAnalysis
  BY <1>4 DEF BuildAnalysis, ragVars, Unhanded
<1>5. CASE RouteQuery
  BY <1>5 DEF RouteQuery, Unhanded
<1>6. CASE \E degraded \in BOOLEAN : AnalyzeHygiene(degraded)
  BY <1>6 DEF AnalyzeHygiene, Unhanded
<1>7. CASE Discard
  BY <1>7 DEF Discard, Respond, Unhanded
<1>8. CASE \E e \in report.suggestions : AddSuggestion(e)
  BY <1>8 DEF AddSuggestion, Respond
<1> QED BY <1>1, <1>2, <1>3, <1>4, <1>5, <1>6, <1>7, <1>8 DEF RagNext

LEMMA ShapeNext ==
    ASSUME ClusterInv, RagNext
    PROVE  Shape'
<1>1. file' \in FileKind
  BY GraphSteps, ReadKind DEF ClusterInv, Shape
<1>2. backlog' \in BacklogKind
  BY ClusterSteps DEF ClusterInv, Shape, Begins, JoinPair, Analyze, Keeps
<1>3. CASE Unhanded
  BY <1>1, <1>2, <1>3 DEF ClusterInv, Shape, Unhanded
<1>4. CASE \E h \in Handoffs : Receive(h)
  <2>1. PICK h \in Handoffs : handoff' = h /\ set' = Mapped(h) /\ added' = <<>> BY <1>4 DEF Receive
  <2>2. h \in HandoffKind \ {NoHandoff}
    <3>1. h \in ExportType \cup ResultsType \cup HybridType \cup {FromBacklog} BY HandoffsAssumption
    <3>2. h.origin # "none" BY <3>1 DEF ExportType, ResultsType, HybridType, FromBacklog
    <3> QED BY <3>1, <3>2 DEF HandoffKind, NoHandoff
  <2>3. Mapped(h) \in SetKind BY <2>2, MappedKind DEF ClusterInv, Shape
  <2> QED BY <1>1, <1>2, <2>1, <2>2, <2>3 DEF Shape
<1>5. CASE \E ctx \in Callers : RedactHandoff(ctx)
  <2>1. PICK ctx \in Callers :
           /\ handoff.origin = "hybrid"
           /\ handoff' = RedactForReranker(ctx, handoff) /\ set' = MapHandoff(handoff') /\ added' = <<>>
    BY <1>5 DEF RedactHandoff
  <2>2. handoff \in HybridType
    BY <2>1 DEF ClusterInv, Shape, HandoffKind, ExportType, ResultsType, FromBacklog, NoHandoff
  <2>3. handoff' \in HybridType BY <2>1, <2>2, RedactKind
  <2>4. set' \in SetKind BY <2>1, <2>3, HybridKind
  <2>5. added' \in Seq(EdgeKind) BY <2>1
  <2> QED BY <1>1, <1>2, <2>3, <2>4, <2>5 DEF Shape, HandoffKind
<1>6. CASE \E e \in report.suggestions : AddSuggestion(e)
  <2>1. PICK e \in report.suggestions :
           /\ pc = "reported" /\ set' = [set EXCEPT !.edges = Append(@, e)]
           /\ handoff' = handoff /\ added' = Append(added, e)
    BY <1>6 DEF AddSuggestion, Respond
  <2>2. e \in EdgeKind /\ set \in SetKind
    BY <2>1, SuggestionKind DEF ClusterInv, OfTheGraph, Shape
  <2>3. set' \in SetKind
    <3> DEFINE edges == Append(set.edges, e)
    <3>1. edges \in Seq(EdgeKind) BY <2>2 DEF SetKind
    <3>2. set' = [set EXCEPT !.edges = edges] BY <2>1
    <3> HIDE DEF edges
    <3> QED BY <2>2, <3>1, <3>2 DEF SetKind
  <2>4. added' \in Seq(EdgeKind) BY <2>1, <2>2 DEF ClusterInv, Shape
  <2> QED BY <1>1, <1>2, <2>1, <2>3, <2>4 DEF ClusterInv, Shape
<1> QED BY <1>3, <1>4, <1>5, <1>6, GraphSteps

LEMMA KnownCall ==
    /\ NoCall # RagCall
    /\ \A c \in Calls : c # RagCall
<1>1. NoCall # RagCall BY DEF NoCall, RagCall
<1>2. \A c \in CallType : "file" \in DOMAIN c BY DEF CallType
<1>3. "file" \notin DOMAIN RagCall BY DEF RagCall
<1> QED BY <1>1, <1>2, <1>3, CallsAssumption

LEMMA OfTheGraphNext ==
    ASSUME ClusterInv, RagNext
    PROVE  OfTheGraph'
<1> USE KnownCall
<1> DEFINE Ended == pc' = "idle" /\ call' = NoCall
           Going == /\ UNCHANGED <<call, backlog, set>>
                    /\ pc \notin {"idle", "routed", "reported"}
                    /\ pc' \notin {"idle", "routed", "reported"}
<1>1. ASSUME Ended PROVE OfTheGraph' BY <1>1 DEF OfTheGraph
<1>2. ASSUME Going PROVE OfTheGraph'
  BY <1>2 DEF ClusterInv, OfTheGraph, Buildable, BacklogOf
<1>3. ASSUME NEW code, Exit(code) PROVE Ended BY <1>3, ExitBegins
<1>4. CASE CitewiseNext
  <2>1. set' = set BY <1>4 DEF CitewiseNext, ragVars
  <2>2. CASE \E c \in Calls : Run(c) \/ RunRefused(c)
    <3>1. PICK c \in Calls : Run(c) \/ RunRefused(c) BY <2>2
    <3>2. CASE Run(c)
      BY <3>2 DEF Run, BeginAnalysis, OfTheGraph
    <3>3. CASE RunRefused(c)
      BY <3>3, <1>1, <1>3 DEF RunRefused
    <3> QED BY <3>1, <3>2, <3>3
  <2>3. CASE EngineStep
    BY <2>1, <2>3, <1>2 DEF EngineStep, JoinPair, Analyze
  <2>4. CASE Write
    BY <2>4, <1>1, <1>3 DEF Write
  <2>5. CASE QueueStep
    <3>1. CASE StartQueue
      BY <2>1, <3>1, <1>2 DEF StartQueue, engineVars
    <3>2. CASE \E id \in waiting : Take(id) \/ Skip(id)
      BY <2>1, <3>2, <1>2 DEF Take, Skip, First, engineVars
    <3>3. CASE EndQueue
      BY <3>3, <1>1, <1>3 DEF EndQueue
    <3> QED BY <2>5, <3>1, <3>2, <3>3 DEF QueueStep
  <2>6. CASE ReadItem
    <3>1. Ended BY <2>6 DEF ReadItem, ClusterInv, OfTheGraph
    <3> QED BY <3>1, <1>1
  <2> QED BY <1>4, <2>2, <2>3, <2>4, <2>5, <2>6 DEF CitewiseNext, Next
<1>5. CASE \E h \in Handoffs : Receive(h)
  <2>1. Ended BY <1>5 DEF Receive, citewiseVars, ClusterInv, OfTheGraph
  <2> QED BY <2>1, <1>1
<1>6. CASE \E ctx \in Callers : RedactHandoff(ctx)
  <2>1. Ended BY <1>6 DEF RedactHandoff, citewiseVars, ClusterInv, OfTheGraph
  <2> QED BY <2>1, <1>1
<1>7. CASE BuildAnalysis
  <2>1. CASE Buildable(set)
    <3>1. pc' = "join" /\ set' = set /\ backlog' = BacklogOf(set)
      BY <1>7, <2>1 DEF BuildAnalysis, BeginAnalysis, ragVars
    <3>2. (Buildable(set) <=> Buildable(set)') /\ BacklogOf(set)' = BacklogOf(set)
      BY <3>1 DEF Buildable, BacklogOf
    <3> QED BY <2>1, <3>1, <3>2 DEF OfTheGraph
  <2>2. CASE ~Buildable(set)
    BY <1>7, <2>2, <1>1, <1>3 DEF BuildAnalysis
  <2> QED BY <2>1, <2>2
<1>8. CASE RouteQuery
  <2>1. pc' = "routed" /\ call = RagCall /\ UNCHANGED <<call, backlog, set>>
    BY <1>8 DEF RouteQuery, engineVars
  <2> QED BY <2>1 DEF ClusterInv, OfTheGraph, Buildable, BacklogOf
<1>9. CASE \E degraded \in BOOLEAN : AnalyzeHygiene(degraded)
  <2>1. pc = "routed" /\ pc' = "reported" /\ UNCHANGED <<call, backlog, set>>
    BY <1>9 DEF AnalyzeHygiene, engineVars
  <2>2. report'.suggestions = SuggestMissingEdges(set) BY <1>9 DEF AnalyzeHygiene
  <2>3. SuggestMissingEdges(set)' = SuggestMissingEdges(set') OBVIOUS
  <2> QED BY <2>1, <2>2, <2>3 DEF ClusterInv, OfTheGraph, Buildable, BacklogOf
<1>10. CASE Discard
  BY <1>10, <1>1, <1>3 DEF Discard, Respond
<1>11. CASE \E e \in report.suggestions : AddSuggestion(e)
  BY <1>11, <1>1, <1>3 DEF AddSuggestion, Respond
<1> QED BY <1>4, <1>5, <1>6, <1>7, <1>8, <1>9, <1>10, <1>11 DEF RagNext

LEMMA ClusterInvInit == RagInit => ClusterInv
<1> SUFFICES ASSUME RagInit PROVE ClusterInv
  OBVIOUS
<1>1. /\ pc = "idle" /\ file \in Files /\ call = NoCall /\ backlog = NoBacklog /\ parent = <<>>
      /\ handoff = NoHandoff /\ set = NoSet /\ added = <<>>
  BY DEF RagInit, Init
<1>2. Shape
  <2>1. file \in FileKind BY <1>1, FilesAssumption, FileInKind
  <2>2. NoQuery \in QueryType BY DEF NoQuery, QueryType
  <2>3. <<>> \in Seq(NodeKind) /\ <<>> \in Seq(EdgeKind) /\ {} \in SUBSET Int OBVIOUS
  <2>4. NoSet \in SetKind BY <2>2, <2>3 DEF NoSet, SetKind
  <2> QED BY <1>1, <2>1, <2>4, NoBacklogKind DEF Shape, HandoffKind
<1>3. OfTheGraph BY <1>1, KnownCall DEF OfTheGraph
<1>4. Joining
  <2>1. parent = [id \in {} |-> id] /\ IDs(backlog) = {} BY <1>1, NoBacklogKind
  <2>2. Parents(parent) /\ Forest(parent) BY <2>1, GroupsAlone
  <2> QED BY <1>1, <2>1, <2>2 DEF Joining
<1> QED BY <1>2, <1>3, <1>4 DEF ClusterInv

LEMMA ClusterInvNext == ClusterInv /\ [RagNext]_vars => ClusterInv'
<1> SUFFICES ASSUME ClusterInv, [RagNext]_vars PROVE ClusterInv'
  OBVIOUS
<1>1. CASE RagNext
  <2>1. Joining'
    <3>1. backlog \in BacklogKind /\ Joining BY DEF ClusterInv, Shape
    <3>2. CASE Analyze \/ Keeps
      BY <3>1, <3>2, JoiningKept DEF Analyze, Keeps
    <3> QED BY <1>1, <3>1, <3>2, ClusterSteps, JoiningBegins, JoinPairJoins
  <2> QED BY <1>1, <2>1, ShapeNext, OfTheGraphNext DEF ClusterInv
<1>2. CASE UNCHANGED vars
  <2>1. UNCHANGED <<file, backlog, set, handoff, added, pc, call, report, parent, pairs>>
    BY <1>2 DEF vars, citewiseVars, engineVars, ragVars
  <2>2. Shape' BY <2>1 DEF ClusterInv, Shape
  <2>3. OfTheGraph'
    BY <2>1 DEF ClusterInv, OfTheGraph, Buildable, BacklogOf, SuggestMissingEdges
  <2>4. Joining'
    <3>1. /\ IDs(backlog)' = IDs(backlog) /\ Links(backlog)' = Links(backlog)
          /\ \A x : Root(parent, x)' = Root(parent, x)
      BY <2>1 DEF IDs, Links, Root, Way
    <3>2. /\ Parents(parent) => Parents(parent)'
          /\ Forest(parent) => Forest(parent)'
      BY <2>1 DEF Parents, Forest, ClosedSet, IsRoot
    <3> QED BY <2>1, <3>1, <3>2 DEF ClusterInv, Joining
  <2> QED BY <2>2, <2>3, <2>4 DEF ClusterInv
<1> QED BY <1>1, <1>2

LEMMA ClusterInvAlways == RagSpec => []ClusterInv
BY ClusterInvInit, ClusterInvNext, PTL DEF RagSpec

\* Duplicate detection with its union-find, path compression and all
\* (pkg/citewise/engine.go, DetectDuplicates), implements the partition of the items by
\* their duplicate links.
THEOREM UnionFindImplementsPartition == RagSpec => ImplementsPartition
<1>1. RagInit => Abstract!Init
  <2> SUFFICES ASSUME RagInit PROVE Abstract!Init
    OBVIOUS
  <2>1. /\ pc = "idle" /\ backlog = NoBacklog /\ parent = <<>> /\ clusters = {}
    BY DEF RagInit, Init
  <2>2. IDs(backlog) = {} /\ parent = [id \in {} |-> id] BY <2>1, NoBacklogKind
  <2>3. Groups(parent) = {}
    <3>1. Groups([id \in {} |-> id]) = {{x} : x \in {}} BY GroupsAlone
    <3> QED BY <2>2, <3>1
  <2>4. ToSet(DuplicatePairs(backlog)) = {}
    BY <2>1, <2>2, NoBacklogKind, LinksKind DEF Links
  <2> QED BY <2>1, <2>2, <2>3, <2>4 DEF Abstract!Init
<1>2. ClusterInv /\ [RagNext]_vars => [Abstract!Next]_(Abstract!partitionVars)
  <2> SUFFICES ASSUME ClusterInv, [RagNext]_vars
               PROVE  Abstract!Next \/ UNCHANGED Abstract!partitionVars
    OBVIOUS
  <2>1. backlog \in BacklogKind /\ Joining BY DEF ClusterInv, Shape
  <2>2. CASE Keeps
    BY <2>2 DEF Keeps, Abstract!partitionVars, Groups, Root, Way, IDs, DuplicatePairs
  <2>3. CASE UNCHANGED vars
    <3>1. UNCHANGED <<backlog, parent, clusters, pc>>
      BY <2>3 DEF vars, citewiseVars, engineVars
    <3> QED BY <3>1 DEF Abstract!partitionVars, Groups, Root, Way, IDs, DuplicatePairs
  <2> QED BY <2>1, <2>2, <2>3, ClusterSteps, BeginsPoses, JoinPairMerges, AnalyzeReports
          DEF Abstract!Next
<1> QED BY <1>1, <1>2, ClusterInvAlways, PTL DEF RagSpec, ImplementsPartition, Abstract!Spec

-----------------------------------------------------------------------------
(* What the partition promises, for the engine's items, links and clusters. *)

Engine == INSTANCE PartitionProofs WITH
            items    <- IDs(backlog),
            links    <- ToSet(DuplicatePairs(backlog)),
            classes  <- Groups(parent),
            clusters <- clusters,
            reported <- pc \notin {"idle", "join"}

\* The partition that the union-find implements is the one PartitionProofs is about.
LEMMA EngineIsPartition == RagSpec => Engine!Spec
<1>1. Abstract!Init => Engine!Init BY DEF Abstract!Init, Engine!Init
<1>2. [Abstract!Next]_(Abstract!partitionVars) => [Engine!Next]_(Engine!partitionVars)
  <2>1. Abstract!Pose => Engine!Pose BY DEF Abstract!Pose, Engine!Pose
  <2>2. Abstract!Merge => Engine!Merge
    BY DEF Abstract!Merge, Engine!Merge, Abstract!Crossing, Engine!Crossing
  <2>3. Abstract!Report => Engine!Report
    BY DEF Abstract!Report, Engine!Report, Abstract!Crossing, Engine!Crossing
  <2>4. UNCHANGED Abstract!partitionVars => UNCHANGED Engine!partitionVars
    BY DEF Abstract!partitionVars, Engine!partitionVars
  <2> QED BY <2>1, <2>2, <2>3, <2>4 DEF Abstract!Next, Engine!Next
<1> QED BY <1>1, <1>2, UnionFindImplementsPartition, PTL
        DEF ImplementsPartition, Abstract!Spec, Engine!Spec

\* The classes of the union-find divide the items, and when DetectDuplicates reports,
\* items linked by a "duplicate" edge or by similar titles are in one cluster.
THEOREM DuplicatesShareACluster ==
    RagSpec => [](Abstract!IsPartition /\ Abstract!LinkedTogether)
<1>1. Engine!IsPartition /\ Engine!LinkedTogether => Abstract!IsPartition /\ Abstract!LinkedTogether
  BY DEF Engine!IsPartition, Engine!LinkedTogether, Abstract!IsPartition, Abstract!LinkedTogether
<1> QED BY <1>1, EngineIsPartition, Engine!LinksAreClustered, PTL

\* Only duplicates do: items that some equivalence of the items keeps apart, one that
\* respects every duplicate link, are never in one class.
THEOREM OnlyDuplicatesShareACluster == RagSpec => []Abstract!NothingElseTogether
<1>1. Engine!NothingElseTogether => Abstract!NothingElseTogether
  BY DEF Engine!NothingElseTogether, Engine!Equivalence,
         Abstract!NothingElseTogether, Abstract!Equivalence
<1> QED BY <1>1, EngineIsPartition, Engine!OnlyLinksAreClustered, PTL
=============================================================================
