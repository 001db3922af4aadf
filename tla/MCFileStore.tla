----------------------------- MODULE MCFileStore -----------------------------
(***************************************************************************)
(* Instances of FileStore for TLC: who calls what, through which FileStore *)
(* value, with plans of which length.                                      *)
(***************************************************************************)
EXTENDS FileStore, TLC

CONSTANTS a, b, i1, i2, p1, p2, p3, s1, s2, none

Alone       == [c \in Clients |-> i1]
OneEach     == a :> i1 @@ b :> i2

Appenders   == a :> {"store", "prior"} @@ b :> {"store", "load"}
Everything  == [c \in Clients |-> OpName]
DeleteBeside == a :> {"store"} @@ b :> {"store", "delete"}
StoreDelete == [c \in Clients |-> {"store", "delete"}]

\* Where "" is a session, p2 has no query ID of its own.
OwnIDs      == [p \in Plans |-> IF p = p2 /\ none \in Sessions THEN none ELSE s1]

\* p1 is longer than the others, so that lines do not align by chance.
Lengths     == [p \in Plans |-> IF p = p1 THEN 2 ELSE 1]
=============================================================================
