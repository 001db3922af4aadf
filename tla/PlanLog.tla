------------------------------- MODULE PlanLog -------------------------------
(***************************************************************************)
(* What the Store interface of pkg/memory promises its callers, with every *)
(* operation taking effect at one instant: a log of accepted context plans *)
(* that StoreContextPlan extends, Delete and Save cut, and LoadPriorPlan   *)
(* and Load read.  FileStore.tla is the JSONL implementation.              *)
(***************************************************************************)
EXTENDS SequencesExt, Ordering

CONSTANTS
    Clients,    \* the goroutines that call the store
    Sessions,   \* query IDs, which Load, Save and Delete call session IDs
    Plans,      \* context plans; each is handed to the store at most once
    RedPlans    \* the plans whose hygiene signal is red

VARIABLES
    log,        \* the stored records, oldest first
    answer      \* what the last read of each client returned

logVars == <<log, answer>>

Record == [session : Sessions, plan : Plans]

OfSession(l, s) == Cut(l, {i \in DOMAIN l : l[i].session = s})
Without(l, s)   == Cut(l, {i \in DOMAIN l : l[i].session # s})

\* The newest record of a session, as a sequence of at most one.
Newest(l, s) ==
    LET own == OfSession(l, s)
    IN  IF own = <<>> THEN <<>> ELSE <<Last(own)>>

Init ==
    /\ log = <<>>
    /\ answer = [c \in Clients |-> <<>>]

\* An accepted plan enters the log once; a red one never does.
Keep(r) ==
    /\ r.plan \notin RedPlans
    /\ \A old \in ToSet(log) : old.plan # r.plan
    /\ log' = Append(log, r)
    /\ UNCHANGED answer

\* All records of one session leave at once, and no others.
Forget(s) ==
    /\ log' = Without(log, s)
    /\ UNCHANGED answer

\* A client starts a call: its previous answer is void.
Ask(c) ==
    /\ answer' = [answer EXCEPT ![c] = <<>>]
    /\ UNCHANGED log

\* A read returns what the log holds for the session at that instant.
Answer(c, s) ==
    /\ \E found \in {OfSession(log, s), Newest(log, s)} :
         answer' = [answer EXCEPT ![c] = found]
    /\ UNCHANGED log

Next ==
    \/ \E r \in Record : Keep(r)
    \/ \E s \in Sessions : Forget(s)
    \/ \E c \in Clients : Ask(c)
    \/ \E c \in Clients, s \in Sessions : Answer(c, s)

Spec == Init /\ [][Next]_logVars
=============================================================================
