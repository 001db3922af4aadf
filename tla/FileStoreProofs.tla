--------------------------- MODULE FileStoreProofs ---------------------------
(***************************************************************************)
(* Theorems about FileStore, for any number of goroutines, FileStore       *)
(* values, sessions and plans, with failing system calls and crashes.      *)
(***************************************************************************)
EXTENDS FileStore, OrderingProofs

-----------------------------------------------------------------------------
(* The operators on files and parses.                                      *)

\* The constants' types, and those of the cells of a line.
LEMMA LineType ==
    ASSUME NEW r \in Record
    PROVE  /\ Line(r) \in Seq(Cell)
           /\ Len(Line(r)) = Size[r.plan] + 1
           /\ \A i \in 1..Len(Line(r)) : Line(r)[i].rec \in {r, NoRecord}
<1>1. Size[r.plan] \in Nat BY ConstantsAssumption DEF Record
<1>2. Body(r) \in Seq(Cell) /\ Len(Body(r)) = Size[r.plan]
  <2>1. \A i \in 1..Size[r.plan] : [rec |-> r, part |-> i] \in Cell
        BY <1>1 DEF Cell
  <2> QED BY <1>1, <2>1 DEF Body
<1>3. Newline \in Cell BY DEF Newline, Cell
<1>4. \A i \in 1..Len(Body(r)) : Body(r)[i].rec = r BY <1>1 DEF Body
<1> QED BY <1>1, <1>2, <1>3, <1>4 DEF Line, Newline

\* A write leaves a file of cells, each of them old, written, or in a hole.
LEMMA WriteType ==
    ASSUME NEW f \in Seq(Cell), NEW l \in Seq(Cell), NEW o \in Nat
    PROVE  /\ WriteAt(f, o, l) \in Seq(Cell)
           /\ \A i \in 1..Len(WriteAt(f, o, l)) :
                \/ WriteAt(f, o, l)[i].rec = NoRecord
                \/ \E k \in 1..Len(f) : WriteAt(f, o, l)[i] = f[k]
                \/ \E k \in 1..Len(l) : WriteAt(f, o, l)[i] = l[k]
<1> DEFINE n == IF o + Len(l) > Len(f) THEN o + Len(l) ELSE Len(f)
           w(i) == IF o < i /\ i <= o + Len(l) THEN l[i - o]
                   ELSE IF i <= Len(f) THEN f[i] ELSE Gap
<1>1. n \in Nat OBVIOUS
<1>2. Gap \in Cell /\ Gap.rec = NoRecord BY DEF Gap, Cell
<1>3. \A i \in 1..n : /\ w(i) \in Cell
                      /\ \/ w(i).rec = NoRecord
                         \/ \E k \in 1..Len(f) : w(i) = f[k]
                         \/ \E k \in 1..Len(l) : w(i) = l[k]
  <2> SUFFICES ASSUME NEW i \in 1..n
               PROVE  /\ w(i) \in Cell
                      /\ \/ w(i).rec = NoRecord
                         \/ \E k \in 1..Len(f) : w(i) = f[k]
                         \/ \E k \in 1..Len(l) : w(i) = l[k]
      OBVIOUS
  <2>1. CASE o < i /\ i <= o + Len(l)
        <3>1. i - o \in 1..Len(l) BY <2>1
        <3> QED BY <2>1, <3>1
  <2>2. CASE ~(o < i /\ i <= o + Len(l)) /\ i <= Len(f)
        <3>1. i \in 1..Len(f) BY <2>2
        <3> QED BY <2>2, <3>1
  <2>3. CASE ~(o < i /\ i <= o + Len(l)) /\ ~(i <= Len(f)) BY <2>3, <1>2
  <2> QED BY <2>1, <2>2, <2>3
<1>4. WriteAt(f, o, l) = [i \in 1..n |-> w(i)] BY DEF WriteAt
<1> HIDE DEF n, w
<1>5. WriteAt(f, o, l) \in Seq(Cell) /\ Len(WriteAt(f, o, l)) = n
      BY <1>1, <1>3, <1>4
<1> QED BY <1>3, <1>4, <1>5

\* What records() makes of a readable file is records, from cells of it.
LEMMA ParsedType ==
    ASSUME NEW b \in Seq(Cell), Readable(b)
    PROVE  /\ IsParse(Parsed(b))
           /\ \A e \in DOMAIN Parsed(b) :
                \E k \in 1..Len(b) : Parsed(b)[e] = b[k].rec /\ b[k].rec # NoRecord
<1> SUFFICES ASSUME NEW e \in Ends(b), ~Blank(b, e)
             PROVE  /\ e \in Nat
                    /\ e - 1 \in 1..Len(b)
                    /\ b[e - 1].rec \in Record /\ b[e - 1].rec # NoRecord
    BY DEF Parsed, IsParse
<1>1. e \in 1..(Len(b) + 1) /\ e > 1 BY DEF Ends, Blank
<1>2. e - 1 \in 1..Len(b) BY <1>1
<1>3. b[e - 1] \in Cell BY <1>2
<1>4. b[e - 1].rec # NoRecord BY DEF Readable, Whole
<1> QED BY <1>1, <1>2, <1>3, <1>4 DEF Cell

\* Filters only take records away.
LEMMA FilterType ==
    ASSUME NEW m, IsParse(m), NEW s
    PROVE  /\ IsParse(OfSession(m, s)) /\ IsParse(Without(m, s)) /\ IsParse(Newest(m, s))
           /\ DOMAIN Without(m, s) \subseteq DOMAIN m
           /\ \A e \in DOMAIN Without(m, s) : Without(m, s)[e] = m[e]
BY DEF IsParse, OfSession, Without, Newest, Restrict

\* EncodeRecord takes one record off what it has to write.
LEMMA RemoveType ==
    ASSUME NEW m, IsParse(m), NEW e \in DOMAIN m
    PROVE  /\ m[e] \in Record
           /\ IsParse(Restrict(m, DOMAIN m \ {e}))
BY DEF IsParse, Restrict

LEMMA NoneType == IsParse(None)
BY DEF IsParse, None

-----------------------------------------------------------------------------
(* Types.  TypeOK is inductive once the clients on the append path are     *)
(* known to have a plan left to store.                                     *)

Appending == {"admit", "lockAppend", "append", "syncAppend"}
TodoKept == \A c \in Clients : pc[c] \in Appending => call[c].todo # <<>>
TypeInv  == TypeOK /\ TodoKept

LEMMA InitType == Init => TypeInv
<1> SUFFICES ASSUME Init PROVE TypeInv OBVIOUS
<1>1. NoCall \in CallRecord
  <2>1. (CHOOSE s \in Sessions : TRUE) \in Sessions BY ConstantsAssumption
  <2> QED BY <2>1 DEF NoCall, CallRecord, OpName
<1>2. Pending.status \in Status /\ IsParse(Pending.recs)
      BY NoneType DEF Pending, Status
<1> QED BY <1>1, <1>2, NoneType DEF Init, TypeInv, TypeOK, TodoKept, Appending, Pc

\* A Save that stored one of several plans has more to store.
LEMMA TailLeft ==
    ASSUME NEW S, NEW todo \in Seq(S), todo # <<>>, Len(todo) # 1
    PROVE  Tail(todo) # <<>>
<1>1. Len(Tail(todo)) # 0 OBVIOUS
<1>2. Len(<<>>) = 0 OBVIOUS
<1> QED BY <1>1, <1>2

\* A call begins with arguments of the right types.
LEMMA BeginType ==
    ASSUME TypeInv, NEW c \in Clients, NEW op \in OpName, NEW s \in Sessions,
           NEW todo \in Seq(Plans), NEW first \in Pc,
           first \in Appending => todo # <<>>,
           Begin(c, op, s, todo, first), live' \subseteq live
    PROVE  TypeInv'
<1>1. [op |-> op, session |-> s, todo |-> todo, given |-> todo] \in CallRecord
      BY DEF CallRecord
<1>2. ToSet(todo) \subseteq Plans BY DEF ToSet
<1>3. Pending.status \in Status /\ IsParse(Pending.recs)
      BY NoneType DEF Pending, Status
<1>4. call' \in [Clients -> CallRecord]
      BY <1>1 DEF Begin, TypeInv, TypeOK
<1>5. TodoKept' BY <1>4 DEF Begin, TypeInv, TypeOK, TodoKept
<1> QED BY <1>2, <1>3, <1>4, <1>5 DEF Begin, TypeInv, TypeOK

LEMMA StartType ==
    ASSUME TypeInv, NEW c \in Clients, Start(c)
    PROVE  TypeInv'
<1>1. CASE StoreContextPlan(c)
  <2> PICK s \in Sessions, p \in Plans : Begin(c, "store", s, <<p>>, "admit")
      BY <1>1 DEF StoreContextPlan
  <2>1. live' = live BY <1>1 DEF StoreContextPlan
  <2>2. <<p>> \in Seq(Plans) /\ <<p>> # <<>> OBVIOUS
  <2> QED BY <2>1, <2>2, BeginType DEF OpName, Pc
<1>2. CASE LoadPriorPlan(c)
  <2> PICK s \in Sessions : Begin(c, "prior", s, <<>>, "read") BY <1>2 DEF LoadPriorPlan
  <2>1. live' = live BY <1>2 DEF LoadPriorPlan
  <2>2. <<>> \in Seq(Plans) OBVIOUS
  <2> QED BY <2>1, <2>2, BeginType DEF OpName, Pc, Appending
<1>3. CASE Load(c)
  <2> PICK s \in Sessions : Begin(c, "load", s, <<>>, "read") BY <1>3 DEF Load
  <2>1. live' = live BY <1>3 DEF Load
  <2>2. <<>> \in Seq(Plans) OBVIOUS
  <2> QED BY <2>1, <2>2, BeginType DEF OpName, Pc, Appending
<1>4. CASE Delete(c)
  <2> PICK s \in Sessions : BeginRemoval(c, "delete", s, <<>>) BY <1>4 DEF Delete
  <2>1. <<>> \in Seq(Plans) OBVIOUS
  <2> QED BY <2>1, BeginType DEF BeginRemoval, OpName, Pc, Appending
<1>5. CASE Save(c)
  <2> PICK s \in Sessions, t \in FreshLists : BeginRemoval(c, "save", s, t) BY <1>5 DEF Save
  <2>1. t \in Seq(Plans) BY DEF FreshLists
  <2> QED BY <2>1, BeginType DEF BeginRemoval, OpName, Pc, Appending
<1> QED BY <1>1, <1>2, <1>3, <1>4, <1>5 DEF Start

LEMMA ReturnType ==
    ASSUME TypeInv, NEW c \in Clients, NEW status \in Status, NEW m, IsParse(m),
           Return(c, status, m)
    PROVE  /\ pc' \in [Clients -> Pc] /\ pc'[c] = "idle"
           /\ \A d \in Clients \ {c} : pc'[d] = pc[d]
           /\ DOMAIN result' = Clients
           /\ \A d \in Clients : result'[d].status \in Status /\ IsParse(result'[d].recs)
BY DEF TypeInv, TypeOK, Return, Pc

\* What a client on the append path writes is a record.
LEMMA TargetType ==
    ASSUME TypeInv, NEW c \in Clients, pc[c] \in Appending
    PROVE  Target(c) \in Record
<1>1. call[c].todo \in Seq(Plans) /\ call[c].todo # <<>> /\ call[c].session \in Sessions
      BY DEF TypeInv, TypeOK, TodoKept, CallRecord
<1>2. Head(call[c].todo) \in Plans BY <1>1
<1>3. \A t \in Sessions, p \in Plans : Filed(t, p) \in Record
      BY ConstantsAssumption DEF Filed, Record
<1> QED BY <1>1, <1>2, <1>3 DEF Target

\* Where the clients are after one of them returned or went on.
LEMMA StepType ==
    ASSUME TypeInv, NEW c \in Clients, Step(c) \/ Lock(c)
    PROVE  TypeInv'
<1> USE DEF TypeInv, TypeOK, TodoKept, Appending
<1>1. CASE ReadCell(c)
      BY <1>1 DEF ReadCell, histVars, boundVars
<1>2. CASE ReadCorrupt(c)
      BY <1>2, NoneType DEF ReadCorrupt, AtEOF, Return, Pc, Status, histVars, boundVars
<1>3. CASE ReadAnswers(c)
  <2>1. IsParse(Parsed(buf[c])) BY <1>3, ParsedType DEF ReadAnswers
  <2>2. PICK m : IsParse(m) /\ Return(c, "ok", m)
        BY <1>3, <2>1, FilterType DEF ReadAnswers
  <2> QED BY <1>3, <2>2 DEF ReadAnswers, Return, Pc, Status, histVars, boundVars
<1>4. CASE ReadKeeps(c)
  <2>1. IsParse(Without(Parsed(buf[c]), call[c].session))
        BY <1>4, ParsedType, FilterType DEF ReadKeeps
  <2> QED BY <1>4, <2>1 DEF ReadKeeps, Pc, histVars, boundVars
<1>5. CASE LockRewrite(c)
  <2>1. file' \in Seq(Cell) /\ synced' \subseteq Record BY <1>5 DEF LockRewrite
  <2>2. holder' \in [Instances -> Clients \cup {Free}] /\ off' \in [Clients -> Nat]
        BY <1>5 DEF LockRewrite
  <2>3. pc' \in [Clients -> Pc] /\ TodoKept' BY <1>5 DEF LockRewrite, Pc
  <2> QED BY <1>5, <2>1, <2>2, <2>3 DEF LockRewrite, boundVars
<1>6. CASE EncodeRecord(c)
  <2> PICK e \in DOMAIN rest[c] :
         /\ file' = WriteAt(file, off[c], Line(rest[c][e]))
         /\ off' = [off EXCEPT ![c] = @ + Size[rest[c][e].plan] + 1]
         /\ rest' = [rest EXCEPT ![c] = Restrict(@, DOMAIN @ \ {e})]
      BY <1>6 DEF EncodeRecord, Oldest
  <2>1. rest[c][e] \in Record /\ IsParse(Restrict(rest[c], DOMAIN rest[c] \ {e}))
        BY RemoveType
  <2>2. file' \in Seq(Cell) BY <2>1, LineType, WriteType
  <2>3. off' \in [Clients -> Nat] BY <2>1, ConstantsAssumption DEF Record
  <2> QED BY <1>6, <2>1, <2>2, <2>3 DEF EncodeRecord, histVars, boundVars
<1>7. CASE SyncRewrite(c)
  <2>1. /\ disk' \in Seq(Cell) /\ holder' \in [Instances -> Clients \cup {Free}]
        /\ gone' \subseteq Record
        BY <1>7 DEF SyncRewrite, Release
  <2>2. CASE call[c].todo = <<>>
    <3>1. Return(c, "ok", None) BY <1>7, <2>2 DEF SyncRewrite
    <3> QED BY <1>7, <2>1, <3>1, ReturnType, NoneType DEF SyncRewrite, Status, boundVars
  <2>3. CASE call[c].todo # <<>>
    <3>1. pc' = [pc EXCEPT ![c] = "admit"] /\ result' = result /\ call' = call
          BY <1>7, <2>3 DEF SyncRewrite
    <3>2. TodoKept' BY <2>3, <3>1
    <3>3. pc' \in [Clients -> Pc] BY <3>1 DEF Pc
    <3> QED BY <1>7, <2>1, <3>1, <3>2, <3>3 DEF SyncRewrite, boundVars
  <2> QED BY <2>2, <2>3
<1>8. CASE RejectRed(c)
      BY <1>8, NoneType DEF RejectRed, Return, Pc, Status, histVars, boundVars
<1>9. CASE Admit(c)
      BY <1>9 DEF Admit, Pc, histVars, boundVars
<1>10. CASE LockAppend(c)
      BY <1>10, ConstantsAssumption DEF LockAppend, Pc, histVars, boundVars
<1>11. CASE AppendLine(c)
  <2>1. Target(c) \in Record
        BY <1>11, TargetType DEF AppendLine
  <2>2. file' \in Seq(Cell) BY <1>11, <2>1, LineType DEF AppendLine
  <2> QED BY <1>11, <2>2 DEF AppendLine, Pc, histVars, boundVars
<1>12. CASE SyncAppend(c)
  <2>1. /\ call[c] \in CallRecord /\ call[c].todo # <<>>
        /\ Head(call[c].todo) \in Plans /\ Tail(call[c].todo) \in Seq(Plans)
        BY <1>12 DEF SyncAppend, CallRecord
  <2>2. Target(c) \in Record BY <1>12, TargetType DEF SyncAppend
  <2>3. call' \in [Clients -> CallRecord]
    <3>1. call' = [call EXCEPT ![c].todo = Tail(@)] BY <1>12 DEF SyncAppend
    <3>2. [call[c] EXCEPT !.todo = Tail(@)] \in CallRecord BY <2>1 DEF CallRecord
    <3> QED BY <3>1, <3>2
  <2>4. live' \subseteq Record /\ synced' \subseteq Record
    <3>1. live' \subseteq live \cup {Target(c)} /\ synced' = synced \cup {Target(c)}
          BY <1>12 DEF SyncAppend
    <3> QED BY <2>2, <3>1
  <2>5. /\ disk' \in Seq(Cell) /\ holder' \in [Instances -> Clients \cup {Free}]
        BY <1>12 DEF SyncAppend, Release
  <2>6. \A d \in Clients : call'[d].todo = IF d = c THEN Tail(call[c].todo) ELSE call[d].todo
        BY <1>12 DEF SyncAppend
  <2>7. CASE Len(call[c].todo) = 1
    <3>1. Return(c, "ok", None) BY <1>12, <2>7 DEF SyncAppend
    <3>2. TodoKept' BY <2>6, <3>1, ReturnType, NoneType DEF Status
    <3> QED BY <1>12, <2>3, <2>4, <2>5, <3>1, <3>2, ReturnType, NoneType
            DEF SyncAppend, Status, boundVars
  <2>8. CASE Len(call[c].todo) # 1
    <3>1. pc' = [pc EXCEPT ![c] = "admit"] /\ result' = result
          BY <1>12, <2>8 DEF SyncAppend
    <3>2. Tail(call[c].todo) # <<>> BY <2>1, <2>8, TailLeft DEF CallRecord
    <3>3. TodoKept'
      <4> SUFFICES ASSUME NEW d \in Clients, pc'[d] \in Appending
                   PROVE  call'[d].todo # <<>>
          OBVIOUS
      <4>1. CASE d = c BY <2>6, <3>2, <4>1
      <4>2. CASE d # c BY <2>6, <3>1, <4>2
      <4> QED BY <4>1, <4>2
    <3>4. pc' \in [Clients -> Pc] BY <3>1 DEF Pc
    <3> QED BY <1>12, <2>3, <2>4, <2>5, <3>1, <3>3, <3>4 DEF SyncAppend, boundVars
  <2> QED BY <2>7, <2>8
<1> QED BY <1>1, <1>2, <1>3, <1>4, <1>5, <1>6, <1>7, <1>8, <1>9, <1>10, <1>11, <1>12
        DEF Step, Lock

LEMMA FaultType ==
    ASSUME TypeInv, NEW c \in Clients, Fault(c)
    PROVE  TypeInv'
<1> USE DEF TypeInv, TypeOK, TodoKept, Appending
<1>1. ASSUME Fail(c), file' \in Seq(Cell), holder' \in [Instances -> Clients \cup {Free}]
      PROVE  TypeInv'
      BY <1>1, NoneType DEF Fail, Return, Pc, Status, histVars
<1>2. ASSUME Release(c) PROVE holder' \in [Instances -> Clients \cup {Free}]
      BY <1>2 DEF Release
<1>3. CASE OpenFails(c) BY <1>1, <1>3 DEF OpenFails
<1>4. CASE AppendFails(c)
  <2>1. Target(c) \in Record
        BY <1>4, TargetType DEF AppendFails
  <2>2. PICK n \in 0..Size[Head(call[c].todo)] :
            file' = file \o SubSeq(Line(Target(c)), 1, n)
        BY <1>4 DEF AppendFails
  <2>3. n \in 0..Len(Line(Target(c)))
        BY <2>1, <2>2, LineType, ConstantsAssumption, SMTT(60) DEF Target, Filed, Record
  <2>4. file' \in Seq(Cell) BY <2>1, <2>2, <2>3, LineType
  <2> QED BY <1>1, <1>2, <1>4, <2>4 DEF AppendFails
<1>5. CASE EncodeFails(c)
  <2>1. PICK e \in DOMAIN rest[c] : \E n \in 0..Size[rest[c][e].plan] :
            file' = IF n = 0 THEN file
                    ELSE WriteAt(file, off[c], SubSeq(Line(rest[c][e]), 1, n))
        BY <1>5 DEF EncodeFails, Oldest
  <2>2. rest[c][e] \in Record BY RemoveType
  <2>3. \A n \in 0..Size[rest[c][e].plan] : SubSeq(Line(rest[c][e]), 1, n) \in Seq(Cell)
        BY <2>2, LineType, ConstantsAssumption DEF Record
  <2>4. \A n \in 0..Size[rest[c][e].plan] :
            WriteAt(file, off[c], SubSeq(Line(rest[c][e]), 1, n)) \in Seq(Cell)
        BY <2>3, WriteType
  <2>5. file' \in Seq(Cell) BY <2>1, <2>4
  <2> QED BY <1>1, <1>2, <1>5, <2>5 DEF EncodeFails
<1>6. CASE SyncFails(c) BY <1>1, <1>2, <1>6 DEF SyncFails
<1> QED BY <1>3, <1>4, <1>5, <1>6 DEF Fault

LEMMA CrashType ==
    ASSUME TypeInv, Kill \/ PowerLoss
    PROVE  TypeInv'
<1> USE DEF TypeInv, TypeOK, TodoKept, Appending
<1>1. ASSUME Restart, file' \in Seq(Cell), disk' \in Seq(Cell)
      PROVE  TypeInv'
  <2>1. Pending.status \in Status /\ IsParse(Pending.recs)
        BY NoneType DEF Pending, Status
  <2> QED BY <1>1, <2>1 DEF Restart, Pc, histVars
<1>2. CASE Kill BY <1>1, <1>2 DEF Kill, fileVars
<1>3. CASE PowerLoss
  <2>1. \A n \in 0..Len(file) : SubSeq(file, 1, n) \in Seq(Cell) OBVIOUS
  <2>2. file' \in Seq(Cell) BY <1>3, <2>1 DEF PowerLoss
  <2> QED BY <1>1, <1>3, <2>2 DEF PowerLoss
<1> QED BY <1>2, <1>3

LEMMA NextType == TypeInv /\ [Next]_vars => TypeInv'
<1> SUFFICES ASSUME TypeInv, [Next]_vars PROVE TypeInv' OBVIOUS
<1>1. CASE UNCHANGED vars BY <1>1 DEF vars, TypeInv, TypeOK, TodoKept
<1>2. CASE Next
      BY <1>2, StartType, StepType, FaultType, CrashType DEF Next
<1> QED BY <1>1, <1>2

\* The type of every variable, whatever is called, fails or crashes.
THEOREM TypeCorrect == Spec => []TypeOK
<1>1. Spec => []TypeInv BY InitType, NextType, PTL DEF Spec
<1>2. TypeInv => TypeOK BY DEF TypeInv
<1> QED BY <1>1, <1>2, PTL

-----------------------------------------------------------------------------
(* Red plans.  That none is in the file is not inductive: what is on disk, *)
(* what a Delete has read and has still to write, and the plan on its way  *)
(* to the append must not be red either.                                   *)

CleanCells(b) ==
    \A i \in 1..Len(b) : b[i].rec # NoRecord => b[i].rec.plan \notin RedPlans
CleanRecords(m) == \A e \in DOMAIN m : m[e].plan \notin RedPlans

Admitted == {"lockAppend", "append", "syncAppend"}
RedInv ==
    /\ CleanCells(file) /\ CleanCells(disk)
    /\ \A c \in Clients : CleanCells(buf[c]) /\ CleanRecords(rest[c])
    /\ \A c \in Clients : pc[c] \in Admitted => Head(call[c].todo) \notin RedPlans

LEMMA CleanLine ==
    ASSUME NEW r \in Record, r.plan \notin RedPlans
    PROVE  /\ CleanCells(Line(r))
           /\ \A n \in 0..Size[r.plan] : CleanCells(SubSeq(Line(r), 1, n))
<1>1. CleanCells(Line(r)) BY LineType DEF CleanCells
<1>2. Size[r.plan] \in Nat BY ConstantsAssumption DEF Record
<1> QED BY <1>1, <1>2, LineType DEF CleanCells

LEMMA CleanWrite ==
    ASSUME NEW f \in Seq(Cell), NEW l \in Seq(Cell), NEW o \in Nat,
           CleanCells(f), CleanCells(l)
    PROVE  CleanCells(WriteAt(f, o, l)) /\ CleanCells(f \o l)
<1>1. CleanCells(WriteAt(f, o, l)) BY WriteType, SMTT(60) DEF CleanCells
<1>2. CleanCells(f \o l)
  <2> SUFFICES ASSUME NEW i \in 1..Len(f \o l), (f \o l)[i].rec # NoRecord
               PROVE  (f \o l)[i].rec.plan \notin RedPlans
      BY DEF CleanCells
  <2>1. CASE i <= Len(f)
    <3>1. i \in 1..Len(f) /\ (f \o l)[i] = f[i] BY <2>1
    <3> QED BY <3>1 DEF CleanCells
  <2>2. CASE i > Len(f)
    <3>1. i - Len(f) \in 1..Len(l) /\ (f \o l)[i] = l[i - Len(f)] BY <2>2
    <3> QED BY <3>1 DEF CleanCells
  <2> QED BY <2>1, <2>2
<1> QED BY <1>1, <1>2

LEMMA CleanParse ==
    ASSUME NEW b \in Seq(Cell), Readable(b), CleanCells(b), NEW s
    PROVE  CleanRecords(Without(Parsed(b), s))
<1>1. CleanRecords(Parsed(b)) BY ParsedType DEF CleanCells, CleanRecords
<1> QED BY <1>1, ParsedType, FilterType DEF CleanRecords

LEMMA InitRed == Init => RedInv
BY DEF Init, RedInv, CleanCells, CleanRecords, None, Admitted

LEMMA StartRed ==
    ASSUME TypeInv, RedInv, NEW c \in Clients, Start(c)
    PROVE  RedInv'
<1>1. \A op, s, todo : \A first \in {"admit", "read"} : Begin(c, op, s, todo, first) => RedInv'
  <2> SUFFICES ASSUME NEW op, NEW s, NEW todo, NEW first \in {"admit", "read"},
                      Begin(c, op, s, todo, first)
               PROVE  RedInv'
      OBVIOUS
  <2>1. /\ file' = file /\ disk' = disk /\ rest' = rest
        /\ buf' = [buf EXCEPT ![c] = <<>>]
        /\ pc' = [pc EXCEPT ![c] = first]
        /\ \A d \in Clients \ {c} : call'[d] = call[d]
        BY DEF Begin, TypeInv, TypeOK
  <2> QED BY <2>1 DEF RedInv, CleanCells, Admitted, TypeInv, TypeOK
<1>2. \E op, s, todo : \E first \in {"admit", "read"} : Begin(c, op, s, todo, first)
      BY DEF Start, StoreContextPlan, LoadPriorPlan, Load, Delete, Save, BeginRemoval
<1> QED BY <1>1, <1>2

LEMMA StepRed ==
    ASSUME TypeInv, RedInv, NEW c \in Clients, Step(c) \/ Lock(c)
    PROVE  RedInv'
<1> USE DEF RedInv, Admitted
<1>0. /\ file \in Seq(Cell) /\ buf[c] \in Seq(Cell) /\ IsParse(rest[c]) /\ off[c] \in Nat
      /\ pc \in [Clients -> Pc] /\ buf \in [Clients -> Seq(Cell)] /\ DOMAIN rest = Clients
      /\ call \in [Clients -> CallRecord]
      BY DEF TypeInv, TypeOK
<1>1. CASE ReadCell(c)
  <2>1. Len(buf[c]) + 1 \in 1..Len(file) BY <1>0, <1>1 DEF ReadCell
  <2>2. CleanCells(Append(buf[c], file[Len(buf[c]) + 1]))
        BY <1>0, <2>1 DEF CleanCells
  <2> QED BY <1>0, <1>1, <2>2 DEF ReadCell
<1>2. CASE ReadCorrupt(c) BY <1>0, <1>2 DEF ReadCorrupt, Return
<1>3. CASE ReadAnswers(c) BY <1>0, <1>3 DEF ReadAnswers, Return
<1>4. CASE ReadKeeps(c) BY <1>0, <1>4, CleanParse DEF ReadKeeps
<1>5. CASE LockRewrite(c) BY <1>0, <1>5 DEF LockRewrite, CleanCells
<1>6. CASE EncodeRecord(c)
  <2> PICK e \in DOMAIN rest[c] :
         /\ file' = WriteAt(file, off[c], Line(rest[c][e]))
         /\ rest' = [rest EXCEPT ![c] = Restrict(@, DOMAIN @ \ {e})]
      BY <1>6 DEF EncodeRecord, Oldest
  <2>1. rest[c][e] \in Record /\ rest[c][e].plan \notin RedPlans
        BY <1>0, RemoveType DEF CleanRecords
  <2>2. CleanCells(file') BY <1>0, <2>1, CleanLine, LineType, CleanWrite
  <2>3. CleanRecords(Restrict(rest[c], DOMAIN rest[c] \ {e}))
        BY DEF CleanRecords, Restrict
  <2> QED BY <1>0, <1>6, <2>2, <2>3 DEF EncodeRecord
<1>7. CASE SyncRewrite(c) BY <1>0, <1>7 DEF SyncRewrite, Return
<1>8. CASE RejectRed(c) BY <1>0, <1>8 DEF RejectRed, Return
<1>9. CASE Admit(c) BY <1>0, <1>9 DEF Admit
<1>10. CASE LockAppend(c) BY <1>0, <1>10 DEF LockAppend
<1>11. CASE AppendLine(c)
  <2>1. Target(c) \in Record BY <1>11, TargetType DEF AppendLine, Appending
  <2>2. Target(c).plan \notin RedPlans BY <1>11 DEF AppendLine, Target, Filed
  <2>3. CleanCells(file') BY <1>0, <1>11, <2>1, <2>2, CleanLine, LineType, CleanWrite DEF AppendLine
  <2> QED BY <1>0, <1>11, <2>3 DEF AppendLine
<1>12. CASE SyncAppend(c)
  <2>1. /\ \A d \in Clients \ {c} : call'[d] = call[d] /\ pc'[d] = pc[d]
        /\ pc'[c] \in {"idle", "admit"}
        BY <1>0, <1>12 DEF SyncAppend, Return
  <2> QED BY <1>12, <2>1 DEF SyncAppend
<1> QED BY <1>1, <1>2, <1>3, <1>4, <1>5, <1>6, <1>7, <1>8, <1>9, <1>10, <1>11, <1>12
        DEF Step, Lock

LEMMA FaultRed ==
    ASSUME TypeInv, RedInv, NEW c \in Clients, Fault(c)
    PROVE  RedInv'
<1> USE DEF RedInv, Admitted
<1>0. /\ file \in Seq(Cell) /\ IsParse(rest[c]) /\ off[c] \in Nat
      /\ pc \in [Clients -> Pc]
      BY DEF TypeInv, TypeOK
<1>1. ASSUME Fail(c), CleanCells(file') PROVE RedInv'
      BY <1>0, <1>1 DEF Fail, Return
<1>2. CASE OpenFails(c) BY <1>1, <1>2 DEF OpenFails
<1>3. CASE AppendFails(c)
  <2>1. Target(c) \in Record BY <1>3, TargetType DEF AppendFails, Appending
  <2>2. Target(c).plan \notin RedPlans BY <1>3 DEF AppendFails, Target, Filed
  <2>3. \A n \in 0..Size[Target(c).plan] : /\ SubSeq(Line(Target(c)), 1, n) \in Seq(Cell)
                                           /\ CleanCells(SubSeq(Line(Target(c)), 1, n))
        BY <2>1, <2>2, CleanLine, LineType, ConstantsAssumption DEF Record
  <2>4. \A n \in 0..Size[Target(c).plan] :
            CleanCells(file \o SubSeq(Line(Target(c)), 1, n))
        BY <1>0, <2>3, CleanWrite
  <2>5. CleanCells(file') BY <1>3, <2>4 DEF AppendFails, Target, Filed
  <2> QED BY <1>1, <1>3, <2>5 DEF AppendFails
<1>4. CASE EncodeFails(c)
  <2>1. PICK e \in DOMAIN rest[c] : \E n \in 0..Size[rest[c][e].plan] :
            file' = IF n = 0 THEN file
                    ELSE WriteAt(file, off[c], SubSeq(Line(rest[c][e]), 1, n))
        BY <1>4 DEF EncodeFails, Oldest
  <2>2. rest[c][e] \in Record /\ rest[c][e].plan \notin RedPlans
        BY <1>0, RemoveType DEF CleanRecords
  <2>3. \A n \in 0..Size[rest[c][e].plan] : /\ SubSeq(Line(rest[c][e]), 1, n) \in Seq(Cell)
                                            /\ CleanCells(SubSeq(Line(rest[c][e]), 1, n))
        BY <2>2, CleanLine, LineType, ConstantsAssumption DEF Record
  <2>4. \A n \in 0..Size[rest[c][e].plan] :
            CleanCells(WriteAt(file, off[c], SubSeq(Line(rest[c][e]), 1, n)))
        BY <1>0, <2>3, CleanWrite
  <2>5. CleanCells(file') BY <2>1, <2>4
  <2> QED BY <1>1, <1>4, <2>5 DEF EncodeFails
<1>5. CASE SyncFails(c) BY <1>1, <1>5 DEF SyncFails
<1> QED BY <1>2, <1>3, <1>4, <1>5 DEF Fault

LEMMA CrashRed ==
    ASSUME TypeInv, RedInv, Kill \/ PowerLoss
    PROVE  RedInv'
<1>1. ASSUME Restart, CleanCells(file'), CleanCells(disk') PROVE RedInv'
      BY <1>1 DEF Restart, RedInv, Admitted
<1>2. CASE Kill BY <1>1, <1>2 DEF Kill, fileVars, RedInv
<1>3. CASE PowerLoss
  <2>1. \A n \in 0..Len(file) : CleanCells(SubSeq(file, 1, n))
        BY DEF TypeInv, TypeOK, RedInv, CleanCells
  <2>2. CleanCells(file') BY <1>3, <2>1 DEF PowerLoss, RedInv
  <2> QED BY <1>1, <1>3, <2>2 DEF PowerLoss
<1> QED BY <1>2, <1>3

\* No path writes a red plan: not StoreContextPlan, not Save, not the rewrite of
\* what Delete read, not a torn write or what a power loss leaves of the file.
THEOREM RedStaysOut == Spec => []RedNeverStored
<1>1. TypeInv /\ RedInv /\ [Next]_vars => RedInv'
  <2> SUFFICES ASSUME TypeInv, RedInv, [Next]_vars PROVE RedInv' OBVIOUS
  <2>1. CASE UNCHANGED vars BY <2>1 DEF vars, RedInv
  <2>2. CASE Next BY <2>2, StartRed, StepRed, FaultRed, CrashRed DEF Next
  <2> QED BY <2>1, <2>2
<1>2. RedInv => RedNeverStored BY DEF RedInv, CleanCells, RedNeverStored
<1>3. Spec => [](TypeInv /\ RedInv)
      BY <1>1, InitType, NextType, InitRed, PTL DEF Spec
<1> QED BY <1>2, <1>3, PTL

-----------------------------------------------------------------------------
(* Mutual exclusion.  Who writes to the file holds its value's mutex.      *)

Holding == {"append", "rewrite", "syncAppend"}
LockInv == \A c \in Clients : pc[c] \in Holding => holder[InstanceOf[c]] = c

\* What each step does to a client's place and the mutexes.
LEMMA StepLock ==
    ASSUME TypeInv, LockInv, NEW c \in Clients, Step(c) \/ Lock(c) \/ Fault(c)
    PROVE  LockInv'
<1> USE DEF LockInv, Holding
<1>0. /\ pc \in [Clients -> Pc] /\ holder \in [Instances -> Clients \cup {Free}]
      /\ InstanceOf \in [Clients -> Instances] /\ Free \notin Clients
      BY ConstantsAssumption DEF TypeInv, TypeOK
<1>1. ASSUME holder' = holder,
             \E to \in Pc : /\ pc' = [pc EXCEPT ![c] = to]
                            /\ to \in Holding => pc[c] \in Holding
      PROVE  LockInv'
      BY <1>0, <1>1
<1>2. ASSUME holder[InstanceOf[c]] = Free,
             holder' = [holder EXCEPT ![InstanceOf[c]] = c],
             \E to \in Pc : pc' = [pc EXCEPT ![c] = to]
      PROVE  LockInv'
      BY <1>0, <1>2
<1>3. ASSUME pc[c] \in Holding, Release(c),
             \E to \in Pc \ Holding : pc' = [pc EXCEPT ![c] = to]
      PROVE  LockInv'
      BY <1>0, <1>3 DEF Release
<1>4. CASE Step(c) \/ Lock(c)
  <2>1. CASE ReadCell(c) BY <2>1 DEF ReadCell
  <2>2. CASE ReadCorrupt(c) BY <1>1, <2>2 DEF ReadCorrupt, Return, Pc
  <2>3. CASE ReadAnswers(c) BY <1>1, <2>3 DEF ReadAnswers, Return, Pc
  <2>4. CASE ReadKeeps(c) BY <1>1, <2>4 DEF ReadKeeps, Pc
  <2>5. CASE EncodeRecord(c) BY <2>5 DEF EncodeRecord
  <2>6. CASE SyncRewrite(c) BY <1>3, <2>6 DEF SyncRewrite, Return, Pc
  <2>7. CASE RejectRed(c) BY <1>1, <2>7 DEF RejectRed, Return, Pc
  <2>8. CASE Admit(c) BY <1>1, <2>8 DEF Admit, Pc
  <2>9. CASE AppendLine(c) BY <1>1, <2>9 DEF AppendLine, Pc
  <2>10. CASE SyncAppend(c) BY <1>3, <2>10 DEF SyncAppend, Return, Pc
  <2>11. CASE LockRewrite(c) BY <1>2, <2>11 DEF LockRewrite, Pc
  <2>12. CASE LockAppend(c) BY <1>2, <2>12 DEF LockAppend, Pc
  <2> QED BY <1>4, <2>1, <2>2, <2>3, <2>4, <2>5, <2>6, <2>7, <2>8, <2>9, <2>10, <2>11, <2>12
          DEF Step, Lock
<1>5. CASE Fault(c)
  <2>1. pc' = [pc EXCEPT ![c] = "idle"] /\ "idle" \in Pc \ Holding
        BY <1>5 DEF Fault, OpenFails, AppendFails, EncodeFails, SyncFails, Fail, Return, Pc
  <2>2. CASE OpenFails(c) BY <1>1, <2>1, <2>2 DEF OpenFails
  <2>3. CASE AppendFails(c) BY <1>3, <2>1, <2>3 DEF AppendFails
  <2>4. CASE EncodeFails(c) BY <1>3, <2>1, <2>4 DEF EncodeFails
  <2>5. CASE SyncFails(c) BY <1>3, <2>1, <2>5 DEF SyncFails
  <2> QED BY <1>5, <2>2, <2>3, <2>4, <2>5 DEF Fault
<1> QED BY <1>4, <1>5

LEMMA LockKept == TypeInv /\ LockInv /\ [Next]_vars => LockInv'
<1> SUFFICES ASSUME TypeInv, LockInv, [Next]_vars PROVE LockInv' OBVIOUS
<1>1. ASSUME NEW c \in Clients, Start(c) PROVE LockInv'
  <2>1. /\ holder' = holder
        /\ pc' = [pc EXCEPT ![c] = "admit"] \/ pc' = [pc EXCEPT ![c] = "read"]
        BY <1>1 DEF Start, StoreContextPlan, LoadPriorPlan, Load, Delete, Save,
                    BeginRemoval, Begin
  <2> QED BY <2>1 DEF LockInv, Holding, TypeInv, TypeOK
<1>2. CASE Kill \/ PowerLoss
  <2>1. pc' = [c \in Clients |-> "idle"] BY <1>2 DEF Kill, PowerLoss, Restart
  <2> QED BY <2>1 DEF LockInv, Holding
<1>3. CASE UNCHANGED vars BY <1>3 DEF vars, LockInv
<1> QED BY <1>1, <1>2, <1>3, StepLock DEF Next

\* No two goroutines that use one FileStore value are at the file at once.
MutualExclusion ==
    \A c, d \in Clients :
        pc[c] \in Holding /\ pc[d] \in Holding /\ InstanceOf[c] = InstanceOf[d] => c = d

\* Each error path and crash gives the mutex back, and no path enters without it.
THEOREM WritersExclude == Spec => []MutualExclusion
<1>1. Init => LockInv BY DEF Init, LockInv, Holding
<1>2. Spec => [](TypeInv /\ LockInv)
      BY <1>1, InitType, NextType, LockKept, PTL DEF Spec
<1>3. LockInv => MutualExclusion BY DEF LockInv, MutualExclusion
<1> QED BY <1>2, <1>3, PTL

-----------------------------------------------------------------------------
(* Durability, for goroutines that share one FileStore value.  Between two *)
(* truncations the disk's contents are a beginning of the file's, so that  *)
(* neither a torn write after them nor a power loss reaches a record that  *)
(* was synced.                                                             *)

OneValue == \A c, d \in Clients : InstanceOf[c] = InstanceOf[d]

Extends(f, g) == Len(f) <= Len(g) /\ \A i \in 1..Len(f) : g[i] = f[i]

DurableInv ==
    /\ \A r \in synced : HoldsLine(disk, r)
    /\ synced # {} => Extends(disk, file)
    /\ \A c \in Clients : pc[c] = "syncAppend" => HoldsLine(file, Target(c))
    /\ \A c \in Clients : pc[c] = "rewrite" => synced = {}

LEMMA ExtendsHolds ==
    ASSUME NEW f \in Seq(Cell), NEW g \in Seq(Cell), NEW r \in Record,
           Extends(f, g), HoldsLine(f, r)
    PROVE  HoldsLine(g, r)
<1> DEFINE n == Len(Line(r))
<1>1. n \in Nat /\ Len(f) \in Nat /\ Len(g) \in Nat BY LineType
<1>2. PICK i \in 0..(Len(f) - n) : \A k \in 1..n : f[i + k] = Line(r)[k]
      BY DEF HoldsLine
<1> HIDE DEF n
<1>3. i \in 0..(Len(g) - n) BY <1>1, <1>2 DEF Extends
<1>4. \A k \in 1..n : i + k \in 1..Len(f) BY <1>1, <1>2
<1>5. \A k \in 1..n : g[i + k] = Line(r)[k] BY <1>2, <1>4 DEF Extends
<1> QED BY <1>3, <1>5 DEF HoldsLine, n

LEMMA AppendExtends ==
    ASSUME NEW f \in Seq(Cell), NEW g \in Seq(Cell), NEW h \in Seq(Cell), Extends(f, g)
    PROVE  Extends(f, g \o h)
BY SMTT(60) DEF Extends

LEMMA AppendHolds ==
    ASSUME NEW f \in Seq(Cell), NEW r \in Record
    PROVE  HoldsLine(f \o Line(r), r)
<1> DEFINE l == Line(r)
<1>1. l \in Seq(Cell) BY LineType
<1> HIDE DEF l
<1>2. Len(f \o l) - Len(l) = Len(f) /\ Len(f) \in 0..Len(f) BY <1>1
<1>3. \A k \in 1..Len(l) : (f \o l)[Len(f) + k] = l[k] BY <1>1
<1> QED BY <1>2, <1>3 DEF HoldsLine, l

\* A file that extends the disk's contents still does when it is cut not shorter.
LEMMA CutExtends ==
    ASSUME NEW f \in Seq(Cell), NEW g \in Seq(Cell), Extends(f, g),
           NEW n \in 0..Len(g), IsPrefix(f, g) => n >= Len(f)
    PROVE  Extends(f, SubSeq(g, 1, n))
<1>1. Len(f) \in 0..Len(g) BY DEF Extends
<1>2. SubSeq(f, 1, Len(f)) = SubSeq(g, 1, Len(f)) BY <1>1 DEF Extends
<1>3. n >= Len(f) BY <1>1, <1>2 DEF IsPrefix
<1> QED BY <1>1, <1>3 DEF Extends

LEMMA StepDurable ==
    ASSUME OneValue, TypeInv, LockInv, DurableInv, NEW c \in Clients,
           Step(c) \/ Lock(c) \/ Fault(c)
    PROVE  DurableInv'
<1> USE DEF DurableInv
<1>0. /\ pc \in [Clients -> Pc] /\ file \in Seq(Cell) /\ disk \in Seq(Cell)
      /\ synced \subseteq Record /\ call \in [Clients -> CallRecord]
      BY DEF TypeInv, TypeOK
<1>a. ASSUME UNCHANGED <<file, disk, synced, call>>,
             \E to \in Pc \ {"syncAppend", "rewrite"} : pc' = [pc EXCEPT ![c] = to]
      PROVE  DurableInv'
      BY <1>0, <1>a DEF Target, Filed
<1>b. \A d \in Clients : pc[c] \in Holding /\ pc[d] \in Holding => c = d
      BY DEF OneValue, LockInv
<1>c. \A d \in Clients : holder[InstanceOf[c]] = Free => pc[d] \notin Holding
      BY ConstantsAssumption DEF OneValue, LockInv
<1>1. CASE ReadCell(c) BY <1>1 DEF ReadCell, histVars, Target, Filed
<1>2. CASE ReadCorrupt(c) BY <1>a, <1>2 DEF ReadCorrupt, Return, Pc, histVars
<1>3. CASE ReadAnswers(c) BY <1>a, <1>3 DEF ReadAnswers, Return, Pc, histVars
<1>4. CASE ReadKeeps(c) BY <1>a, <1>4 DEF ReadKeeps, Pc, histVars
<1>5. CASE RejectRed(c) BY <1>a, <1>5 DEF RejectRed, Return, Pc, histVars
<1>6. CASE Admit(c) BY <1>a, <1>6 DEF Admit, Pc, histVars
<1>7. CASE LockAppend(c) BY <1>a, <1>7 DEF LockAppend, Pc, histVars
<1>8. CASE LockRewrite(c)
  <2>1. synced' = {} /\ pc' = [pc EXCEPT ![c] = "rewrite"] BY <1>8 DEF LockRewrite
  <2>2. \A d \in Clients : pc'[d] # "syncAppend"
        BY <1>0, <1>c, <1>8, <2>1 DEF LockRewrite, Holding
  <2> QED BY <2>1, <2>2
<1>9. CASE EncodeRecord(c)
  <2>1. synced = {} /\ synced' = {} /\ pc' = pc BY <1>9 DEF EncodeRecord, histVars
  <2>2. \A d \in Clients : pc[d] # "syncAppend"
        BY <1>b, <1>9 DEF EncodeRecord, Holding
  <2> QED BY <2>1, <2>2
<1>10. CASE SyncRewrite(c)
  <2>1. synced = {} /\ synced' = {} /\ file' = file /\ call' = call
        BY <1>10 DEF SyncRewrite
  <2>2. \A d \in Clients : pc'[d] # "syncAppend"
        BY <1>0, <1>b, <1>10 DEF SyncRewrite, Return, Holding
  <2> QED BY <2>1, <2>2
<1>11. CASE AppendLine(c)
  <2>1. /\ file' = file \o Line(Target(c)) /\ pc' = [pc EXCEPT ![c] = "syncAppend"]
        /\ pc[c] = "append" /\ UNCHANGED <<disk, synced, call>>
        BY <1>11 DEF AppendLine, histVars
  <2>2. Target(c) \in Record /\ Line(Target(c)) \in Seq(Cell)
        BY <2>1, TargetType, LineType DEF Appending
  <2>3. synced # {} => Extends(disk, file') BY <1>0, <2>1, <2>2, AppendExtends
  <2>4. HoldsLine(file', Target(c)) BY <1>0, <2>1, <2>2, AppendHolds
  <2>5. \A d \in Clients : /\ pc'[d] = "syncAppend" => d = c
                           /\ pc'[d] = "rewrite" => pc[d] = "rewrite"
        BY <1>0, <1>b, <2>1 DEF Holding
  <2>6. Target(c)' = Target(c) BY <2>1 DEF Target, Filed
  <2> QED BY <2>1, <2>3, <2>4, <2>5, <2>6
<1>12. CASE SyncAppend(c)
  <2>1. /\ pc[c] = "syncAppend" /\ disk' = file /\ file' = file
        /\ synced' = synced \cup {Target(c)}
        BY <1>12 DEF SyncAppend
  <2>2. \A r \in synced : HoldsLine(file, r) BY <1>0, ExtendsHolds
  <2>3. Extends(file, file) BY <1>0 DEF Extends
  <2>4. \A d \in Clients : pc'[d] \notin {"syncAppend", "rewrite"}
        BY <1>0, <1>b, <1>12 DEF SyncAppend, Return, Holding
  <2> QED BY <2>1, <2>2, <2>3, <2>4
<1>13. CASE OpenFails(c)
      BY <1>a, <1>13 DEF OpenFails, Fail, Return, Pc, histVars
<1>14. CASE AppendFails(c)
  <2>1. /\ pc[c] = "append" /\ pc' = [pc EXCEPT ![c] = "idle"]
        /\ UNCHANGED <<disk, synced, call>>
        BY <1>14 DEF AppendFails, Fail, Return, histVars
  <2>2. Target(c) \in Record BY <2>1, TargetType DEF Appending
  <2>3. PICK n \in 0..Size[Target(c).plan] : file' = file \o SubSeq(Line(Target(c)), 1, n)
        BY <1>14 DEF AppendFails, Target, Filed
  <2>4. SubSeq(Line(Target(c)), 1, n) \in Seq(Cell)
        BY <2>2, <2>3, LineType, ConstantsAssumption DEF Record
  <2>5. synced # {} => Extends(disk, file') BY <1>0, <2>3, <2>4, AppendExtends
  <2>6. \A d \in Clients : /\ pc'[d] # "syncAppend"
                           /\ pc'[d] = "rewrite" => pc[d] = "rewrite"
        BY <1>0, <1>b, <2>1 DEF Holding
  <2> QED BY <2>1, <2>5, <2>6
<1>15. CASE EncodeFails(c)
  <2>1. /\ pc[c] = "rewrite" /\ pc' = [pc EXCEPT ![c] = "idle"] /\ synced' = synced
        BY <1>15 DEF EncodeFails, Fail, Return, histVars
  <2>2. \A d \in Clients : pc'[d] # "syncAppend" BY <1>0, <1>b, <2>1 DEF Holding
  <2> QED BY <2>1, <2>2
<1>16. CASE SyncFails(c)
      BY <1>a, <1>16 DEF SyncFails, Fail, Return, Pc, histVars
<1> QED BY <1>1, <1>2, <1>3, <1>4, <1>5, <1>6, <1>7, <1>8, <1>9, <1>10, <1>11, <1>12,
           <1>13, <1>14, <1>15, <1>16 DEF Step, Lock, Fault

LEMMA CrashDurable ==
    ASSUME TypeInv, DurableInv, Kill \/ PowerLoss
    PROVE  DurableInv'
<1>1. /\ file \in Seq(Cell) /\ disk \in Seq(Cell) /\ synced \subseteq Record
      BY DEF TypeInv, TypeOK
<1>2. synced' = synced /\ \A c \in Clients : pc'[c] = "idle"
      BY DEF Kill, PowerLoss, Restart, histVars
<1>3. CASE Kill BY <1>2, <1>3 DEF Kill, fileVars, DurableInv
<1>4. CASE PowerLoss
  <2>1. disk' = file' /\ file' \in Seq(Cell)
    <3>1. \A n \in 0..Len(file) : SubSeq(file, 1, n) \in Seq(Cell) BY <1>1
    <3> QED BY <1>1, <1>4, <3>1 DEF PowerLoss
  <2>2. synced # {} => Extends(disk, file')
    <3>1. Extends(disk, disk) BY <1>1 DEF Extends
    <3> QED BY <1>1, <1>4, <3>1, CutExtends DEF PowerLoss, DurableInv
  <2>3. \A r \in synced : HoldsLine(file', r)
        BY <1>1, <2>1, <2>2, ExtendsHolds DEF DurableInv
  <2>4. Extends(disk', file') BY <2>1 DEF Extends
  <2> QED BY <1>2, <2>1, <2>3, <2>4 DEF DurableInv
<1> QED BY <1>3, <1>4

LEMMA DurableKept ==
    ASSUME OneValue
    PROVE  TypeInv /\ LockInv /\ DurableInv /\ [Next]_vars => DurableInv'
<1> SUFFICES ASSUME TypeInv, LockInv, DurableInv, [Next]_vars PROVE DurableInv' OBVIOUS
<1>1. ASSUME NEW c \in Clients, Start(c) PROVE DurableInv'
  <2>1. /\ pc[c] = "idle" /\ UNCHANGED <<file, disk, synced>>
        /\ pc' = [pc EXCEPT ![c] = "admit"] \/ pc' = [pc EXCEPT ![c] = "read"]
        /\ \A d \in Clients \ {c} : call'[d] = call[d]
        BY <1>1, ZenonT(60) DEF Start, StoreContextPlan, LoadPriorPlan, Load, Delete, Save,
                    BeginRemoval, Begin, TypeInv, TypeOK
  <2>2. \A d \in Clients \ {c} : pc'[d] = pc[d] /\ Target(d)' = Target(d)
        BY <2>1 DEF Target, Filed, TypeInv, TypeOK
  <2>3. pc'[c] \in {"admit", "read"} BY <2>1 DEF TypeInv, TypeOK
  <2> QED BY <2>1, <2>2, <2>3 DEF DurableInv
<1>2. CASE UNCHANGED vars BY <1>2 DEF vars, DurableInv, Target, Filed
<1> QED BY <1>1, <1>2, StepDurable, CrashDurable DEF Next

\* What StoreContextPlan acknowledged on the only FileStore value of the path
\* stays in the file and on disk, whole, until the next rewrite, through failing
\* writes and fsyncs, kills and power losses.
THEOREM AcknowledgedIsDurable ==
    ASSUME OneValue
    PROVE  Spec => []StoredIsDurable
<1>1. Init => LockInv /\ DurableInv
      BY DEF Init, LockInv, Holding, DurableInv
<1>2. TypeInv /\ LockInv /\ DurableInv /\ [Next]_vars => DurableInv' BY DurableKept
<1>3. Spec => [](TypeInv /\ DurableInv)
      BY <1>1, <1>2, InitType, NextType, LockKept, PTL DEF Spec
<1>4. TypeInv /\ DurableInv => StoredIsDurable
  <2> SUFFICES ASSUME TypeInv, DurableInv, NEW r \in synced
               PROVE  HoldsLine(disk, r) /\ HoldsLine(file, r)
      BY DEF StoredIsDurable
  <2> QED BY ExtendsHolds DEF DurableInv, TypeInv, TypeOK
<1> QED BY <1>3, <1>4, PTL

-----------------------------------------------------------------------------
(* The lines of the file, until a system call fails or the process ends.   *)
(* A tidy file is whole lines, each ended by its newline; a line written   *)
(* to its end leaves it so.                                                *)

Steady == faults = 0 /\ crashes = 0

LineEnds(b) == {e \in Ends(b) : ~Blank(b, e)}
Tidy(b) == \A e \in Ends(b) : e <= Len(b) /\ (e \in LineEnds(b) => Whole(b, e))

LEMMA LineCells ==
    ASSUME NEW r \in Record
    PROVE  /\ Size[r.plan] \in Nat /\ Size[r.plan] > 0 /\ r # NoRecord
           /\ Line(r) \in Seq(Cell) /\ Len(Line(r)) = Size[r.plan] + 1
           /\ \A k \in 1..Size[r.plan] :
                Line(r)[k] = [rec |-> r, part |-> k] /\ Line(r)[k] # Newline
           /\ Line(r)[Size[r.plan] + 1] = Newline
<1>1. Size[r.plan] \in Nat /\ Size[r.plan] > 0 /\ r # NoRecord
  BY ConstantsAssumption DEF Record
<1>2. Line(r) \in Seq(Cell) /\ Len(Line(r)) = Size[r.plan] + 1 BY LineType
<1> DEFINE n == Size[r.plan]
           body == [i \in 1..n |-> [rec |-> r, part |-> i]]
<1>3. Line(r) = Append(body, Newline) BY DEF Line, Body
<1>4. \A k \in 1..n : [rec |-> r, part |-> k] # Newline BY <1>1 DEF Newline
<1>5. body \in Seq({[rec |-> r, part |-> i] : i \in 1..n}) /\ Len(body) = n BY <1>1
<1>6. \A k \in 1..n : body[k] = [rec |-> r, part |-> k] OBVIOUS
<1> HIDE DEF body, n
<1>7. n \in Nat BY <1>1 DEF n
<1>8. \A k \in 1..n : Line(r)[k] = body[k] BY <1>3, <1>5, <1>7
<1>9. Line(r)[n + 1] = Newline BY <1>3, <1>5, <1>7
<1> QED BY <1>1, <1>2, <1>4, <1>6, <1>8, <1>9 DEF n

\* A write at the end of the file appends.
LEMMA WriteAtEnd ==
    ASSUME NEW f \in Seq(Cell), NEW l \in Seq(Cell)
    PROVE  WriteAt(f, Len(f), l) = f \o l
<1> DEFINE n == Len(f) + Len(l)
           w(i) == IF Len(f) < i /\ i <= Len(f) + Len(l) THEN l[i - Len(f)]
                   ELSE IF i <= Len(f) THEN f[i] ELSE Gap
<1>1. WriteAt(f, Len(f), l) = [i \in 1..n |-> w(i)] BY DEF WriteAt
<1>2. f \o l = [i \in 1..n |-> IF i <= Len(f) THEN f[i] ELSE l[i - Len(f)]]
  <2> DEFINE h == f \o l
  <2>1. h \in Seq(Cell) /\ Len(h) = n /\ n \in Nat OBVIOUS
  <2>2. \A i \in 1..n : h[i] = IF i <= Len(f) THEN f[i] ELSE l[i - Len(f)] OBVIOUS
  <2> HIDE DEF h, n
  <2>3. h = [i \in 1..n |-> h[i]] BY <2>1
  <2> QED BY <2>2, <2>3 DEF h
<1>3. \A i \in 1..n : w(i) = IF i <= Len(f) THEN f[i] ELSE l[i - Len(f)] OBVIOUS
<1> HIDE DEF n, w
<1> QED BY <1>1, <1>2, <1>3

LEMMA TidyNothing == Tidy(<<>>) /\ LineEnds(<<>>) = {}
BY DEF Tidy, Ends, LineEnds

\* A line behind a tidy file: the file stays tidy and has one record more.
LEMMA AddLine ==
    ASSUME NEW f \in Seq(Cell), Tidy(f), NEW r \in Record
    PROVE  LET g == f \o Line(r)
               n == Len(f) + Size[r.plan] + 1
           IN  /\ g \in Seq(Cell) /\ Len(g) = n /\ Tidy(g)
               /\ LineEnds(g) = LineEnds(f) \cup {n} /\ n \notin LineEnds(f)
               /\ \A e \in LineEnds(f) : e \in Nat /\ e < n /\ g[e - 1] = f[e - 1]
               /\ g[n - 1].rec = r
<1> DEFINE m == Size[r.plan]
           l == Line(r)
           g == f \o l
           n == Len(f) + m + 1
<1>1. /\ m \in Nat /\ m > 0 /\ r # NoRecord /\ l \in Seq(Cell) /\ Len(l) = m + 1
      /\ \A k \in 1..m : l[k] = [rec |-> r, part |-> k] /\ l[k] # Newline
      /\ l[m + 1] = Newline
  BY LineCells
<1>2. Len(f) \in Nat OBVIOUS
<1> HIDE DEF l, m
<1>3. g \in Seq(Cell) /\ Len(g) = n BY <1>1, <1>2
<1>4. \A i \in 1..Len(f) : g[i] = f[i] BY <1>1, <1>2
<1>5. \A k \in 1..m : g[Len(f) + k] = [rec |-> r, part |-> k] /\ g[Len(f) + k] # Newline
  BY <1>1, <1>2
<1>6. g[n] = Newline
  <2>1. m + 1 \in 1..Len(l) BY <1>1
  <2>2. g[Len(f) + (m + 1)] = l[m + 1] BY <1>1, <1>2, <2>1
  <2>3. Len(f) + (m + 1) = n BY <1>1, <1>2
  <2> QED BY <1>1, <2>2, <2>3
<1> HIDE DEF g
<1>7. n \in Nat /\ n > Len(f) + 1 /\ n > 0 BY <1>1, <1>2
<1>8. \A i \in 1..n : i \in 1..Len(f) \/ (\E k \in 1..m : i = Len(f) + k) \/ i = n
  <2> SUFFICES ASSUME NEW i \in 1..n, i \notin 1..Len(f), i # n
               PROVE  \E k \in 1..m : i = Len(f) + k
    OBVIOUS
  <2>1. i - Len(f) \in 1..m /\ i = Len(f) + (i - Len(f)) BY <1>1, <1>2
  <2> QED BY <2>1
<1>9. Ends(f) = {i \in 1..Len(f) : f[i] = Newline}
  <2>1. \A e \in Ends(f) : e <= Len(f) BY DEF Tidy
  <2>2. ~(Len(f) + 1 <= Len(f)) BY <1>2
  <2> QED BY <2>1, <2>2 DEF Ends
<1>10. f # <<>> => f[Len(f)] = Newline
  <2>1. ASSUME f # <<>>, f[Len(f)] # Newline PROVE Len(f) + 1 \in Ends(f) BY <2>1 DEF Ends
  <2>2. ~(Len(f) + 1 <= Len(f)) BY <1>2
  <2> QED BY <2>1, <2>2 DEF Tidy
<1>11. Ends(g) = Ends(f) \cup {n}
  <2>1. g # <<>> BY <1>3, <1>7
  <2>2. Ends(g) = {i \in 1..n : g[i] = Newline} BY <1>3, <1>6, <2>1 DEF Ends
  <2>3. ASSUME NEW i \in 1..n, g[i] = Newline PROVE i \in Ends(f) \cup {n}
    BY <1>4, <1>5, <1>8, <1>9, <2>3
  <2>4. \A i \in Ends(f) : i \in 1..n /\ g[i] = Newline
    <3>1. \A i \in 1..Len(f) : i \in 1..n BY <1>2, <1>7
    <3> QED BY <1>4, <1>9, <3>1
  <2>5. n \in 1..n BY <1>7
  <2> QED BY <1>6, <2>2, <2>3, <2>4, <2>5
<1>12. \A e \in Ends(f) : e \in 1..Len(f) /\ e \in Nat /\ e < n BY <1>2, <1>7, <1>9
<1>13. \A e \in Ends(f) : e > 1 => e - 1 \in 1..Len(f) BY <1>2, <1>12
<1>14. \A e \in Ends(f) : Blank(g, e) <=> Blank(f, e) BY <1>4, <1>13 DEF Blank
<1>15. n - 1 = Len(f) + m /\ m \in 1..m BY <1>1, <1>2
<1>16. ~Blank(g, n)
  <2>1. g[n - 1] # Newline BY <1>5, <1>15
  <2> QED BY <1>2, <1>7, <2>1 DEF Blank
<1>17. g[n - 1].rec = r
  <2>1. g[Len(f) + m] = [rec |-> r, part |-> m] BY <1>5, <1>15
  <2> HIDE DEF n
  <2> QED BY <1>15, <2>1
<1>18. LineEnds(g) = LineEnds(f) \cup {n} BY <1>11, <1>14, <1>16 DEF LineEnds
<1>19. n \notin LineEnds(f) BY <1>7, <1>12 DEF LineEnds
<1>20. \A e \in LineEnds(f) : e \in Nat /\ e < n /\ e > 1 /\ g[e - 1] = f[e - 1]
  BY <1>4, <1>12, <1>13 DEF LineEnds, Blank
<1>21. Whole(g, n)
  <2>1. n - m = Len(f) + 1 BY <1>1, <1>2
  <2>2. n - m > 1 => g[(n - m) - 1] = Newline
    <3> SUFFICES ASSUME n - m > 1 PROVE g[(n - m) - 1] = Newline OBVIOUS
    <3>1. (n - m) - 1 = Len(f) /\ Len(f) \in 1..Len(f) BY <1>2, <2>1
    <3>2. f # <<>> BY <1>2, <3>1
    <3> QED BY <1>4, <1>10, <3>1, <3>2
  <2>3. \A k \in 1..m : g[(n - m) + k - 1] = [rec |-> r, part |-> k]
    <3> SUFFICES ASSUME NEW k \in 1..m PROVE g[(n - m) + k - 1] = [rec |-> r, part |-> k]
      OBVIOUS
    <3>1. (n - m) + k - 1 = Len(f) + k BY <1>1, <1>2, <2>1
    <3> QED BY <1>5, <3>1
  <2>4. n - m >= 1 BY <1>2, <2>1
  <2> HIDE DEF n
  <2> QED BY <1>1, <1>17, <2>2, <2>3, <2>4 DEF Whole, m
<1>22. ASSUME NEW e \in LineEnds(f) PROVE Whole(g, e)
  <2>1. Whole(f, e) /\ e \in Ends(f) BY DEF Tidy, LineEnds
  <2>2. e \in 1..Len(f) /\ e > 1 /\ g[e - 1] = f[e - 1] BY <1>12, <1>20, <2>1
  <2> DEFINE q == f[e - 1].rec
             s == Size[q.plan]
  <2>3. q # NoRecord /\ e - s >= 1 BY <2>1 DEF Whole
  <2>4. f[e - 1] \in Cell BY <1>13, <2>1, <2>2
  <2>5. s \in Nat
    <3>1. q \in Record BY <2>3, <2>4 DEF Cell
    <3> QED BY <3>1, LineCells
  <2>6. (e - s) > 1 => f[(e - s) - 1] = Newline BY <2>1 DEF Whole
  <2>7. \A k \in 1..s : f[(e - s) + k - 1] = [rec |-> q, part |-> k] BY <2>1 DEF Whole
  <2> HIDE DEF q, s
  <2>8. (e - s) > 1 => (e - s) - 1 \in 1..Len(f) BY <1>2, <2>2, <2>3, <2>5
  <2>9. \A k \in 1..s : (e - s) + k - 1 \in 1..Len(f) BY <1>2, <2>2, <2>3, <2>5
  <2>10. g[e - 1].rec = q BY <2>2 DEF q
  <2>11. \A k \in 1..s : g[(e - s) + k - 1] = [rec |-> q, part |-> k] BY <1>4, <2>7, <2>9
  <2>12. (e - s) > 1 => g[(e - s) - 1] = Newline BY <1>4, <2>6, <2>8
  <2> QED BY <2>3, <2>10, <2>11, <2>12 DEF Whole, s
<1>23. Tidy(g)
  <2>1. \A e \in Ends(g) : e <= Len(g) BY <1>3, <1>7, <1>11, <1>12
  <2> HIDE DEF n
  <2> QED BY <1>18, <1>21, <1>22, <2>1 DEF Tidy
<1> QED BY <1>3, <1>17, <1>18, <1>19, <1>20, <1>23 DEF g, l, m

\* Only calls that remove records rewrite the file.
AppendOnly == \A c \in Clients : Ops[c] \cap {"save", "delete"} = {}
CallInv ==
    \A c \in Clients :
        /\ pc[c] # "idle" => call[c].op \in Ops[c]
        /\ pc[c] \in {"lockRewrite", "rewrite"} => call[c].op \in {"save", "delete"}

LEMMA CallKept == TypeInv /\ CallInv /\ [Next]_vars => CallInv'
<1> SUFFICES ASSUME TypeInv, CallInv, [Next]_vars PROVE CallInv' OBVIOUS
<1>0. pc \in [Clients -> Pc] /\ call \in [Clients -> CallRecord]
  BY DEF TypeInv, TypeOK
<1> USE DEF CallInv
<1>1. ASSUME NEW c \in Clients, Start(c) PROVE CallInv'
  <2>1. PICK op, s, todo : \E first \in {"admit", "read"} : Begin(c, op, s, todo, first)
    BY <1>1 DEF Start, StoreContextPlan, LoadPriorPlan, Load, Delete, Save, BeginRemoval
  <2> PICK first \in {"admit", "read"} : Begin(c, op, s, todo, first) BY <2>1
  <2>2. /\ pc' = [pc EXCEPT ![c] = first] /\ op \in Ops[c]
        /\ \A d \in Clients \ {c} : call'[d] = call[d]
        /\ call'[c].op = op
    BY <1>0, <2>1 DEF Begin
  <2> QED BY <1>0, <2>1, <2>2
<1>2. ASSUME NEW c \in Clients, Step(c) \/ Lock(c) \/ Fault(c) PROVE CallInv'
  <2>1. ASSUME \A d \in Clients : call'[d].op = call[d].op, pc[c] # "idle",
               \E to \in Pc : /\ pc' = [pc EXCEPT ![c] = to]
                              /\ to \in {"lockRewrite", "rewrite"} =>
                                   call[c].op \in {"save", "delete"}
        PROVE  CallInv'
    BY <1>0, <2>1
  <2>2. CASE Step(c) \/ Lock(c)
    <3>1. CASE ReadCell(c) BY <3>1 DEF ReadCell
    <3>2. CASE ReadCorrupt(c) BY <2>1, <3>2 DEF ReadCorrupt, AtEOF, Return, Pc
    <3>3. CASE ReadAnswers(c) BY <2>1, <3>3 DEF ReadAnswers, AtEOF, Return, Pc
    <3>4. CASE ReadKeeps(c) BY <2>1, <3>4 DEF ReadKeeps, AtEOF, Pc
    <3>5. CASE EncodeRecord(c) BY <3>5 DEF EncodeRecord
    <3>6. CASE SyncRewrite(c) BY <2>1, <3>6 DEF SyncRewrite, Return, Pc
    <3>7. CASE RejectRed(c) BY <2>1, <3>7 DEF RejectRed, Return, Pc
    <3>8. CASE Admit(c) BY <2>1, <3>8 DEF Admit, Pc
    <3>9. CASE AppendLine(c) BY <2>1, <3>9 DEF AppendLine, Pc
    <3>10. CASE SyncAppend(c)
      <4>1. \A d \in Clients : call'[d].op = call[d].op
        BY <1>0, <3>10 DEF SyncAppend
      <4> QED BY <2>1, <3>10, <4>1 DEF SyncAppend, Return, Pc
    <3>11. CASE LockRewrite(c) BY <2>1, <3>11 DEF LockRewrite, Pc
    <3>12. CASE LockAppend(c) BY <2>1, <3>12 DEF LockAppend, Pc
    <3> QED BY <2>2, <3>1, <3>2, <3>3, <3>4, <3>5, <3>6, <3>7, <3>8, <3>9, <3>10, <3>11, <3>12
            DEF Step, Lock
  <2>3. CASE Fault(c)
    <3>1. pc' = [pc EXCEPT ![c] = "idle"] /\ call' = call /\ pc[c] # "idle"
      BY <2>3 DEF Fault, OpenFails, AppendFails, EncodeFails, SyncFails, Fail, Return
    <3> QED BY <1>0, <3>1
  <2> QED BY <1>2, <2>2, <2>3
<1>3. CASE Kill \/ PowerLoss
  <2>1. pc' = [c \in Clients |-> "idle"] BY <1>3 DEF Kill, PowerLoss, Restart
  <2> QED BY <2>1
<1>4. CASE UNCHANGED vars BY <1>4 DEF vars
<1> QED BY <1>1, <1>2, <1>3, <1>4 DEF Next

\* One writer at a time, or none that rewrites.
Ordered == OneValue \/ AppendOnly

\* The descriptor of a rewrite is at the end of the file.
TidyInv ==
    Steady => /\ Tidy(file)
              /\ \A c \in Clients : pc[c] = "rewrite" => off[c] = Len(file)

\* What a step does while nothing has failed.
LEMMA SteadyNext ==
    ASSUME TypeInv, [Next]_vars, Steady'
    PROVE  /\ Steady
           /\ \/ \E c \in Clients : Start(c) \/ Step(c) \/ Lock(c)
              \/ UNCHANGED vars
<1>1. faults \in Nat /\ crashes \in Nat BY DEF TypeInv, TypeOK
<1>2. \A c \in Clients : ~Fault(c)
  <2> SUFFICES ASSUME NEW c \in Clients, Fault(c) PROVE FALSE OBVIOUS
  <2>1. faults' = faults + 1
    BY DEF Fault, OpenFails, AppendFails, EncodeFails, SyncFails, Fail
  <2> QED BY <1>1, <2>1 DEF Steady
<1>3. ~Kill /\ ~PowerLoss
  <2> SUFFICES ASSUME Kill \/ PowerLoss PROVE FALSE OBVIOUS
  <2>1. crashes' = crashes + 1 BY DEF Kill, PowerLoss, Restart
  <2> QED BY <1>1, <2>1 DEF Steady
<1>4. \/ \E c \in Clients : Start(c) \/ Step(c) \/ Lock(c)
      \/ UNCHANGED vars
  BY <1>2, <1>3 DEF Next
<1>5. CASE \E c \in Clients : Start(c)
  <2>1. UNCHANGED <<faults, crashes>>
    BY <1>5, ZenonT(60) DEF Start, StoreContextPlan, LoadPriorPlan, Load, Delete, Save, BeginRemoval, Begin
  <2> QED BY <1>4, <2>1 DEF Steady
<1>6. CASE \E c \in Clients : Step(c) \/ Lock(c)
  <2>1. UNCHANGED <<faults, crashes>>
    BY <1>6 DEF Step, Lock, ReadCell, ReadCorrupt, ReadAnswers, ReadKeeps, EncodeRecord,
           SyncRewrite, RejectRed, Admit, AppendLine, SyncAppend, LockRewrite, LockAppend,
           boundVars
  <2> QED BY <1>4, <2>1 DEF Steady
<1>7. CASE UNCHANGED vars BY <1>7 DEF vars, Steady
<1> QED BY <1>4, <1>5, <1>6, <1>7

\* What a step does to the file.
LEMMA StepFile ==
    ASSUME NEW c \in Clients, Step(c) \/ Lock(c),
           ~AppendLine(c), ~EncodeRecord(c), ~LockRewrite(c)
    PROVE  UNCHANGED <<file, off>>
BY DEF Step, Lock, ReadCell, ReadCorrupt, ReadAnswers, ReadKeeps, SyncRewrite, RejectRed,
       Admit, SyncAppend, LockAppend

LEMMA StepTidy ==
    ASSUME Ordered, TypeInv, LockInv, CallInv, Steady, TidyInv, NEW c \in Clients,
           Step(c) \/ Lock(c)
    PROVE  TidyInv'
<1>0. /\ pc \in [Clients -> Pc] /\ file \in Seq(Cell) /\ off \in [Clients -> Nat]
      /\ IsParse(rest[c])
  BY DEF TypeInv, TypeOK
<1>1. Tidy(file) /\ \A d \in Clients : pc[d] = "rewrite" => off[d] = Len(file) BY DEF TidyInv
<1>2. \A d \in Clients : pc[d] = "rewrite" => OneValue
  BY DEF Ordered, AppendOnly, CallInv
<1>3. \A d \in Clients : pc[d] = "rewrite" /\ pc[c] \in Holding => c = d
  BY <1>2 DEF OneValue, LockInv, Holding
<1>4. CASE AppendLine(c)
  <2>1. Target(c) \in Record BY <1>4, TargetType DEF AppendLine, Appending
  <2>2. file' = file \o Line(Target(c)) /\ off' = off /\ pc' = [pc EXCEPT ![c] = "syncAppend"]
        /\ pc[c] = "append"
    BY <1>4 DEF AppendLine
  <2>3. Tidy(file') BY <1>0, <1>1, <2>1, <2>2, AddLine
  <2>4. \A d \in Clients : pc'[d] # "rewrite" BY <1>0, <1>3, <2>2 DEF Holding
  <2> QED BY <2>3, <2>4 DEF TidyInv
<1>5. CASE EncodeRecord(c)
  <2>1. PICK e \in DOMAIN rest[c] :
          /\ file' = WriteAt(file, off[c], Line(rest[c][e]))
          /\ off' = [off EXCEPT ![c] = @ + Size[rest[c][e].plan] + 1]
    BY <1>5 DEF EncodeRecord, Oldest
  <2>2. pc' = pc /\ pc[c] = "rewrite" /\ off[c] = Len(file) BY <1>1, <1>5 DEF EncodeRecord
  <2>3. rest[c][e] \in Record BY <1>0, RemoveType
  <2>4. Line(rest[c][e]) \in Seq(Cell) BY <2>3, LineCells
  <2>5. file' = file \o Line(rest[c][e]) BY <1>0, <2>1, <2>2, <2>4, WriteAtEnd
  <2>6. Tidy(file') /\ Len(file') = Len(file) + Size[rest[c][e].plan] + 1
    BY <1>0, <1>1, <2>3, <2>5, AddLine
  <2>7. off'[c] = Len(file') BY <1>0, <2>1, <2>2, <2>6
  <2>8. \A d \in Clients : pc'[d] = "rewrite" => d = c BY <1>3, <2>2 DEF Holding
  <2> QED BY <2>6, <2>7, <2>8 DEF TidyInv
<1>6. CASE LockRewrite(c)
  <2>1. /\ file' = <<>> /\ off' = [off EXCEPT ![c] = 0] /\ pc' = [pc EXCEPT ![c] = "rewrite"]
        /\ holder[InstanceOf[c]] = Free
    BY <1>6 DEF LockRewrite
  <2>2. \A d \in Clients : pc[d] # "rewrite"
    BY <1>2, <2>1, ConstantsAssumption DEF OneValue, LockInv, Holding
  <2>3. \A d \in Clients : pc'[d] = "rewrite" => d = c BY <1>0, <2>1, <2>2
  <2>4. off'[c] = Len(file') BY <1>0, <2>1
  <2> QED BY <2>1, <2>3, <2>4, TidyNothing DEF TidyInv
<1>7. CASE ~AppendLine(c) /\ ~EncodeRecord(c) /\ ~LockRewrite(c)
  <2>1. UNCHANGED <<file, off>> BY <1>7, StepFile
  <2>2. \A d \in Clients : pc'[d] = "rewrite" => pc[d] = "rewrite"
    BY <1>0, <1>7
    DEF Step, Lock, ReadCell, ReadCorrupt, ReadAnswers, ReadKeeps, SyncRewrite, RejectRed,
        Admit, SyncAppend, LockAppend, Return
  <2> QED BY <1>1, <2>1, <2>2 DEF TidyInv
<1> QED BY <1>4, <1>5, <1>6, <1>7

LEMMA TidyKept ==
    ASSUME Ordered
    PROVE  TypeInv /\ LockInv /\ CallInv /\ TidyInv /\ [Next]_vars => TidyInv'
<1> SUFFICES ASSUME TypeInv, LockInv, CallInv, TidyInv, [Next]_vars, Steady' PROVE TidyInv'
  BY DEF TidyInv
<1>1. Steady /\ (\/ \E c \in Clients : Start(c) \/ Step(c) \/ Lock(c)
                 \/ UNCHANGED vars)
  BY SteadyNext
<1>2. ASSUME NEW c \in Clients, Start(c) PROVE TidyInv'
  <2>1. /\ UNCHANGED <<file, off>>
        /\ pc' = [pc EXCEPT ![c] = "admit"] \/ pc' = [pc EXCEPT ![c] = "read"]
    BY <1>2 DEF Start, StoreContextPlan, LoadPriorPlan, Load, Delete, Save, BeginRemoval, Begin
  <2> QED BY <1>1, <2>1 DEF TidyInv, TypeInv, TypeOK
<1>3. CASE UNCHANGED vars BY <1>1, <1>3 DEF vars, TidyInv
<1> QED BY <1>1, <1>2, <1>3, StepTidy

\* Plans that fit the scanner's buffer.
Fits == \A p \in Plans : Size[p] < MaxToken

LEMMA TidyReadable ==
    ASSUME NEW b \in Seq(Cell), Tidy(b), Fits
    PROVE  Readable(b)
<1> SUFFICES ASSUME NEW e \in Ends(b), ~Blank(b, e)
             PROVE  Whole(b, e) /\ Size[b[e - 1].rec.plan] < MaxToken
  BY DEF Readable
<1>1. Whole(b, e) BY DEF Tidy, LineEnds
<1>2. e - 1 \in 1..Len(b)
  <2>1. e \in Nat /\ e > 1 /\ e <= Len(b) BY DEF Ends, Blank, Tidy
  <2> QED BY <2>1
<1>3. b[e - 1].rec \in Record
  <2>1. b[e - 1] \in Cell BY <1>2
  <2> QED BY <1>1, <2>1 DEF Whole, Cell
<1> QED BY <1>1, <1>3 DEF Fits, Record

\* Until a system call fails or the process ends, every line of the file is a
\* whole record at every instant, for any number of goroutines that share one
\* FileStore value, or that only append through any number of values, as long as
\* each plan fits the scanner's buffer.
THEOREM FileStaysReadable ==
    ASSUME Ordered, Fits
    PROVE  Spec => [](Steady => FileReadable)
<1>1. Init => LockInv /\ CallInv /\ TidyInv
  BY TidyNothing DEF Init, LockInv, Holding, CallInv, TidyInv
<1>2. TypeInv /\ LockInv /\ CallInv /\ TidyInv /\ [Next]_vars => TidyInv' BY TidyKept
<1>3. Spec => [](TypeInv /\ TidyInv)
  BY <1>1, <1>2, InitType, NextType, LockKept, CallKept, PTL DEF Spec
<1>4. TypeInv /\ TidyInv => (Steady => FileReadable)
  BY TidyReadable DEF TypeInv, TypeOK, TidyInv, FileReadable
<1> QED BY <1>3, <1>4, PTL

-----------------------------------------------------------------------------
(* What the file holds when a single goroutine uses it, or when several do *)
(* and none of them removes records.  A reader that has read as far as the *)
(* file goes has read the file, and what replaceRecords has to write is    *)
(* what the file held of the other sessions.                               *)

Alone == \A c, d \in Clients : c = d
Settled == Alone \/ AppendOnly

ReadInv ==
    Steady =>
      \A c \in Clients :
        /\ pc[c] = "read" => Extends(buf[c], file)
        /\ pc[c] = "lockRewrite" => rest[c] = Without(Parsed(file), call[c].session)

LEMMA Solo ==
    ASSUME Settled, CallInv, NEW c \in Clients,
           \/ pc[c] \in {"lockRewrite", "rewrite"}
           \/ pc[c] # "idle" /\ call[c].op \in {"save", "delete"}
    PROVE  \A d \in Clients : d = c
BY DEF Settled, Alone, AppendOnly, CallInv

LEMMA SettledOrdered == Settled => Ordered
BY DEF Settled, Alone, Ordered, OneValue

LEMMA ReadAll ==
    ASSUME NEW f \in Seq(Cell), NEW g \in Seq(Cell), Extends(f, g), Len(f) >= Len(g)
    PROVE  f = g
<1>1. Len(f) \in Nat /\ Len(g) \in Nat /\ Len(f) = Len(g) BY DEF Extends
<1>2. f = [i \in 1..Len(f) |-> f[i]] /\ g = [i \in 1..Len(g) |-> g[i]] OBVIOUS
<1>3. \A i \in 1..Len(f) : f[i] = g[i] BY DEF Extends
<1> QED BY <1>1, <1>2, <1>3

LEMMA StepRead ==
    ASSUME Settled, TypeInv, CallInv, Steady, ReadInv, NEW c \in Clients, Step(c) \/ Lock(c)
    PROVE  ReadInv'
<1>0. /\ pc \in [Clients -> Pc] /\ file \in Seq(Cell) /\ buf \in [Clients -> Seq(Cell)]
      /\ DOMAIN rest = Clients /\ call \in [Clients -> CallRecord]
  BY DEF TypeInv, TypeOK
<1>1. \A d \in Clients :
        /\ pc[d] = "read" => Extends(buf[d], file)
        /\ pc[d] = "lockRewrite" => rest[d] = Without(Parsed(file), call[d].session)
  BY DEF ReadInv
<1>2. CASE ReadCell(c)
  <2>1. /\ buf' = [buf EXCEPT ![c] = Append(@, file[Len(@) + 1])] /\ Len(buf[c]) < Len(file)
        /\ pc[c] = "read" /\ UNCHANGED <<file, pc, rest, call>>
    BY <1>2 DEF ReadCell
  <2>2. Extends(Append(buf[c], file[Len(buf[c]) + 1]), file)
    <3> DEFINE b == buf[c]
               n == Len(b) + 1
    <3>1. b \in Seq(Cell) /\ Extends(b, file) /\ Len(b) < Len(file) BY <1>0, <1>1, <2>1
    <3>2. Len(b) \in Nat /\ Len(file) \in Nat /\ n \in 1..Len(file) BY <1>0, <3>1
    <3>3. file[n] \in Cell BY <1>0, <3>2
    <3> HIDE DEF b
    <3>4. /\ Len(Append(b, file[n])) = n /\ Append(b, file[n])[n] = file[n]
          /\ \A i \in 1..Len(b) : Append(b, file[n])[i] = b[i]
      BY <3>1, <3>2, <3>3
    <3>5. \A i \in 1..n : i \in 1..Len(b) \/ i = n BY <3>2
    <3>6. \A i \in 1..Len(b) : file[i] = b[i] BY <3>1 DEF Extends
    <3>7. \A i \in 1..n : file[i] = Append(b, file[n])[i] BY <3>4, <3>5, <3>6
    <3>8. n <= Len(file) BY <3>2
    <3> HIDE DEF n
    <3>9. Extends(Append(b, file[n]), file) BY <3>4, <3>7, <3>8 DEF Extends
    <3> QED BY <3>9 DEF n, b
  <2> QED BY <1>0, <1>1, <2>1, <2>2 DEF ReadInv
<1>3. CASE ReadKeeps(c)
  <2>1. /\ pc[c] = "read" /\ Len(buf[c]) >= Len(file)
        /\ rest' = [rest EXCEPT ![c] = Without(Parsed(buf[c]), call[c].session)]
        /\ pc' = [pc EXCEPT ![c] = "lockRewrite"] /\ UNCHANGED <<file, buf, call>>
    BY <1>3 DEF ReadKeeps, AtEOF
  <2>2. buf[c] = file BY <1>0, <1>1, <2>1, ReadAll
  <2> QED BY <1>0, <1>1, <2>1, <2>2 DEF ReadInv
<1>4. CASE AppendLine(c)
  <2>1. /\ file' = file \o Line(Target(c)) /\ pc[c] = "append" /\ pc' = [pc EXCEPT ![c] = "syncAppend"]
        /\ UNCHANGED <<buf, rest, call>>
    BY <1>4 DEF AppendLine
  <2>2. Line(Target(c)) \in Seq(Cell)
    BY <1>4, TargetType, LineCells DEF AppendLine, Appending
  <2>3. \A d \in Clients : pc[d] = "read" => Extends(buf[d], file')
    BY <1>0, <1>1, <2>1, <2>2, AppendExtends
  <2>4. \A d \in Clients : pc[d] # "lockRewrite" BY <2>1, Solo
  <2> QED BY <1>0, <2>1, <2>3, <2>4 DEF ReadInv
<1>5. CASE EncodeRecord(c) \/ LockRewrite(c)
  <2>1. pc[c] \in {"lockRewrite", "rewrite"} /\ pc'[c] = "rewrite"
    BY <1>0, <1>5 DEF EncodeRecord, LockRewrite
  <2>2. \A d \in Clients : d = c BY <2>1, Solo
  <2>3. \A d \in Clients : pc'[d] = "rewrite" BY <2>1, <2>2
  <2> QED BY <2>3 DEF ReadInv
<1>6. CASE SyncAppend(c)
  <2>1. /\ UNCHANGED <<file, buf, rest>>
        /\ \A d \in Clients : call'[d].session = call[d].session
        /\ \A d \in Clients : pc'[d] \in {"read", "lockRewrite"} => pc'[d] = pc[d]
    BY <1>0, <1>6 DEF SyncAppend, Return
  <2> QED BY <1>1, <2>1 DEF ReadInv
<1>7. CASE ~ReadCell(c) /\ ~ReadKeeps(c) /\ ~AppendLine(c) /\ ~EncodeRecord(c)
           /\ ~LockRewrite(c) /\ ~SyncAppend(c)
  <2>1. UNCHANGED <<file, buf, rest, call>>
    BY <1>7 DEF Step, Lock, ReadCorrupt, ReadAnswers, SyncRewrite, RejectRed, Admit, LockAppend
  <2>2. \A d \in Clients : pc'[d] \in {"read", "lockRewrite"} => pc'[d] = pc[d]
    BY <1>0, <1>7 DEF Step, Lock, ReadCorrupt, ReadAnswers, SyncRewrite, RejectRed, Admit,
                      LockAppend, Return
  <2> QED BY <1>1, <2>1, <2>2 DEF ReadInv
<1> QED BY <1>2, <1>3, <1>4, <1>5, <1>6, <1>7

LEMMA ReadKept ==
    ASSUME Settled
    PROVE  TypeInv /\ CallInv /\ ReadInv /\ [Next]_vars => ReadInv'
<1> SUFFICES ASSUME TypeInv, CallInv, ReadInv, [Next]_vars, Steady' PROVE ReadInv'
  BY DEF ReadInv
<1>1. Steady /\ (\/ \E c \in Clients : Start(c) \/ Step(c) \/ Lock(c)
                 \/ UNCHANGED vars)
  BY SteadyNext
<1>2. ASSUME NEW c \in Clients, Start(c) PROVE ReadInv'
  <2>1. PICK op, s, todo : \E first \in {"admit", "read"} : Begin(c, op, s, todo, first)
    BY <1>2 DEF Start, StoreContextPlan, LoadPriorPlan, Load, Delete, Save, BeginRemoval
  <2> PICK first \in {"admit", "read"} : Begin(c, op, s, todo, first) BY <2>1
  <2>2. /\ UNCHANGED <<file, rest>> /\ buf' = [buf EXCEPT ![c] = <<>>]
        /\ pc' = [pc EXCEPT ![c] = first]
        /\ \A d \in Clients \ {c} : call'[d] = call[d]
    BY DEF Begin, TypeInv, TypeOK
  <2>3. Extends(<<>>, file)
    <3>1. Len(file) \in Nat /\ Len(<<>>) = 0 BY DEF TypeInv, TypeOK
    <3>2. \A i \in 1..0 : FALSE OBVIOUS
    <3> QED BY <3>1, <3>2 DEF Extends
  <2> QED BY <1>1, <2>2, <2>3 DEF ReadInv, TypeInv, TypeOK
<1>3. CASE UNCHANGED vars BY <1>1, <1>3 DEF vars, ReadInv
<1> QED BY <1>1, <1>2, <1>3, StepRead

\* The records of the file, and of a running rewrite those still to be written.
Written(b) == {b[e - 1].rec : e \in LineEnds(b)}
Rewriting == {c \in Clients : pc[c] = "rewrite"}
Shelf == Written(file) \cup UNION {Range(rest[c]) : c \in Rewriting}

LEMMA ParsedIs ==
    ASSUME NEW b
    PROVE  /\ DOMAIN Parsed(b) = LineEnds(b) /\ \A e \in LineEnds(b) : Parsed(b)[e] = b[e - 1].rec
           /\ Range(Parsed(b)) = Written(b)
BY DEF Parsed, LineEnds, Written, Range

LEMMA RecordsAre ==
    ASSUME NEW b, Tidy(b)
    PROVE  RecordsIn(b) = Written(b)
BY DEF RecordsIn, Written, LineEnds, Tidy

LEMMA WrittenMore ==
    ASSUME NEW f \in Seq(Cell), Tidy(f), NEW r \in Record
    PROVE  Written(f \o Line(r)) = Written(f) \cup {r}
<1> DEFINE g == f \o Line(r)
           n == Len(f) + Size[r.plan] + 1
<1>1. /\ LineEnds(g) = LineEnds(f) \cup {n}
      /\ \A e \in LineEnds(f) : g[e - 1] = f[e - 1]
      /\ g[n - 1].rec = r
  <2>1. LineEnds(g) = LineEnds(f) \cup {n} BY AddLine
  <2>2. \A e \in LineEnds(f) : e \in Nat /\ e < n /\ g[e - 1] = f[e - 1] BY AddLine, Zenon
  <2>3. g[n - 1].rec = r BY AddLine
  <2> QED BY <2>1, <2>2, <2>3
<1> HIDE DEF g, n
<1>2. Written(g) = Written(f) \cup {r} BY <1>1 DEF Written
<1> QED BY <1>2 DEF g

LEMMA WithoutIs ==
    ASSUME NEW m, NEW s
    PROVE  Range(Without(m, s)) = {r \in Range(m) : r.session # s}
BY DEF Without, Restrict, Range

\* A record taken off what is left to write.
LEMMA TakenOff ==
    ASSUME NEW m, NEW e \in DOMAIN m
    PROVE  Range(m) = Range(Restrict(m, DOMAIN m \ {e})) \cup {m[e]}
<1> DEFINE less == Restrict(m, DOMAIN m \ {e})
<1>1. DOMAIN less = DOMAIN m \ {e} /\ \A x \in DOMAIN m \ {e} : less[x] = m[x] BY DEF Restrict
<1> HIDE DEF less
<1>2. Range(m) = Range(less) \cup {m[e]} BY <1>1 DEF Range
<1> QED BY <1>2 DEF less

LEMMA ShelfStep ==
    ASSUME Settled, TypeInv, CallInv, Steady, TidyInv, ReadInv, NEW c \in Clients,
           Step(c) \/ Lock(c)
    PROVE  /\ AppendLine(c) => Shelf' = Shelf \cup {Target(c)}
           /\ LockRewrite(c) => /\ Shelf' = {r \in Shelf : r.session # call[c].session}
                                /\ Rewriting' = {c}
           /\ ~AppendLine(c) /\ ~LockRewrite(c) => Shelf' = Shelf
<1>0. /\ pc \in [Clients -> Pc] /\ file \in Seq(Cell) /\ DOMAIN rest = Clients
      /\ \A d \in Clients : IsParse(rest[d])
  BY DEF TypeInv, TypeOK
<1>1. Tidy(file) /\ \A d \in Clients : pc[d] = "rewrite" => off[d] = Len(file) BY DEF TidyInv
<1>2. CASE AppendLine(c)
  <2>1. /\ file' = file \o Line(Target(c)) /\ pc[c] = "append" /\ pc' = [pc EXCEPT ![c] = "syncAppend"]
        /\ rest' = rest
    BY <1>2 DEF AppendLine
  <2>2. Target(c) \in Record BY <2>1, TargetType DEF Appending
  <2>3. Rewriting' = Rewriting BY <1>0, <2>1 DEF Rewriting
  <2>4. Written(file') = Written(file) \cup {Target(c)} BY <1>0, <1>1, <2>1, <2>2, WrittenMore
  <2>5. Shelf' = Shelf \cup {Target(c)} BY <2>1, <2>3, <2>4 DEF Shelf
  <2>6. ~LockRewrite(c) BY <2>1 DEF LockRewrite
  <2> QED BY <1>2, <2>5, <2>6
<1>3. CASE LockRewrite(c)
  <2>1. /\ file' = <<>> /\ pc[c] = "lockRewrite" /\ pc' = [pc EXCEPT ![c] = "rewrite"]
        /\ rest' = rest
    BY <1>3 DEF LockRewrite
  <2>2. \A d \in Clients : d = c BY <2>1, Solo
  <2>3. Rewriting = {} /\ Rewriting' = {c}
    <3>1. pc'[c] = "rewrite" BY <1>0, <2>1
    <3> QED BY <2>1, <2>2, <3>1 DEF Rewriting
  <2>4. Written(file') = {} BY <2>1, TidyNothing DEF Written
  <2>5. rest[c] = Without(Parsed(file), call[c].session) BY <2>1 DEF ReadInv
  <2>6. Range(rest[c]) = {r \in Written(file) : r.session # call[c].session}
    BY <2>5, WithoutIs, ParsedIs
  <2>7. Shelf = Written(file) /\ Shelf' = Range(rest[c])
    BY <2>1, <2>3, <2>4 DEF Shelf
  <2>8. ~AppendLine(c) BY <2>1 DEF AppendLine
  <2>9. Shelf' = {r \in Shelf : r.session # call[c].session} BY <2>6, <2>7
  <2> QED BY <1>3, <2>3, <2>8, <2>9
<1>4. CASE EncodeRecord(c)
  <2>1. PICK e \in DOMAIN rest[c] :
          /\ file' = WriteAt(file, off[c], Line(rest[c][e]))
          /\ rest' = [rest EXCEPT ![c] = Restrict(@, DOMAIN @ \ {e})]
    BY <1>4 DEF EncodeRecord, Oldest
  <2>2. pc' = pc /\ pc[c] = "rewrite" /\ off[c] = Len(file) BY <1>1, <1>4 DEF EncodeRecord
  <2>3. \A d \in Clients : d = c BY <2>2, Solo
  <2>4. Rewriting = {c} /\ Rewriting' = {c} BY <2>2, <2>3 DEF Rewriting
  <2>5. rest[c][e] \in Record BY <1>0, RemoveType
  <2>6. Line(rest[c][e]) \in Seq(Cell) BY <2>5, LineCells
  <2>7. file' = file \o Line(rest[c][e]) BY <1>0, <2>1, <2>2, <2>6, WriteAtEnd
  <2>8. Written(file') = Written(file) \cup {rest[c][e]} BY <1>0, <1>1, <2>5, <2>7, WrittenMore
  <2>9. rest'[c] = Restrict(rest[c], DOMAIN rest[c] \ {e}) BY <1>0, <2>1
  <2>10. Range(rest[c]) = Range(rest'[c]) \cup {rest[c][e]} BY <2>9, TakenOff
  <2>11. Shelf = Written(file) \cup Range(rest[c]) /\ Shelf' = Written(file') \cup Range(rest'[c])
    BY <2>4 DEF Shelf
  <2>12. ~AppendLine(c) /\ ~LockRewrite(c) BY <2>2 DEF AppendLine, LockRewrite
  <2> QED BY <2>8, <2>10, <2>11, <2>12
<1>5. CASE SyncRewrite(c)
  <2>1. /\ file' = file /\ rest' = rest /\ pc[c] = "rewrite" /\ DOMAIN rest[c] = {}
        /\ pc' = [pc EXCEPT ![c] = "idle"] \/ pc' = [pc EXCEPT ![c] = "admit"]
    BY <1>5 DEF SyncRewrite, Return
  <2>2. \A d \in Clients : d = c BY <2>1, Solo
  <2>3. pc'[c] # "rewrite" BY <1>0, <2>1
  <2>4. Rewriting = {c} /\ Rewriting' = {} BY <2>1, <2>2, <2>3 DEF Rewriting
  <2>5. Range(rest[c]) = {} BY <2>1 DEF Range
  <2>6. Shelf = Written(file) /\ Shelf' = Written(file) BY <2>1, <2>4, <2>5 DEF Shelf
  <2>7. ~AppendLine(c) /\ ~LockRewrite(c) BY <2>1 DEF AppendLine, LockRewrite
  <2> QED BY <2>6, <2>7
<1>6. CASE ~AppendLine(c) /\ ~LockRewrite(c) /\ ~EncodeRecord(c) /\ ~SyncRewrite(c)
  <2>1. file' = file BY <1>6, StepFile
  <2>2. \A d \in Clients : pc'[d] = "rewrite" <=> pc[d] = "rewrite"
    <3>1. /\ pc[c] # "rewrite"
          /\ \E to \in Pc \ {"rewrite"} : pc' = [pc EXCEPT ![c] = to]
      <4>1. CASE ReadCell(c)
        <5>1. pc' = [pc EXCEPT ![c] = "read"] /\ pc[c] = "read" BY <1>0, <4>1 DEF ReadCell
        <5> QED BY <5>1 DEF Pc
      <4>2. CASE ~ReadCell(c)
        BY <1>0, <1>6, <4>2 DEF Step, Lock, ReadCorrupt, ReadAnswers, ReadKeeps, RejectRed,
                          Admit, SyncAppend, LockAppend, Return, AtEOF, Pc
      <4> QED BY <4>1, <4>2
    <3> QED BY <1>0, <3>1
  <2>3. \A d \in Clients : pc[d] = "rewrite" => rest'[d] = rest[d]
    <3>1. CASE ReadKeeps(c)
      <4>1. pc[c] = "read" /\ \A d \in Clients \ {c} : rest'[d] = rest[d]
        BY <1>0, <3>1 DEF ReadKeeps, AtEOF
      <4> QED BY <4>1
    <3>2. CASE ~ReadKeeps(c)
      <4>1. rest' = rest
        BY <1>6, <3>2 DEF Step, Lock, ReadCell, ReadCorrupt, ReadAnswers, RejectRed,
                          Admit, SyncAppend, LockAppend
      <4> QED BY <4>1
    <3> QED BY <3>1, <3>2
  <2>4. Rewriting' = Rewriting BY <2>2 DEF Rewriting
  <2>5. \A d \in Rewriting : Range(rest'[d]) = Range(rest[d]) BY <2>3 DEF Rewriting
  <2> QED BY <1>6, <2>1, <2>4, <2>5 DEF Shelf
<1> QED BY <1>2, <1>3, <1>4, <1>5, <1>6

LEMMA ShelfStart ==
    ASSUME TypeInv, NEW c \in Clients, Start(c)
    PROVE  Shelf' = Shelf /\ Rewriting' = Rewriting
<1>1. /\ UNCHANGED <<file, rest>> /\ pc[c] = "idle"
      /\ pc' = [pc EXCEPT ![c] = "admit"] \/ pc' = [pc EXCEPT ![c] = "read"]
  BY DEF Start, StoreContextPlan, LoadPriorPlan, Load, Delete, Save, BeginRemoval, Begin
<1>2. \A d \in Clients : pc'[d] = "rewrite" <=> pc[d] = "rewrite"
  BY <1>1 DEF TypeInv, TypeOK
<1>3. Rewriting' = Rewriting BY <1>2 DEF Rewriting
<1> QED BY <1>1, <1>3 DEF Shelf

\* The plans of the running calls: no plan is in hand twice.
InHand(c) == IF pc[c] = "idle" THEN {} ELSE ToSet(call[c].todo)
HandInv ==
    /\ \A c \in Clients : InHand(c) \subseteq used
    /\ \A c \in Clients : pc[c] # "idle" => IsInjective(call[c].todo)
    /\ \A c, d \in Clients : c # d => InHand(c) \cap InHand(d) = {}

LEMMA Ends2 ==
    ASSUME NEW S, NEW todo \in Seq(S), todo # <<>>, IsInjective(todo)
    PROVE  /\ Head(todo) \in ToSet(todo) /\ Head(todo) \in S
           /\ Tail(todo) \in Seq(S) /\ IsInjective(Tail(todo))
           /\ ToSet(Tail(todo)) = ToSet(todo) \ {Head(todo)}
<1> DEFINE n == Len(todo)
           tail == Tail(todo)
<1>1. n \in Nat /\ n > 0 /\ DOMAIN todo = 1..n /\ \A i \in 1..n : todo[i] \in S
  <2>1. n \in Nat /\ DOMAIN todo = 1..n /\ \A i \in 1..n : todo[i] \in S OBVIOUS
  <2>2. n # 0 OBVIOUS
  <2> QED BY <2>1, <2>2
<1>2. tail \in Seq(S) /\ Len(tail) = n - 1 /\ \A i \in 1..(n - 1) : tail[i] = todo[i + 1] OBVIOUS
<1>3. Head(todo) = todo[1] OBVIOUS
<1>4. \A i, j \in 1..n : todo[i] = todo[j] => i = j BY <1>1 DEF IsInjective
<1> HIDE DEF n, tail
<1>5. DOMAIN tail = 1..(n - 1) BY <1>2
<1>6. \A i \in 1..(n - 1) : i + 1 \in 1..n /\ i + 1 # 1 BY <1>1
<1>7. IsInjective(tail)
  <2> SUFFICES ASSUME NEW i \in 1..(n - 1), NEW j \in 1..(n - 1), tail[i] = tail[j] PROVE i = j
    BY <1>5 DEF IsInjective
  <2>1. i + 1 = j + 1 BY <1>2, <1>4, <1>6
  <2> QED BY <2>1
<1>8. ToSet(todo) = {todo[i] : i \in 1..n} /\ ToSet(tail) = {tail[i] : i \in 1..(n - 1)}
  BY <1>1, <1>5 DEF ToSet
<1>9. 1 \in 1..n BY <1>1
<1>10. ToSet(tail) = ToSet(todo) \ {Head(todo)}
  <2>1. \A i \in 1..(n - 1) : tail[i] \in ToSet(todo) /\ tail[i] # Head(todo)
    BY <1>2, <1>3, <1>4, <1>6, <1>8, <1>9
  <2>2. \A i \in 1..n : i # 1 => i - 1 \in 1..(n - 1) /\ (i - 1) + 1 = i BY <1>1
  <2>3. \A i \in 1..n : i # 1 => todo[i] \in ToSet(tail)
    <3> SUFFICES ASSUME NEW i \in 1..n, i # 1 PROVE todo[i] \in ToSet(tail) OBVIOUS
    <3>1. tail[i - 1] = todo[i] /\ i - 1 \in 1..(n - 1) BY <1>2, <2>2
    <3> QED BY <1>8, <3>1
  <2> QED BY <1>3, <1>8, <2>1, <2>3
<1> QED BY <1>1, <1>2, <1>3, <1>7, <1>8, <1>9, <1>10 DEF tail

\* What a call begins with is new, and none of it is given twice.
LEMMA StartFresh ==
    ASSUME TypeInv, NEW c \in Clients, Start(c)
    PROVE  \E op \in OpName, s \in Sessions, todo \in Seq(Plans) :
              /\ \E first \in {"admit", "read"} :
                    /\ Begin(c, op, s, todo, first)
                    /\ first = "admit" <=> op = "store"
              /\ op = "store" => todo # <<>>
              /\ ToSet(todo) \cap used = {} /\ IsInjective(todo)
              /\ live' = IF op \in {"save", "delete"} THEN {r \in live : r.session # s} ELSE live
<1>1. <<>> \in Seq(Plans) /\ ToSet(<<>>) = {} /\ IsInjective(<<>>) BY DEF ToSet, IsInjective
<1>2. CASE StoreContextPlan(c)
  <2>1. PICK s \in Sessions, p \in Plans \ used : Begin(c, "store", s, <<p>>, "admit")
    BY <1>2 DEF StoreContextPlan
  <2>2. <<p>> \in Seq(Plans) /\ ToSet(<<p>>) = {p} /\ IsInjective(<<p>>) /\ <<p>> # <<>>
    BY DEF ToSet, IsInjective
  <2> QED BY <1>2, <2>1, <2>2 DEF StoreContextPlan, OpName
<1>3. CASE LoadPriorPlan(c)
  BY <1>1, <1>3 DEF LoadPriorPlan, OpName
<1>4. CASE Load(c) BY <1>1, <1>4 DEF Load, OpName
<1>5. CASE Delete(c) BY <1>1, <1>5 DEF Delete, BeginRemoval, OpName
<1>6. CASE Save(c)
  <2>1. PICK s \in Sessions, t \in FreshLists : BeginRemoval(c, "save", s, t)
    BY <1>6 DEF Save
  <2>2. PICK n \in 0..MaxSave : t \in [1..n -> Plans \ used] /\ IsInjective(t)
    BY DEF FreshLists
  <2>3. t \in Seq(Plans) BY <2>2
  <2>4. ToSet(t) \cap used = {} BY <2>2 DEF ToSet
  <2> QED BY <2>1, <2>2, <2>3, <2>4 DEF BeginRemoval, OpName
<1> QED BY <1>2, <1>3, <1>4, <1>5, <1>6 DEF Start

\* A call's plans, after a step of the call.
LEMMA StepHand ==
    ASSUME TypeInv, HandInv, NEW c \in Clients, Step(c) \/ Lock(c) \/ Fault(c)
    PROVE  /\ used' = used /\ pc[c] # "idle"
           /\ \A d \in Clients \ {c} : InHand(d)' = InHand(d) /\ call'[d] = call[d] /\ pc'[d] = pc[d]
           /\ ~SyncAppend(c) => call' = call /\ InHand(c)' \subseteq InHand(c)
           /\ SyncAppend(c) => /\ call' = [call EXCEPT ![c].todo = Tail(@)]
                               /\ call[c].todo # <<>>
                               /\ InHand(c)' \subseteq InHand(c) \ {Head(call[c].todo)}
           /\ pc'[c] # "idle" => IsInjective(call'[c].todo)
<1>0. pc \in [Clients -> Pc] /\ call \in [Clients -> CallRecord] BY DEF TypeInv, TypeOK
<1>1. used' = used
  BY DEF Step, Lock, Fault, ReadCell, ReadCorrupt, ReadAnswers, ReadKeeps, EncodeRecord,
         SyncRewrite, RejectRed, Admit, AppendLine, SyncAppend, LockRewrite, LockAppend,
         OpenFails, AppendFails, EncodeFails, SyncFails, Fail
<1>2. pc[c] # "idle"
  BY DEF Step, Lock, Fault, ReadCell, ReadCorrupt, ReadAnswers, ReadKeeps, EncodeRecord,
         SyncRewrite, RejectRed, Admit, AppendLine, SyncAppend, LockRewrite, LockAppend,
         OpenFails, AppendFails, EncodeFails, SyncFails, AtEOF
<1>3. \A d \in Clients \ {c} : pc'[d] = pc[d]
  BY <1>0
     DEF Step, Lock, Fault, ReadCell, ReadCorrupt, ReadAnswers, ReadKeeps, EncodeRecord,
         SyncRewrite, RejectRed, Admit, AppendLine, SyncAppend, LockRewrite, LockAppend,
         OpenFails, AppendFails, EncodeFails, SyncFails, Fail, Return
<1>4. ~SyncAppend(c) => call' = call
  BY DEF Step, Lock, Fault, ReadCell, ReadCorrupt, ReadAnswers, ReadKeeps, EncodeRecord,
         SyncRewrite, RejectRed, Admit, AppendLine, LockRewrite, LockAppend,
         OpenFails, AppendFails, EncodeFails, SyncFails, Fail
<1>5. CASE ~SyncAppend(c)
  BY <1>1, <1>2, <1>3, <1>4, <1>5 DEF InHand, HandInv
<1>6. CASE SyncAppend(c)
  <2>1. call' = [call EXCEPT ![c].todo = Tail(@)] /\ pc[c] = "syncAppend"
    BY <1>6 DEF SyncAppend
  <2>2. call[c].todo \in Seq(Plans) /\ call[c].todo # <<>> /\ IsInjective(call[c].todo)
    BY <1>0, <2>1 DEF HandInv, TypeInv, TodoKept, Appending, CallRecord
  <2>3. call'[c].todo = Tail(call[c].todo) /\ \A d \in Clients \ {c} : call'[d] = call[d]
    BY <1>0, <2>1 DEF CallRecord
  <2>4. /\ IsInjective(Tail(call[c].todo))
        /\ ToSet(Tail(call[c].todo)) = ToSet(call[c].todo) \ {Head(call[c].todo)}
    BY <2>2, Ends2
  <2>5. InHand(c)' \subseteq InHand(c) \ {Head(call[c].todo)}
    BY <1>2, <2>3, <2>4 DEF InHand
  <2>6. \A d \in Clients \ {c} : InHand(d)' = InHand(d) BY <1>3, <2>3 DEF InHand
  <2> QED BY <1>1, <1>2, <1>3, <1>6, <2>1, <2>2, <2>3, <2>4, <2>5, <2>6
<1> QED BY <1>5, <1>6

LEMMA HandKept == TypeInv /\ HandInv /\ [Next]_vars => HandInv'
<1> SUFFICES ASSUME TypeInv, HandInv, [Next]_vars PROVE HandInv' OBVIOUS
<1>1. ASSUME NEW c \in Clients, Step(c) \/ Lock(c) \/ Fault(c) PROVE HandInv'
  <2>1. InHand(c)' \subseteq InHand(c) BY <1>1, StepHand
  <2>2. \A d \in Clients : InHand(d)' \subseteq InHand(d) BY <1>1, <2>1, StepHand
  <2>3. \A d \in Clients : pc'[d] # "idle" => IsInjective(call'[d].todo)
    BY <1>1, StepHand DEF HandInv
  <2>4. used' = used BY <1>1, StepHand
  <2> QED BY <2>2, <2>3, <2>4 DEF HandInv
<1>2. ASSUME NEW c \in Clients, Start(c) PROVE HandInv'
  <2>1. PICK op \in OpName, s \in Sessions, todo \in Seq(Plans) :
          /\ \E first \in {"admit", "read"} : Begin(c, op, s, todo, first)
          /\ ToSet(todo) \cap used = {} /\ IsInjective(todo)
    BY <1>2, StartFresh
  <2>2. /\ pc'[c] # "idle" /\ call'[c].todo = todo
        /\ \A d \in Clients \ {c} : pc'[d] = pc[d] /\ call'[d] = call[d]
        /\ used' = used \cup ToSet(todo)
    BY <2>1 DEF Begin, TypeInv, TypeOK
  <2>3. InHand(c)' = ToSet(todo) /\ \A d \in Clients \ {c} : InHand(d)' = InHand(d)
    BY <2>2 DEF InHand
  <2>4. \A d \in Clients : InHand(d)' \subseteq used' BY <2>2, <2>3 DEF HandInv
  <2>5. \A d \in Clients : pc'[d] # "idle" => IsInjective(call'[d].todo)
    BY <2>1, <2>2 DEF HandInv
  <2>6. \A d, e \in Clients : d # e => InHand(d)' \cap InHand(e)' = {}
    BY <2>1, <2>3 DEF HandInv
  <2> QED BY <2>4, <2>5, <2>6 DEF HandInv
<1>3. CASE Kill \/ PowerLoss
  <2>1. \A c \in Clients : pc'[c] = "idle" BY <1>3 DEF Kill, PowerLoss, Restart
  <2> QED BY <2>1 DEF HandInv, InHand
<1>4. CASE UNCHANGED vars BY <1>4 DEF vars, HandInv, InHand
<1> QED BY <1>1, <1>2, <1>3, <1>4 DEF Next

-----------------------------------------------------------------------------
(* The acknowledged and the removed records.  A record whose plan has left *)
(* the callers' hands is never written again; that, and not the file, is   *)
(* why a removed record stays away.                                        *)

Handed(p) ==
    /\ p \in used
    /\ \A c \in Clients : p \in InHand(c) => pc[c] = "syncAppend" /\ p = Head(call[c].todo)

LedgerInv ==
    Steady =>
      /\ \A r \in live \cup gone \cup Shelf \cup UNION {noted[c] : c \in Clients} : Handed(r.plan)
      /\ live \subseteq Shelf
      /\ gone \cap Shelf = {}
      /\ \A c \in Clients : pc[c] = "syncAppend" => Target(c) \in Shelf
      /\ \A c \in Clients : Removing(c) => \A r \in live : r.session # call[c].session
      /\ \A c \in Clients : pc[c] = "rewrite" => \A r \in Shelf : r.session # call[c].session
      /\ \A c \in Clients : pc[c] # "idle" => \A r \in noted[c] : r.session = call[c].session

\* What a step does to the calls and the history, besides the Shelf.
LEMMA LedgerStep ==
    ASSUME TypeInv, NEW c \in Clients, Step(c) \/ Lock(c)
    PROVE  /\ noted' = noted
           /\ ~SyncAppend(c) => live' = live
           /\ SyncAppend(c) =>
                \/ live' = live
                \/ /\ live' = live \cup {Target(c)}
                   /\ \A d \in Clients : Removing(d) => call[d].session # Target(c).session
           /\ ~SyncRewrite(c) => gone' = gone
           /\ SyncRewrite(c) => gone' = gone \cup noted[c] /\ pc[c] = "rewrite"
           /\ \A d \in Clients : call'[d].session = call[d].session /\ call'[d].op = call[d].op
           /\ \A d \in Clients : pc'[d] # "idle" => pc[d] # "idle"
           /\ \A d \in Clients : Removing(d)' => Removing(d)
           /\ \A d \in Clients : pc'[d] = "syncAppend" /\ ~AppendLine(c) => pc[d] = "syncAppend" /\ d # c
           /\ \A d \in Clients : pc'[d] = "rewrite" /\ ~LockRewrite(c) => pc[d] = "rewrite"
<1>0. pc \in [Clients -> Pc] /\ call \in [Clients -> CallRecord] BY DEF TypeInv, TypeOK
<1>1. noted' = noted
  BY DEF Step, Lock, ReadCell, ReadCorrupt, ReadAnswers, ReadKeeps, EncodeRecord,
         SyncRewrite, RejectRed, Admit, AppendLine, SyncAppend, LockRewrite, LockAppend, histVars
<1>2. ~SyncAppend(c) => live' = live /\ call' = call
  BY DEF Step, Lock, ReadCell, ReadCorrupt, ReadAnswers, ReadKeeps, EncodeRecord,
         SyncRewrite, RejectRed, Admit, AppendLine, LockRewrite, LockAppend, histVars
<1>3. SyncAppend(c) =>
         \/ live' = live
         \/ /\ live' = live \cup {Target(c)}
            /\ \A d \in Clients : Removing(d) => call[d].session # Target(c).session
  BY DEF SyncAppend
<1>4. ~SyncRewrite(c) => gone' = gone
  BY DEF Step, Lock, ReadCell, ReadCorrupt, ReadAnswers, ReadKeeps, EncodeRecord,
         RejectRed, Admit, AppendLine, SyncAppend, LockRewrite, LockAppend, histVars
<1>5. SyncRewrite(c) => gone' = gone \cup noted[c] /\ pc[c] = "rewrite" BY DEF SyncRewrite
<1>6. \A d \in Clients : call'[d].session = call[d].session /\ call'[d].op = call[d].op
  <2>1. CASE SyncAppend(c)
    <3>1. call' = [call EXCEPT ![c].todo = Tail(@)] BY <2>1 DEF SyncAppend
    <3> QED BY <1>0, <3>1
  <2> QED BY <1>2, <2>1
<1>7. /\ pc[c] # "idle"
      /\ \E to \in Pc :
           /\ pc' = [pc EXCEPT ![c] = to]
           /\ to = "read" => pc[c] = "read"
           /\ to = "lockRewrite" => pc[c] = "read" /\ call[c].op \in {"save", "delete"}
           /\ to = "rewrite" => pc[c] = "rewrite" \/ (LockRewrite(c) /\ pc[c] = "lockRewrite")
           /\ to = "syncAppend" => AppendLine(c)
  <2>1. CASE ReadCell(c) \/ EncodeRecord(c)
    <3>1. pc' = [pc EXCEPT ![c] = pc[c]] /\ pc[c] \in {"read", "rewrite"}
      BY <1>0, <2>1 DEF ReadCell, EncodeRecord
    <3> QED BY <1>0, <3>1
  <2>2. CASE ~ReadCell(c) /\ ~EncodeRecord(c)
    BY <2>2 DEF Step, Lock, ReadCorrupt, ReadAnswers, ReadKeeps, SyncRewrite, RejectRed, Admit,
                AppendLine, SyncAppend, LockRewrite, LockAppend, Return, AtEOF, Pc
  <2> QED BY <2>1, <2>2
<1>8. PICK to \in Pc :
           /\ pc' = [pc EXCEPT ![c] = to]
           /\ to = "read" => pc[c] = "read"
           /\ to = "lockRewrite" => pc[c] = "read" /\ call[c].op \in {"save", "delete"}
           /\ to = "rewrite" => pc[c] = "rewrite" \/ (LockRewrite(c) /\ pc[c] = "lockRewrite")
           /\ to = "syncAppend" => AppendLine(c)
  BY <1>7
<1>9. pc'[c] = to /\ \A d \in Clients \ {c} : pc'[d] = pc[d] BY <1>0, <1>8
<1>10. \A d \in Clients : pc'[d] # "idle" => pc[d] # "idle" BY <1>7, <1>9
<1>11. \A d \in Clients : Removing(d)' => Removing(d)
  BY <1>6, <1>8, <1>9 DEF Removing
<1>12. \A d \in Clients : pc'[d] = "syncAppend" /\ ~AppendLine(c) => pc[d] = "syncAppend" /\ d # c
  BY <1>8, <1>9
<1>13. \A d \in Clients : pc'[d] = "rewrite" /\ ~LockRewrite(c) => pc[d] = "rewrite"
  BY <1>8, <1>9
<1> QED BY <1>1, <1>2, <1>3, <1>4, <1>5, <1>6, <1>10, <1>11, <1>12, <1>13

\* A plan that has left its caller's hands does not come back to them.
LEMMA HandedStep ==
    ASSUME TypeInv, HandInv, NEW c \in Clients, Step(c) \/ Lock(c), NEW p, Handed(p)
    PROVE  Handed(p)'
<1>1. /\ used' = used
      /\ \A d \in Clients \ {c} : InHand(d)' = InHand(d) /\ call'[d] = call[d] /\ pc'[d] = pc[d]
  BY StepHand
<1>2. CASE SyncAppend(c)
  <2>1. InHand(c)' \subseteq InHand(c) \ {Head(call[c].todo)} BY <1>2, StepHand
  <2>2. p \notin InHand(c)' BY <2>1 DEF Handed
  <2> QED BY <1>1, <2>2 DEF Handed
<1>3. CASE ~SyncAppend(c)
  <2>1. pc[c] # "syncAppend"
    BY <1>3 DEF Step, Lock, ReadCell, ReadCorrupt, ReadAnswers, ReadKeeps, EncodeRecord,
         SyncRewrite, RejectRed, Admit, AppendLine, LockRewrite, LockAppend, AtEOF
  <2>2. InHand(c)' \subseteq InHand(c) BY <1>3, StepHand
  <2>3. p \notin InHand(c)' BY <2>1, <2>2 DEF Handed
  <2> QED BY <1>1, <2>3 DEF Handed
<1> QED BY <1>2, <1>3

LEMMA HandedStart ==
    ASSUME TypeInv, NEW c \in Clients, Start(c), NEW p, Handed(p)
    PROVE  Handed(p)'
<1>1. PICK op \in OpName, s \in Sessions, todo \in Seq(Plans) :
        /\ \E first \in {"admit", "read"} : Begin(c, op, s, todo, first)
        /\ ToSet(todo) \cap used = {}
  BY StartFresh
<1>2. /\ pc'[c] # "idle" /\ call'[c].todo = todo
      /\ \A d \in Clients \ {c} : pc'[d] = pc[d] /\ call'[d] = call[d]
      /\ used' = used \cup ToSet(todo)
  BY <1>1 DEF Begin, TypeInv, TypeOK
<1>3. InHand(c)' = ToSet(todo) /\ \A d \in Clients \ {c} : InHand(d)' = InHand(d)
  BY <1>2 DEF InHand
<1>4. p \in used /\ p \notin InHand(c)' BY <1>1, <1>3 DEF Handed
<1> QED BY <1>2, <1>3, <1>4 DEF Handed

\* AppendLine hands its plan over.
LEMMA HandedNow ==
    ASSUME TypeInv, HandInv, NEW c \in Clients, AppendLine(c)
    PROVE  Handed(Target(c).plan)' /\ ~Handed(Target(c).plan) /\ Target(c)' = Target(c)
<1>1. /\ pc[c] = "append" /\ pc' = [pc EXCEPT ![c] = "syncAppend"]
      /\ call' = call /\ used' = used /\ pc \in [Clients -> Pc]
      /\ call[c].todo \in Seq(Plans) /\ call[c].todo # <<>> /\ IsInjective(call[c].todo)
  BY DEF AppendLine, TypeInv, TypeOK, TodoKept, Appending, CallRecord, HandInv
<1>2. Head(call[c].todo) \in InHand(c) BY <1>1, Ends2 DEF InHand
<1>3. \A d \in Clients : InHand(d)' = InHand(d) BY <1>1 DEF InHand
<1>4. pc'[c] = "syncAppend" BY <1>1
<1>5. Target(c).plan = Head(call[c].todo) BY DEF Target, Filed
<1>6. Target(c)' = Target(c) BY <1>1 DEF Target, Filed
<1>7. \A d \in Clients \ {c} : Head(call[c].todo) \notin InHand(d) BY <1>2 DEF HandInv
<1>8. Head(call[c].todo) \in used BY <1>2 DEF HandInv
<1>9. ~Handed(Target(c).plan) BY <1>1, <1>2, <1>5 DEF Handed
<1>10. Handed(Head(call[c].todo))' BY <1>1, <1>3, <1>4, <1>7, <1>8 DEF Handed
<1>11. Handed(Target(c).plan)' BY <1>1, <1>3, <1>4, <1>7, <1>8 DEF Handed, Target, Filed
<1> QED BY <1>6, <1>9, <1>11

LEMMA LedgerCall ==
    ASSUME Settled, TypeInv, CallInv, TidyInv, ReadInv, HandInv, LedgerInv, Steady,
           NEW c \in Clients, Step(c) \/ Lock(c)
    PROVE  LedgerInv'
<1> DEFINE known == live \cup gone \cup Shelf \cup UNION {noted[d] : d \in Clients}
<1>0. pc \in [Clients -> Pc] BY DEF TypeInv, TypeOK
<1>1. /\ \A r \in known : Handed(r.plan)
      /\ live \subseteq Shelf /\ gone \cap Shelf = {}
      /\ \A d \in Clients : pc[d] = "syncAppend" => Target(d) \in Shelf
      /\ \A d \in Clients : Removing(d) => \A r \in live : r.session # call[d].session
      /\ \A d \in Clients : pc[d] = "rewrite" => \A r \in Shelf : r.session # call[d].session
      /\ \A d \in Clients : pc[d] # "idle" => \A r \in noted[d] : r.session = call[d].session
  BY DEF LedgerInv
<1>2. /\ AppendLine(c) => Shelf' = Shelf \cup {Target(c)}
      /\ LockRewrite(c) => /\ Shelf' = {r \in Shelf : r.session # call[c].session}
                           /\ Rewriting' = {c}
      /\ ~AppendLine(c) /\ ~LockRewrite(c) => Shelf' = Shelf
  BY ShelfStep
<1>3. \A d \in Clients \ {c} : Target(d)' = Target(d) BY StepHand DEF Target, Filed
<1>4. /\ noted' = noted
      /\ \A d \in Clients : call'[d].session = call[d].session
      /\ \A d \in Clients : pc'[d] # "idle" => pc[d] # "idle"
      /\ \A d \in Clients : Removing(d)' => Removing(d)
  BY LedgerStep
<1>5. \A d \in Clients : pc'[d] # "idle" => \A r \in noted'[d] : r.session = call'[d].session
  BY <1>1, <1>4
<1>6. \A p : Handed(p) => Handed(p)' BY HandedStep
<1>7. \A r \in known \cup IF AppendLine(c) THEN {Target(c)} ELSE {} : Handed(r.plan)'
  BY <1>1, <1>6, HandedNow
<1>8. live' \subseteq live \cup IF SyncAppend(c) THEN {Target(c)} ELSE {} BY LedgerStep
<1>9. SyncAppend(c) => Target(c) \in Shelf BY <1>1 DEF SyncAppend
<1>10. Shelf' \subseteq known \cup IF AppendLine(c) THEN {Target(c)} ELSE {} BY <1>2
<1>11. known' \subseteq known \cup IF AppendLine(c) THEN {Target(c)} ELSE {}
  <2>1. gone' \subseteq gone \cup noted[c] BY LedgerStep
  <2>2. noted[c] \subseteq UNION {noted[d] : d \in Clients} OBVIOUS
  <2> QED BY <1>4, <1>8, <1>9, <1>10, <2>1, <2>2
<1>12. \A r \in known' : Handed(r.plan)' BY <1>7, <1>11
<1>13. \A d \in Clients : Removing(d)' => \A r \in live' : r.session # call'[d].session
  <2>1. CASE live' = live BY <1>1, <1>4, <2>1
  <2>2. CASE live' # live
    <3>1. /\ live' = live \cup {Target(c)}
          /\ \A d \in Clients : Removing(d) => call[d].session # Target(c).session
      BY <2>2, LedgerStep
    <3> QED BY <1>1, <1>4, <3>1
  <2> QED BY <2>1, <2>2
<1>14. CASE AppendLine(c)
  <2>1. /\ pc[c] = "append" /\ pc' = [pc EXCEPT ![c] = "syncAppend"]
        /\ ~SyncAppend(c) /\ ~SyncRewrite(c) /\ ~LockRewrite(c)
    BY <1>14 DEF AppendLine, SyncAppend, SyncRewrite, LockRewrite
  <2>2. Shelf' = Shelf \cup {Target(c)} /\ live' = live /\ gone' = gone
    BY <1>2, <1>14, <2>1, LedgerStep
  <2>3. Target(c) \notin gone BY <1>1, <1>14, HandedNow
  <2>4. \A d \in Clients : pc'[d] = "syncAppend" => Target(d)' \in Shelf'
    <3>1. Target(c)' = Target(c) BY <1>14, HandedNow
    <3>2. \A d \in Clients \ {c} : pc'[d] = pc[d] BY <2>1, <1>0
    <3> QED BY <1>1, <1>3, <2>2, <3>1, <3>2
  <2>5. \A d \in Clients : pc'[d] # "rewrite"
    <3> SUFFICES ASSUME NEW d \in Clients, pc'[d] = "rewrite" PROVE FALSE OBVIOUS
    <3>1. pc[d] = "rewrite" BY <2>1, LedgerStep
    <3>2. c = d BY <3>1, Solo
    <3> QED BY <2>1, <3>1, <3>2
  <2> QED BY <1>1, <1>5, <1>12, <1>13, <2>2, <2>3, <2>4, <2>5 DEF LedgerInv
<1>15. CASE LockRewrite(c)
  <2>1. /\ pc[c] = "lockRewrite" /\ pc' = [pc EXCEPT ![c] = "rewrite"]
        /\ ~SyncAppend(c) /\ ~SyncRewrite(c) /\ ~AppendLine(c)
    BY <1>15 DEF AppendLine, SyncAppend, SyncRewrite, LockRewrite
  <2>2. Shelf' = {r \in Shelf : r.session # call[c].session} /\ live' = live /\ gone' = gone
    BY <1>2, <1>15, <2>1, LedgerStep
  <2>3. \A d \in Clients : d = c BY <2>1, Solo
  <2>4. Removing(c) BY <2>1 DEF Removing, CallInv
  <2>5. live' \subseteq Shelf' BY <1>1, <2>2, <2>4
  <2>6. \A d \in Clients : pc'[d] # "syncAppend" BY <2>1, <2>3, <1>0
  <2>7. \A d \in Clients : \A r \in Shelf' : r.session # call'[d].session BY <1>4, <2>2, <2>3
  <2>8. gone' \cap Shelf' = {} BY <1>1, <2>2
  <2> QED BY <1>5, <1>12, <1>13, <2>5, <2>6, <2>7, <2>8 DEF LedgerInv
<1>16. CASE ~AppendLine(c) /\ ~LockRewrite(c)
  <2>1. Shelf' = Shelf BY <1>2, <1>16
  <2>2. live' \subseteq Shelf' BY <1>1, <1>8, <1>9, <2>1
  <2>3. \A d \in Clients : pc'[d] = "syncAppend" => Target(d)' \in Shelf'
    <3>1. \A d \in Clients : pc'[d] = "syncAppend" => pc[d] = "syncAppend" /\ d # c
      BY <1>16, LedgerStep
    <3> QED BY <1>1, <1>3, <2>1, <3>1
  <2>4. \A d \in Clients : pc'[d] = "rewrite" => \A r \in Shelf' : r.session # call'[d].session
    <3>1. \A d \in Clients : pc'[d] = "rewrite" => pc[d] = "rewrite" BY <1>16, LedgerStep
    <3> QED BY <1>1, <1>4, <2>1, <3>1
  <2>5. gone' \cap Shelf' = {}
    <3>1. CASE SyncRewrite(c)
      <4>1. gone' = gone \cup noted[c] /\ pc[c] = "rewrite" BY <3>1, LedgerStep
      <4>2. \A r \in noted[c] : r \notin Shelf BY <1>1, <4>1
      <4> QED BY <1>1, <2>1, <4>1, <4>2
    <3>2. CASE ~SyncRewrite(c)
      <4>1. gone' = gone BY <3>2, LedgerStep
      <4> QED BY <1>1, <2>1, <4>1
    <3> QED BY <3>1, <3>2
  <2> QED BY <1>5, <1>12, <1>13, <2>2, <2>3, <2>4, <2>5 DEF LedgerInv
<1> QED BY <1>14, <1>15, <1>16

LEMMA LedgerStart ==
    ASSUME TypeInv, LedgerInv, Steady, NEW c \in Clients, Start(c)
    PROVE  LedgerInv'
<1> DEFINE known == live \cup gone \cup Shelf \cup UNION {noted[d] : d \in Clients}
<1>1. /\ \A r \in known : Handed(r.plan)
      /\ live \subseteq Shelf /\ gone \cap Shelf = {}
      /\ \A d \in Clients : pc[d] = "syncAppend" => Target(d) \in Shelf
      /\ \A d \in Clients : Removing(d) => \A r \in live : r.session # call[d].session
      /\ \A d \in Clients : pc[d] = "rewrite" => \A r \in Shelf : r.session # call[d].session
      /\ \A d \in Clients : pc[d] # "idle" => \A r \in noted[d] : r.session = call[d].session
  BY DEF LedgerInv
<1>2. PICK op \in OpName, s \in Sessions, todo \in Seq(Plans) :
        /\ \E first \in {"admit", "read"} :
              /\ Begin(c, op, s, todo, first)
              /\ first = "admit" <=> op = "store"
        /\ op = "store" => todo # <<>>
        /\ ToSet(todo) \cap used = {} /\ IsInjective(todo)
        /\ live' = IF op \in {"save", "delete"} THEN {r \in live : r.session # s} ELSE live
  BY StartFresh
<1>3. /\ pc'[c] \in {"admit", "read"} /\ call'[c].session = s /\ call'[c].op = op
      /\ gone' = gone /\ noted'[c] = {r \in live : r.session = s}
      /\ \A d \in Clients \ {c} : pc'[d] = pc[d] /\ call'[d] = call[d] /\ noted'[d] = noted[d]
  BY <1>2 DEF Begin, TypeInv, TypeOK
<1>4. Shelf' = Shelf BY ShelfStart
<1>5. live' \subseteq live BY <1>2
<1>6. known' \subseteq known
  <2>1. \A d \in Clients : noted'[d] \subseteq known BY <1>3
  <2> QED BY <1>3, <1>4, <1>5, <2>1
<1>7. \A p : Handed(p) => Handed(p)' BY HandedStart
<1>8. \A r \in known' : Handed(r.plan)' BY <1>1, <1>6, <1>7
<1>9. \A d \in Clients : pc'[d] = "syncAppend" => Target(d)' \in Shelf'
  BY <1>1, <1>3, <1>4 DEF Target, Filed
<1>10. \A d \in Clients : Removing(d)' => \A r \in live' : r.session # call'[d].session
  <2>1. Removing(c)' => \A r \in live' : r.session # call'[c].session
    BY <1>2, <1>3 DEF Removing
  <2>2. \A d \in Clients \ {c} : Removing(d)' => Removing(d) BY <1>3 DEF Removing
  <2> QED BY <1>1, <1>3, <1>5, <2>1, <2>2
<1>11. \A d \in Clients : pc'[d] = "rewrite" => \A r \in Shelf' : r.session # call'[d].session
  BY <1>1, <1>3, <1>4
<1>12. \A d \in Clients : pc'[d] # "idle" => \A r \in noted'[d] : r.session = call'[d].session
  BY <1>1, <1>3
<1> QED BY <1>1, <1>3, <1>4, <1>5, <1>8, <1>9, <1>10, <1>11, <1>12 DEF LedgerInv

LEMMA LedgerKept ==
    ASSUME Settled
    PROVE  /\ TypeInv /\ CallInv /\ TidyInv /\ ReadInv /\ HandInv /\ LedgerInv /\ [Next]_vars
           => LedgerInv'
<1> SUFFICES ASSUME TypeInv, CallInv, TidyInv, ReadInv, HandInv, LedgerInv, [Next]_vars, Steady'
             PROVE  LedgerInv'
  BY DEF LedgerInv
<1>1. Steady /\ (\/ \E c \in Clients : Start(c) \/ Step(c) \/ Lock(c)
                 \/ UNCHANGED vars)
  BY SteadyNext
<1>2. CASE UNCHANGED vars
  <2>1. Shelf' = Shelf /\ (\A c \in Clients : Target(c)' = Target(c) /\ Removing(c)' = Removing(c))
        /\ \A p : Handed(p)' <=> Handed(p)
    BY <1>2 DEF vars, Shelf, Rewriting, Target, Filed, Removing, Handed, InHand
  <2> QED BY <1>1, <1>2, <2>1 DEF vars, LedgerInv
<1> QED BY <1>1, <1>2, LedgerCall, LedgerStart

LEMMA LedgerTruth ==
    ASSUME Settled
    PROVE  Spec => [](TypeInv /\ LockInv /\ CallInv /\ TidyInv /\ ReadInv /\ HandInv /\ LedgerInv)
<1>1. Init => LockInv /\ CallInv /\ TidyInv /\ ReadInv /\ HandInv /\ LedgerInv
  <2> SUFFICES ASSUME Init PROVE LockInv /\ CallInv /\ TidyInv /\ ReadInv /\ HandInv /\ LedgerInv
    OBVIOUS
  <2>1. LockInv /\ CallInv /\ TidyInv BY TidyNothing DEF Init, LockInv, Holding, CallInv, TidyInv
  <2>2. ReadInv /\ HandInv BY DEF Init, ReadInv, HandInv, InHand
  <2>3. Shelf = {} BY TidyNothing DEF Init, Shelf, Rewriting, Written
  <2>4. LedgerInv BY <2>3 DEF Init, LedgerInv, Removing
  <2> QED BY <2>1, <2>2, <2>4
<1>2. Ordered BY SettledOrdered
<1>3. TypeInv /\ LockInv /\ CallInv /\ TidyInv /\ [Next]_vars => TidyInv' BY <1>2, TidyKept
<1>4. TypeInv /\ CallInv /\ ReadInv /\ [Next]_vars => ReadInv' BY ReadKept
<1>5. TypeInv /\ CallInv /\ TidyInv /\ ReadInv /\ HandInv /\ LedgerInv /\ [Next]_vars => LedgerInv'
  BY LedgerKept
<1> QED BY <1>1, <1>3, <1>4, <1>5, InitType, NextType, LockKept, CallKept, HandKept, PTL DEF Spec

\* An acknowledged plan that nobody asked to delete is in the file or still to
\* be written by the running rewrite, until a system call fails or the process
\* ends, for one goroutine or for any number that only append.
THEOREM AcknowledgedIsKept ==
    ASSUME Settled
    PROVE  Spec => [](Steady => LiveKept)
<1>1. ASSUME TypeInv, TidyInv, LedgerInv, Steady PROVE LiveKept
  <2> SUFFICES ASSUME NEW r \in live, r \notin RecordsIn(file)
               PROVE  \E c \in Clients : pc[c] = "rewrite" /\ r \in Range(rest[c])
    BY DEF LiveKept
  <2>1. r \in Shelf BY <1>1 DEF LedgerInv
  <2>2. RecordsIn(file) = Written(file) BY <1>1, RecordsAre DEF TidyInv
  <2> QED BY <2>1, <2>2 DEF Shelf, Rewriting
<1>2. TypeInv /\ TidyInv /\ LedgerInv => (Steady => LiveKept) BY <1>1
<1> QED BY <1>2, LedgerTruth, PTL

\* A record whose removal was acknowledged does not come back, under the same
\* conditions: what a rewrite writes is what the file held of other sessions.
THEOREM RemovedStaysAway ==
    ASSUME Settled
    PROVE  Spec => [](Steady => GoneStaysGone)
<1>1. TypeInv /\ TidyInv /\ LedgerInv => (Steady => GoneStaysGone)
  BY RecordsAre DEF TidyInv, LedgerInv, GoneStaysGone, Shelf
<1> QED BY <1>1, LedgerTruth, PTL

-----------------------------------------------------------------------------
(* Reads.  A read that ends has read the file as it is at that instant, so *)
(* it finds what is acknowledged of its session.                           *)

\* A running call has not answered.
ResultInv == \A c \in Clients : pc[c] # "idle" => result[c] = Pending

LEMMA ResultKept == TypeInv /\ ResultInv /\ [Next]_vars => ResultInv'
<1> SUFFICES ASSUME TypeInv, ResultInv, [Next]_vars PROVE ResultInv' OBVIOUS
<1>0. pc \in [Clients -> Pc] /\ DOMAIN result = Clients BY DEF TypeInv, TypeOK
<1> USE DEF ResultInv
<1>1. ASSUME NEW c \in Clients, Start(c) PROVE ResultInv'
  <2>1. result' = [result EXCEPT ![c] = Pending] /\ \A d \in Clients \ {c} : pc'[d] = pc[d]
    BY <1>0, <1>1 DEF Start, StoreContextPlan, LoadPriorPlan, Load, Delete, Save, BeginRemoval, Begin
  <2> QED BY <1>0, <2>1
<1>2. ASSUME NEW c \in Clients, Step(c) \/ Lock(c) \/ Fault(c) PROVE ResultInv'
  <2>1. \/ result' = result
        \/ \E status, recs : Return(c, status, recs)
    BY <1>2 DEF Step, Lock, Fault, ReadCell, ReadCorrupt, ReadAnswers, ReadKeeps, EncodeRecord,
         SyncRewrite, RejectRed, Admit, AppendLine, SyncAppend, LockRewrite, LockAppend,
         OpenFails, AppendFails, EncodeFails, SyncFails, Fail
  <2>2. pc[c] # "idle" /\ \A d \in Clients \ {c} : pc'[d] = pc[d]
    <3>1. pc[c] # "idle"
      BY <1>2 DEF Step, Lock, Fault, ReadCell, ReadCorrupt, ReadAnswers, ReadKeeps, EncodeRecord,
           SyncRewrite, RejectRed, Admit, AppendLine, SyncAppend, LockRewrite, LockAppend,
           OpenFails, AppendFails, EncodeFails, SyncFails, AtEOF
    <3>2. \A d \in Clients \ {c} : pc'[d] = pc[d]
      BY <1>0, <1>2 DEF Step, Lock, Fault, ReadCell, ReadCorrupt, ReadAnswers, ReadKeeps,
           EncodeRecord, SyncRewrite, RejectRed, Admit, AppendLine, SyncAppend, LockRewrite,
           LockAppend, OpenFails, AppendFails, EncodeFails, SyncFails, Fail, Return
    <3> QED BY <3>1, <3>2
  <2>3. CASE result' = result BY <2>2, <2>3
  <2>4. CASE \E status, recs : Return(c, status, recs)
    <3>1. pc'[c] = "idle" /\ \A d \in Clients \ {c} : result'[d] = result[d]
      BY <1>0, <2>4 DEF Return
    <3> QED BY <2>2, <3>1
  <2> QED BY <2>1, <2>3, <2>4
<1>3. CASE Kill \/ PowerLoss
  <2>1. \A c \in Clients : pc'[c] = "idle" BY <1>3 DEF Kill, PowerLoss, Restart
  <2> QED BY <2>1
<1>4. CASE UNCHANGED vars BY <1>4 DEF vars
<1> QED BY <1>1, <1>2, <1>3, <1>4 DEF Next

\* The newest record of a session, if the session has any.
LEMMA NewestThere ==
    ASSUME NEW b \in Seq(Cell), NEW s, NEW r \in Written(b), r.session = s
    PROVE  DOMAIN OfSession(Parsed(b), s) # {} /\ DOMAIN Newest(Parsed(b), s) # {}
<1> DEFINE own == OfSession(Parsed(b), s)
<1>1. PICK e \in LineEnds(b) : r = b[e - 1].rec BY DEF Written
<1>2. e \in DOMAIN own BY <1>1, ParsedIs DEF OfSession, Restrict
<1>3. DOMAIN own \in SUBSET (0..(Len(b) + 1))
  <2>1. DOMAIN own \subseteq LineEnds(b) BY ParsedIs DEF OfSession, Restrict
  <2>2. Len(b) \in Nat OBVIOUS
  <2>3. Ends(b) \subseteq 0..(Len(b) + 1) BY <2>2 DEF Ends
  <2> QED BY <2>1, <2>3 DEF LineEnds
<1>4. Len(b) + 1 \in Nat OBVIOUS
<1>5. PICK x \in DOMAIN own : \A y \in DOMAIN own : y <= x BY <1>2, <1>3, <1>4, Greatest
<1>6. x \in DOMAIN Newest(Parsed(b), s) BY <1>5 DEF Newest, Restrict
<1> QED BY <1>2, <1>6

LEMMA AnswerFinds ==
    ASSUME Settled, Fits, TypeInv, CallInv, TidyInv, ReadInv, LedgerInv, ResultInv,
           [Next]_vars, Steady, Steady',
           NEW c \in Clients, pc[c] = "read", call[c].op \in {"prior", "load"},
           result'[c].status \in {"ok", "corrupt"}, noted[c] \cap live # {}
    PROVE  DOMAIN result'[c].recs # {}
<1>0. /\ pc \in [Clients -> Pc] /\ file \in Seq(Cell) /\ buf \in [Clients -> Seq(Cell)]
      /\ DOMAIN result = Clients
  BY DEF TypeInv, TypeOK
<1>1. result'[c] # result[c] BY DEF ResultInv, Pending
<1>2. ReadCorrupt(c) \/ ReadAnswers(c)
  <2>1. result' # result BY <1>1
  <2>2. PICK d \in Clients : Start(d) \/ Step(d) \/ Lock(d)
    BY <2>1, SteadyNext DEF vars
  <2>3. ~Start(d)
    <3> SUFFICES ASSUME Start(d) PROVE FALSE OBVIOUS
    <3>1. pc[d] = "idle" /\ result' = [result EXCEPT ![d] = Pending]
      BY DEF Start, StoreContextPlan, LoadPriorPlan, Load, Delete, Save, BeginRemoval, Begin
    <3> QED BY <1>0, <1>1, <3>1
  <2>4. \/ ReadCorrupt(d) \/ ReadAnswers(d)
        \/ SyncRewrite(d) \/ RejectRed(d) \/ SyncAppend(d)
    BY <2>1, <2>2, <2>3
       DEF Step, Lock, ReadCell, ReadKeeps, EncodeRecord, Admit, AppendLine, LockRewrite, LockAppend
  <2>5. result' = result \/ \E status, recs : result' = [result EXCEPT ![d] = [status |-> status, recs |-> recs]]
    BY <2>4 DEF ReadCorrupt, ReadAnswers, SyncRewrite, RejectRed, SyncAppend, Return
  <2>6. d = c BY <1>0, <1>1, <2>1, <2>5
  <2>7. ~SyncRewrite(c) /\ ~RejectRed(c) /\ ~SyncAppend(c)
    BY DEF SyncRewrite, RejectRed, SyncAppend
  <2> QED BY <2>4, <2>6, <2>7
<1>3. buf[c] = file
  <2>1. Extends(buf[c], file) BY DEF ReadInv
  <2>2. Len(buf[c]) >= Len(file) BY <1>2 DEF ReadCorrupt, ReadAnswers, AtEOF
  <2> QED BY <1>0, <2>1, <2>2, ReadAll
<1>4. ReadAnswers(c)
  <2>1. Readable(file) BY <1>0, TidyReadable DEF TidyInv
  <2> QED BY <1>2, <1>3, <2>1 DEF ReadCorrupt
<1>5. PICK r \in noted[c] \cap live : TRUE OBVIOUS
<1>6. r.session = call[c].session /\ r \in Shelf BY <1>5 DEF LedgerInv
<1>7. Rewriting = {}
  <2> SUFFICES ASSUME NEW d \in Clients, pc[d] = "rewrite" PROVE FALSE BY DEF Rewriting
  <2>1. c = d BY Solo
  <2> QED BY <2>1
<1>8. r \in Written(file) BY <1>6, <1>7 DEF Shelf
<1>9. /\ DOMAIN OfSession(Parsed(file), call[c].session) # {}
      /\ DOMAIN Newest(Parsed(file), call[c].session) # {}
  BY <1>0, <1>6, <1>8, NewestThere
<1>10. \/ result'[c].recs = Newest(Parsed(file), call[c].session)
       \/ result'[c].recs = OfSession(Parsed(file), call[c].session)
  BY <1>0, <1>3, <1>4 DEF ReadAnswers, Return
<1> QED BY <1>9, <1>10

\* A read of a session with an acknowledged plan that nobody asked to delete
\* returns a plan, while no system call fails and the process runs, for one
\* goroutine or for any number that only append, and plans that fit the buffer.
THEOREM ReadsFind ==
    ASSUME Settled, Fits
    PROVE  Spec /\ []Steady => LoadFinds
<1> DEFINE Finds == \A c \in Clients :
             /\ pc[c] = "read" /\ call[c].op \in {"prior", "load"}
             /\ result'[c].status \in {"ok", "corrupt"}
             /\ noted[c] \cap live # {}
             => DOMAIN result'[c].recs # {}
           Inv == TypeInv /\ CallInv /\ TidyInv /\ ReadInv /\ LedgerInv /\ ResultInv
<1>1. Inv /\ Steady /\ Steady' /\ [Next]_vars => [Finds]_vars BY AnswerFinds
<1>2. LoadFinds <=> [][Finds]_vars BY Zenon DEF LoadFinds
<1>3. Init => ResultInv BY DEF Init, ResultInv
<1>4. Spec => []Inv
  <2>1. Spec => []ResultInv BY <1>3, InitType, NextType, ResultKept, PTL DEF Spec
  <2> QED BY <2>1, LedgerTruth, PTL
<1>5. Spec => [][Next]_vars BY PTL DEF Spec
<1> HIDE DEF Inv, Finds
<1> QED BY <1>1, <1>2, <1>4, <1>5, PTL

-----------------------------------------------------------------------------
(* Records from the oldest to the newest, and what a line, a filter and a  *)
(* rewrite do to them.                                                     *)

LEMMA AgeType ==
    ASSUME NEW n \in Nat, NEW m, IsParse(m), DOMAIN m \in SUBSET (1..n)
    PROVE  /\ Cardinality(DOMAIN m) \in Nat
           /\ ByAge(m) \in Seq(Record) /\ Len(ByAge(m)) = Cardinality(DOMAIN m)
           /\ DOMAIN ByAge(m) = 1..Cardinality(DOMAIN m)
           /\ \A k \in 1..Cardinality(DOMAIN m) :
                Place(DOMAIN m, k) \in DOMAIN m /\ ByAge(m)[k] = m[Place(DOMAIN m, k)]
<1> DEFINE D == DOMAIN m
           c == Cardinality(D)
<1>1. c \in Nat BY BelowFinite
<1>2. \A k \in 1..c : Place(D, k) \in D BY PlaceExists
<1>3. \A k \in 1..c : m[Place(D, k)] \in Record BY <1>2 DEF IsParse
<1>4. ByAge(m) = [k \in 1..c |-> m[Place(D, k)]] BY DEF ByAge, Cut
<1> HIDE DEF c, D
<1> QED BY <1>1, <1>2, <1>3, <1>4 DEF c, D

LEMMA AgeNone ==
    ASSUME NEW m, DOMAIN m = {}
    PROVE  ByAge(m) = <<>>
<1>1. Cardinality(DOMAIN m) = 0 BY FS_EmptySet
<1>2. ByAge(m) = [k \in 1..0 |-> m[Place(DOMAIN m, k)]] BY <1>1 DEF ByAge, Cut
<1> QED BY <1>2

LEMMA AgeBehind ==
    ASSUME NEW n \in Nat, NEW m, IsParse(m), DOMAIN m \in SUBSET (1..n),
           NEW x \in Nat, x > n, NEW w, IsParse(w), DOMAIN w = DOMAIN m \cup {x},
           \A e \in DOMAIN m : w[e] = m[e]
    PROVE  ByAge(w) = Append(ByAge(m), w[x])
<1> DEFINE D == DOMAIN m
           c == Cardinality(D)
           a == Append(ByAge(m), w[x])
<1>1. /\ c \in Nat /\ ByAge(m) \in Seq(Record) /\ Len(ByAge(m)) = c
      /\ \A k \in 1..c : Place(D, k) \in D /\ ByAge(m)[k] = m[Place(D, k)]
  BY AgeType
<1>2. /\ Cardinality(D \cup {x}) = c + 1
      /\ \A k \in 1..c : Place(D \cup {x}, k) = Place(D, k)
      /\ Place(D \cup {x}, c + 1) = x
  BY PlaceBehind, ZenonT(60)
<1>3. ByAge(w) = [k \in 1..(c + 1) |-> w[Place(D \cup {x}, k)]] BY <1>2 DEF ByAge, Cut
<1>4. w[x] \in Record BY DEF IsParse
<1>5. a \in Seq(Record) /\ Len(a) = c + 1 /\ a[c + 1] = w[x] /\ \A k \in 1..c : a[k] = ByAge(m)[k]
  <2> HIDE DEF c
  <2> QED BY <1>1, <1>4
<1>6. \A k \in 1..c : w[Place(D, k)] = m[Place(D, k)] BY <1>1
<1> HIDE DEF a, c, D
<1>7. \A k \in 1..(c + 1) : k \in 1..c \/ k = c + 1 BY <1>1
<1>8. \A k \in 1..(c + 1) : w[Place(D \cup {x}, k)] = a[k] BY <1>1, <1>2, <1>5, <1>6, <1>7, ZenonT(60)
<1>9. a = [k \in 1..(c + 1) |-> a[k]] BY <1>1, <1>5
<1>10. ByAge(w) = a BY <1>3, <1>8, <1>9
<1> QED BY <1>10 DEF a

LEMMA AgeAhead ==
    ASSUME NEW n \in Nat, NEW m, IsParse(m), DOMAIN m \in SUBSET (1..n),
           NEW e \in DOMAIN m, \A x \in DOMAIN m : e <= x
    PROVE  ByAge(m) = <<m[e]>> \o ByAge(Restrict(m, DOMAIN m \ {e}))
<1> DEFINE D == DOMAIN m
           w == Restrict(m, D \ {e})
           c == Cardinality(D \ {e})
           a == <<m[e]>> \o ByAge(w)
<1>1. DOMAIN w = D \ {e} /\ \A x \in D \ {e} : w[x] = m[x] BY DEF Restrict
<1>2. IsParse(w) /\ m[e] \in Record BY RemoveType
<1>3. D \ {e} \in SUBSET (1..n) OBVIOUS
<1>4. /\ c \in Nat /\ ByAge(w) \in Seq(Record) /\ Len(ByAge(w)) = c
      /\ \A k \in 1..c : Place(D \ {e}, k) \in D \ {e} /\ ByAge(w)[k] = w[Place(D \ {e}, k)]
  <2> HIDE DEF w
  <2> QED BY <1>1, <1>2, <1>3, AgeType
<1>5. /\ Cardinality(D) = c + 1 /\ Place(D, 1) = e
      /\ \A k \in 1..c : Place(D, k + 1) = Place(D \ {e}, k)
  BY PlaceAhead
<1>6. ByAge(m) = [k \in 1..(c + 1) |-> m[Place(D, k)]] BY <1>5 DEF ByAge, Cut
<1> HIDE DEF w, c, D
<1>7. a \in Seq(Record) /\ Len(a) = c + 1 /\ a[1] = m[e] /\ \A k \in 1..c : a[k + 1] = ByAge(w)[k]
  BY <1>2, <1>4
<1> HIDE DEF a
<1>8. \A k \in 1..(c + 1) : k = 1 \/ (k - 1 \in 1..c /\ (k - 1) + 1 = k) BY <1>4
<1>9. \A k \in 1..c : m[Place(D, k + 1)] = a[k + 1]
  <2> SUFFICES ASSUME NEW k \in 1..c PROVE m[Place(D, k + 1)] = a[k + 1] OBVIOUS
  <2>1. Place(D, k + 1) = Place(D \ {e}, k) /\ Place(D \ {e}, k) \in D \ {e} BY <1>4, <1>5
  <2>2. m[Place(D, k + 1)] = w[Place(D \ {e}, k)] BY <1>1, <2>1
  <2>3. w[Place(D \ {e}, k)] = ByAge(w)[k] BY <1>4
  <2> QED BY <1>7, <2>2, <2>3
<1>10. \A k \in 1..(c + 1) : m[Place(D, k)] = a[k]
  <2> SUFFICES ASSUME NEW k \in 1..(c + 1) PROVE m[Place(D, k)] = a[k] OBVIOUS
  <2>1. CASE k = 1 BY <1>5, <1>7, <2>1
  <2>2. CASE k # 1
    <3>1. k - 1 \in 1..c /\ (k - 1) + 1 = k BY <1>8, <2>2
    <3>2. m[Place(D, (k - 1) + 1)] = a[(k - 1) + 1] BY <1>9, <3>1
    <3> QED BY <3>1, <3>2
  <2> QED BY <2>1, <2>2
<1>11. a = [k \in 1..(c + 1) |-> a[k]] BY <1>4, <1>7
<1>12. ByAge(m) = a BY <1>6, <1>10, <1>11
<1> QED BY <1>12 DEF a, w, D

\* The records of part of the places are a cut of the records in order.
LEMMA AgeWithin ==
    ASSUME NEW n \in Nat, NEW m, IsParse(m), DOMAIN m \in SUBSET (1..n), NEW T \in SUBSET DOMAIN m
    PROVE  ByAge(Restrict(m, T)) = Cut(ByAge(m), {k \in DOMAIN ByAge(m) : Place(DOMAIN m, k) \in T})
<1> DEFINE D == DOMAIN m
           c == Cardinality(D)
           K == {k \in 1..c : Place(D, k) \in T}
           w == Restrict(m, T)
<1>1. DOMAIN w = T /\ \A x \in T : w[x] = m[x] BY DEF Restrict
<1>2. /\ c \in Nat /\ DOMAIN ByAge(m) = 1..c
      /\ \A k \in 1..c : ByAge(m)[k] = m[Place(D, k)]
  BY AgeType
<1>3. /\ Cardinality(K) = Cardinality(T)
      /\ \A j \in 1..Cardinality(T) : Place(K, j) \in K /\ Place(D, Place(K, j)) = Place(T, j)
  BY PlaceWithin
<1>4. \A j \in 1..Cardinality(T) : Place(D, Place(K, j)) = Place(T, j) BY <1>3
<1>5. K \subseteq 1..c /\ \A k \in K : Place(D, k) \in T OBVIOUS
<1>6. {k \in DOMAIN ByAge(m) : Place(D, k) \in T} = K BY <1>2
<1>7. ByAge(w) = [j \in 1..Cardinality(T) |-> w[Place(T, j)]] BY <1>1 DEF ByAge, Cut
<1>8. Cut(ByAge(m), K) = [j \in 1..Cardinality(T) |-> ByAge(m)[Place(K, j)]] BY <1>3 DEF Cut
<1> HIDE DEF K, c, D, w
<1>9. \A j \in 1..Cardinality(T) : w[Place(T, j)] = ByAge(m)[Place(K, j)]
  <2> SUFFICES ASSUME NEW j \in 1..Cardinality(T) PROVE w[Place(T, j)] = ByAge(m)[Place(K, j)]
    OBVIOUS
  <2>1. Place(K, j) \in K /\ Place(D, Place(K, j)) = Place(T, j) BY <1>3, <1>4
  <2>2. Place(K, j) \in 1..c /\ Place(T, j) \in T BY <1>5, <2>1
  <2> QED BY <1>1, <1>2, <2>1, <2>2
<1>10. ByAge(w) = Cut(ByAge(m), K) BY <1>7, <1>8, <1>9
<1> QED BY <1>6, <1>10 DEF w, D

LEMMA TidyParse ==
    ASSUME NEW b \in Seq(Cell), Tidy(b)
    PROVE  IsParse(Parsed(b)) /\ DOMAIN Parsed(b) \in SUBSET (1..Len(b)) /\ Len(b) \in Nat
<1> SUFFICES ASSUME NEW e \in LineEnds(b)
             PROVE  e \in 1..Len(b) /\ e \in Nat /\ b[e - 1].rec \in Record
  BY ParsedIs DEF IsParse
<1>1. Len(b) \in Nat OBVIOUS
<1>2. e \in Nat /\ e > 1 /\ e <= Len(b)
  BY <1>1 DEF LineEnds, Ends, Blank, Tidy
<1>3. e - 1 \in 1..Len(b) BY <1>1, <1>2
<1>4. b[e - 1] \in Cell BY <1>3
<1>5. b[e - 1].rec # NoRecord BY DEF Tidy, Whole, LineEnds
<1> QED BY <1>1, <1>2, <1>4, <1>5 DEF Cell

LEMMA ParsedMore ==
    ASSUME NEW f \in Seq(Cell), Tidy(f), NEW r \in Record
    PROVE  ByAge(Parsed(f \o Line(r))) = Append(ByAge(Parsed(f)), r)
<1> DEFINE g == f \o Line(r)
           n == Len(f) + Size[r.plan] + 1
<1>1. g \in Seq(Cell) /\ Tidy(g) /\ LineEnds(g) = LineEnds(f) \cup {n} BY AddLine
<1>2. \A e \in LineEnds(f) : e \in Nat /\ e < n /\ g[e - 1] = f[e - 1] BY AddLine, Zenon
<1>3. g[n - 1].rec = r BY AddLine
<1>4. n \in Nat /\ n > Len(f) /\ Len(f) \in Nat BY LineCells
<1> HIDE DEF g, n
<1>5. IsParse(Parsed(f)) /\ DOMAIN Parsed(f) \in SUBSET (1..Len(f)) BY TidyParse
<1>6. IsParse(Parsed(g)) BY <1>1, TidyParse
<1>7. DOMAIN Parsed(g) = DOMAIN Parsed(f) \cup {n} BY <1>1, ParsedIs
<1>8. \A e \in DOMAIN Parsed(f) : Parsed(g)[e] = Parsed(f)[e] BY <1>1, <1>2, ParsedIs
<1>9. Parsed(g)[n] = r BY <1>1, <1>3, ParsedIs
<1>10. ByAge(Parsed(g)) = Append(ByAge(Parsed(f)), Parsed(g)[n])
  BY <1>4, <1>5, <1>6, <1>7, <1>8, AgeBehind
<1> QED BY <1>9, <1>10 DEF g

\* PlanLog's instance has its own names for the operators of Ordering.
LEMMA SameCut == \A l, S : Abstract!Cut(l, S) = Cut(l, S)
<1>1. \A S : Abstract!Cardinality(S) = Cardinality(S) BY DEF Abstract!Cardinality, Cardinality
<1>2. \A S, k : Abstract!Place(S, k) = Place(S, k) BY <1>1 DEF Abstract!Place, Place
<1> QED BY <1>1, <1>2 DEF Abstract!Cut, Cut

\* The filters of the store are those of the log.
LEMMA SameFilters ==
    ASSUME NEW n \in Nat, NEW m, IsParse(m), DOMAIN m \in SUBSET (1..n), NEW s
    PROVE  /\ ByAge(OfSession(m, s)) = Abstract!OfSession(ByAge(m), s)
           /\ ByAge(Without(m, s)) = Abstract!Without(ByAge(m), s)
<1> DEFINE own == {e \in DOMAIN m : m[e].session = s}
           others == {e \in DOMAIN m : m[e].session # s}
           log == ByAge(m)
<1>1. \A k \in DOMAIN log : Place(DOMAIN m, k) \in DOMAIN m /\ log[k] = m[Place(DOMAIN m, k)]
  BY AgeType
<1>2. {k \in DOMAIN log : Place(DOMAIN m, k) \in own} = {k \in DOMAIN log : log[k].session = s}
  BY <1>1
<1>3. {k \in DOMAIN log : Place(DOMAIN m, k) \in others} = {k \in DOMAIN log : log[k].session # s}
  BY <1>1
<1>4. ByAge(Restrict(m, own)) = Cut(log, {k \in DOMAIN log : Place(DOMAIN m, k) \in own})
  BY AgeWithin
<1>5. ByAge(Restrict(m, others)) = Cut(log, {k \in DOMAIN log : Place(DOMAIN m, k) \in others})
  BY AgeWithin
<1>6. Abstract!OfSession(log, s) = Cut(log, {k \in DOMAIN log : log[k].session = s})
  BY SameCut DEF Abstract!OfSession
<1>7. Abstract!Without(log, s) = Cut(log, {k \in DOMAIN log : log[k].session # s})
  BY SameCut DEF Abstract!Without
<1> QED BY <1>2, <1>3, <1>4, <1>5, <1>6, <1>7 DEF OfSession, Without

LEMMA SameNewest ==
    ASSUME NEW n \in Nat, NEW m, IsParse(m), DOMAIN m \in SUBSET (1..n), NEW s
    PROVE  ByAge(Newest(m, s)) = Abstract!Newest(ByAge(m), s)
<1> DEFINE own == OfSession(m, s)
           new == Newest(m, s)
<1>1. ByAge(own) = Abstract!OfSession(ByAge(m), s) BY SameFilters
<1>2. IsParse(own) /\ IsParse(new) BY FilterType
<1>3. DOMAIN own \in SUBSET (1..n) BY DEF OfSession, Restrict
<1>4. /\ DOMAIN new = {e \in DOMAIN own : \A x \in DOMAIN own : x <= e}
      /\ \A e \in DOMAIN new : new[e] = own[e]
  BY DEF Newest, Restrict
<1>5. Abstract!Newest(ByAge(m), s) = IF ByAge(own) = <<>> THEN <<>> ELSE <<ByAge(own)[Len(ByAge(own))]>>
  BY <1>1 DEF Abstract!Newest, Abstract!Last
<1> HIDE DEF own, new
<1>6. CASE DOMAIN own = {}
  <2>1. DOMAIN new = {} BY <1>4, <1>6
  <2> QED BY <1>5, <1>6, <2>1, AgeNone DEF new
<1>7. CASE DOMAIN own # {}
  <2>1. DOMAIN own \in SUBSET (0..n) BY <1>3
  <2>2. PICK x \in DOMAIN own : \A y \in DOMAIN own : y <= x BY <1>7, <2>1, Greatest
  <2>3. \A y \in DOMAIN own : y \in 1..n BY <1>3
  <2>4. DOMAIN new = {x}
    <3>1. \A e \in DOMAIN own : x <= e /\ e <= x => e = x BY <2>3
    <3>2. x \in DOMAIN new BY <1>4, <2>2
    <3>3. \A e \in DOMAIN new : e \in DOMAIN own /\ x <= e BY <1>4
    <3> QED BY <2>2, <3>1, <3>2, <3>3
  <2>5. ByAge(new) = <<own[x]>>
    <3>1. DOMAIN None = {} BY DEF None
    <3>2. ByAge(new) = Append(ByAge(None), new[x])
      <4>1. DOMAIN None \in SUBSET (1..0) /\ IsParse(None) BY <3>1, NoneType
      <4>2. x \in Nat /\ x > 0 /\ 0 \in Nat BY <2>3
      <4>3. DOMAIN new = DOMAIN None \cup {x} /\ \A e \in DOMAIN None : new[e] = None[e]
        BY <2>4, <3>1
      <4> DEFINE zero == 0
      <4>4. zero \in Nat /\ x > zero /\ DOMAIN None \in SUBSET (1..zero) BY <4>1, <4>2
      <4> HIDE DEF zero
      <4> QED BY <1>2, <4>1, <4>2, <4>3, <4>4, AgeBehind, ZenonT(120)
    <3>3. ByAge(None) = <<>> BY <3>1, AgeNone
    <3>4. new[x] = own[x] BY <1>4, <2>4
    <3> QED BY <3>2, <3>3, <3>4
  <2>6. \E front \in Seq(Record) : ByAge(own) = Append(front, own[x])
    <3> DEFINE less == Restrict(own, DOMAIN own \ {x})
    <3>1. IsParse(less) /\ own[x] \in Record BY <1>2, RemoveType
    <3>2. DOMAIN less = DOMAIN own \ {x} /\ \A e \in DOMAIN less : own[e] = less[e] BY DEF Restrict
    <3> HIDE DEF less
    <3>3. x - 1 \in Nat /\ x \in Nat /\ x > x - 1 BY <2>3
    <3>4. DOMAIN less \in SUBSET (1..(x - 1))
      <4>1. \A e \in DOMAIN less : e \in 1..n /\ e # x /\ e <= x BY <2>2, <2>3, <3>2
      <4> QED BY <3>3, <4>1
    <3>5. DOMAIN own = DOMAIN less \cup {x} BY <3>2
    <3> DEFINE p == x - 1
    <3>6. p \in Nat /\ x > p /\ DOMAIN less \in SUBSET (1..p) BY <3>3, <3>4
    <3> HIDE DEF p
    <3>7. ByAge(less) \in Seq(Record) BY <3>1, <3>6, AgeType
    <3>8. ByAge(own) = Append(ByAge(less), own[x])
      <4>1. IsParse(own) /\ IsParse(less) /\ x \in Nat BY <1>2, <3>1, <3>3
      <4>2. \A e \in DOMAIN less : own[e] = less[e] BY <3>2
      <4> QED BY <3>5, <3>6, <4>1, <4>2, AgeBehind, ZenonT(60)
    <3> QED BY <3>7, <3>8
  <2>7. own[x] \in Record BY <1>2 DEF IsParse
  <2>8. ByAge(own) # <<>> /\ ByAge(own)[Len(ByAge(own))] = own[x] BY <2>6, <2>7
  <2> QED BY <1>5, <2>5, <2>8 DEF new
<1> QED BY <1>6, <1>7

-----------------------------------------------------------------------------
(* FileStore implements PlanLog: a store takes effect at the write of its  *)
(* line, a removal at the truncation, a read at the end of the file.       *)

\* What is left to write has places up to some number.
PlacedInv == Steady => \A c \in Clients : \E n \in Nat : DOMAIN rest[c] \in SUBSET (1..n)

LEMMA PlacedKept ==
    ASSUME Settled
    PROVE  TypeInv /\ CallInv /\ TidyInv /\ ReadInv /\ PlacedInv /\ [Next]_vars => PlacedInv'
<1> SUFFICES ASSUME TypeInv, CallInv, TidyInv, ReadInv, PlacedInv, [Next]_vars, Steady'
             PROVE  PlacedInv'
  BY DEF PlacedInv
<1>0. /\ Steady /\ DOMAIN rest = Clients /\ file \in Seq(Cell) /\ buf \in [Clients -> Seq(Cell)]
      /\ \A c \in Clients : \E n \in Nat : DOMAIN rest[c] \in SUBSET (1..n)
  BY SteadyNext DEF TypeInv, TypeOK, PlacedInv
<1>1. ASSUME NEW c \in Clients, ReadKeeps(c) PROVE PlacedInv'
  <2>1. /\ rest' = [rest EXCEPT ![c] = Without(Parsed(buf[c]), call[c].session)]
        /\ pc[c] = "read" /\ Len(buf[c]) >= Len(file)
    BY <1>1 DEF ReadKeeps, AtEOF
  <2>2. buf[c] = file BY <1>0, <2>1, ReadAll DEF ReadInv
  <2>3. DOMAIN Parsed(file) \in SUBSET (1..Len(file)) /\ Len(file) \in Nat
    BY <1>0, TidyParse DEF TidyInv
  <2>4. DOMAIN Without(Parsed(file), call[c].session) \in SUBSET (1..Len(file))
    BY <2>3 DEF Without, Restrict
  <2>5. \E n \in Nat : DOMAIN rest'[c] \in SUBSET (1..n) BY <1>0, <2>1, <2>2, <2>3, <2>4
  <2>6. \A d \in Clients \ {c} : rest'[d] = rest[d] BY <1>0, <2>1
  <2> QED BY <1>0, <2>5, <2>6 DEF PlacedInv
<1>2. ASSUME NEW c \in Clients, EncodeRecord(c) PROVE PlacedInv'
  <2>1. \A d \in Clients : DOMAIN rest'[d] \subseteq DOMAIN rest[d]
    BY <1>0, <1>2 DEF EncodeRecord, Restrict
  <2> QED BY <1>0, <2>1 DEF PlacedInv
<1>3. CASE \A c \in Clients : ~ReadKeeps(c) /\ ~EncodeRecord(c)
  <2>1. rest' = rest
    <3>1. CASE \E c \in Clients : Start(c)
      BY <3>1, ZenonT(60) DEF Start, StoreContextPlan, LoadPriorPlan, Load, Delete, Save, BeginRemoval, Begin
    <3>2. CASE \E c \in Clients : Step(c) \/ Lock(c)
      BY <1>3, <3>2 DEF Step, Lock, ReadCell, ReadCorrupt, ReadAnswers, SyncRewrite, RejectRed,
             Admit, AppendLine, SyncAppend, LockRewrite, LockAppend
    <3>3. CASE UNCHANGED vars BY <3>3 DEF vars
    <3> QED BY <3>1, <3>2, <3>3, SteadyNext
  <2> QED BY <1>0, <2>1 DEF PlacedInv
<1> QED BY <1>1, <1>2, <1>3

\* The log while nobody rewrites, and while the one client does.
LEMMA LogIs ==
    /\ Rewriting = {} => BarLog = ByAge(Parsed(file))
    /\ \A c \in Clients : (\A d \in Clients : d = c) /\ pc[c] = "rewrite" =>
          BarLog = ByAge(Parsed(file)) \o ByAge(rest[c])
<1>1. Rewriting = {} => BarLog = ByAge(Parsed(file)) BY DEF Rewriting, BarLog
<1>2. ASSUME NEW c \in Clients, \A d \in Clients : d = c, pc[c] = "rewrite"
      PROVE  BarLog = ByAge(Parsed(file)) \o ByAge(rest[c])
  <2> DEFINE who == CHOOSE d \in Clients : pc[d] = "rewrite"
  <2>1. who \in Clients BY <1>2
  <2>2. who = c BY <1>2, <2>1
  <2>3. BarLog = ByAge(Parsed(file)) \o ByAge(rest[who]) BY <1>2 DEF BarLog
  <2> HIDE DEF who
  <2> QED BY <2>2, <2>3
<1> QED BY <1>1, <1>2

LEMMA LogIsNext ==
    /\ Rewriting' = {} => BarLog' = ByAge(Parsed(file'))
    /\ \A c \in Clients : (\A d \in Clients : d = c) /\ pc'[c] = "rewrite" =>
          BarLog' = ByAge(Parsed(file')) \o ByAge(rest'[c])
<1>1. Rewriting' = {} => BarLog' = ByAge(Parsed(file')) BY DEF Rewriting, BarLog
<1>2. ASSUME NEW c \in Clients, \A d \in Clients : d = c, pc'[c] = "rewrite"
      PROVE  BarLog' = ByAge(Parsed(file')) \o ByAge(rest'[c])
  <2> DEFINE who == CHOOSE d \in Clients : pc'[d] = "rewrite"
  <2>1. who \in Clients BY <1>2
  <2>2. who = c BY <1>2, <2>1
  <2>3. BarLog' = ByAge(Parsed(file')) \o ByAge(rest'[who]) BY <1>2 DEF BarLog
  <2> HIDE DEF who
  <2> QED BY <2>2, <2>3
<1> QED BY <1>1, <1>2

\* What a step of the store does to the log.
LEMMA StepLog ==
    ASSUME Settled, TypeInv, CallInv, Steady, TidyInv, ReadInv, PlacedInv, NEW c \in Clients,
           Step(c) \/ Lock(c)
    PROVE  /\ AppendLine(c) => Rewriting = {} /\ BarLog' = Append(BarLog, Target(c))
           /\ LockRewrite(c) => /\ Rewriting = {}
                                /\ BarLog' = Abstract!Without(BarLog, call[c].session)
           /\ ~AppendLine(c) /\ ~LockRewrite(c) => BarLog' = BarLog
<1>0. /\ pc \in [Clients -> Pc] /\ file \in Seq(Cell) /\ DOMAIN rest = Clients
      /\ \A d \in Clients : IsParse(rest[d]) /\ \E n \in Nat : DOMAIN rest[d] \in SUBSET (1..n)
  BY DEF TypeInv, TypeOK, PlacedInv
<1>1. Tidy(file) /\ \A d \in Clients : pc[d] = "rewrite" => off[d] = Len(file) BY DEF TidyInv
<1>2. IsParse(Parsed(file)) /\ DOMAIN Parsed(file) \in SUBSET (1..Len(file)) /\ Len(file) \in Nat
  BY <1>0, <1>1, TidyParse
<1>3. ByAge(Parsed(file)) \in Seq(Record) BY <1>2, AgeType
<1>4. pc[c] # "rewrite" => Rewriting = {}
  <2> SUFFICES ASSUME NEW d \in Clients, pc[d] = "rewrite" PROVE d = c BY DEF Rewriting
  <2>1. c = d BY Solo
  <2> QED BY <2>1
<1>5. CASE AppendLine(c)
  <2>1. /\ file' = file \o Line(Target(c)) /\ pc[c] = "append" /\ pc' = [pc EXCEPT ![c] = "syncAppend"]
    BY <1>5 DEF AppendLine
  <2>2. Target(c) \in Record BY <2>1, TargetType DEF Appending
  <2>3. Rewriting = {} BY <1>4, <2>1
  <2>4. Rewriting' = {} BY <1>0, <2>1, <2>3 DEF Rewriting
  <2>5. ByAge(Parsed(file')) = Append(ByAge(Parsed(file)), Target(c))
    BY <1>0, <1>1, <2>1, <2>2, ParsedMore
  <2>6. ~LockRewrite(c) BY <2>1 DEF LockRewrite
  <2> QED BY <1>5, <2>3, <2>4, <2>5, <2>6, LogIs, LogIsNext
<1>6. CASE LockRewrite(c)
  <2>1. /\ file' = <<>> /\ pc[c] = "lockRewrite" /\ pc' = [pc EXCEPT ![c] = "rewrite"]
        /\ rest' = rest
    BY <1>6 DEF LockRewrite
  <2>2. \A d \in Clients : d = c BY <2>1, Solo
  <2>3. Rewriting = {} /\ pc'[c] = "rewrite" BY <1>0, <1>4, <2>1
  <2>4. rest[c] = Without(Parsed(file), call[c].session) BY <2>1 DEF ReadInv
  <2>5. DOMAIN Parsed(<<>>) = {} BY ParsedIs, TidyNothing
  <2>6. ByAge(Parsed(file')) = <<>> BY <2>1, <2>5, AgeNone
  <2>7. BarLog' = ByAge(Parsed(file')) \o ByAge(rest'[c]) BY <2>2, <2>3, LogIsNext
  <2>8. ByAge(rest[c]) \in Seq(Record)
    <3>1. PICK n \in Nat : DOMAIN rest[c] \in SUBSET (1..n) BY <1>0
    <3> QED BY <1>0, <3>1, AgeType
  <2>9. BarLog' = ByAge(rest[c]) BY <2>1, <2>6, <2>7, <2>8
  <2>10. BarLog = ByAge(Parsed(file)) BY <2>3, LogIs
  <2>11. ByAge(rest[c]) = Abstract!Without(BarLog, call[c].session)
    BY <1>2, <2>4, <2>10, SameFilters
  <2>12. ~AppendLine(c) BY <2>1 DEF AppendLine
  <2> QED BY <1>6, <2>3, <2>9, <2>11, <2>12
<1>7. CASE EncodeRecord(c)
  <2>1. PICK e \in Oldest(rest[c]) :
          /\ file' = WriteAt(file, off[c], Line(rest[c][e]))
          /\ rest' = [rest EXCEPT ![c] = Restrict(@, DOMAIN @ \ {e})]
    BY <1>7 DEF EncodeRecord
  <2>2. pc' = pc /\ pc[c] = "rewrite" /\ off[c] = Len(file) BY <1>1, <1>7 DEF EncodeRecord
  <2>3. \A d \in Clients : d = c BY <2>2, Solo
  <2>4. e \in DOMAIN rest[c] /\ \A x \in DOMAIN rest[c] : e <= x BY DEF Oldest
  <2>5. rest[c][e] \in Record BY <1>0, <2>4, RemoveType
  <2>6. Line(rest[c][e]) \in Seq(Cell) BY <2>5, LineCells
  <2>7. file' = file \o Line(rest[c][e]) BY <1>0, <2>1, <2>2, <2>6, WriteAtEnd
  <2>8. ByAge(Parsed(file')) = Append(ByAge(Parsed(file)), rest[c][e])
    BY <1>0, <1>1, <2>5, <2>7, ParsedMore
  <2>9. rest'[c] = Restrict(rest[c], DOMAIN rest[c] \ {e}) BY <1>0, <2>1
  <2>10. PICK n \in Nat : DOMAIN rest[c] \in SUBSET (1..n) BY <1>0
  <2>11. ByAge(rest[c]) = <<rest[c][e]>> \o ByAge(rest'[c])
    BY <1>0, <2>4, <2>9, <2>10, AgeAhead, ZenonT(60)
  <2>12. ByAge(rest'[c]) \in Seq(Record)
    <3>1. IsParse(rest'[c])
      <4>1. IsParse(rest[c]) /\ e \in DOMAIN rest[c] BY <1>0, <2>4
      <4>2. IsParse(Restrict(rest[c], DOMAIN rest[c] \ {e})) BY <4>1, RemoveType, Zenon
      <4> QED BY <2>9, <4>2
    <3>2. DOMAIN rest'[c] \in SUBSET (1..n) BY <2>9, <2>10 DEF Restrict
    <3> QED BY <3>1, <3>2, AgeType
  <2>13. BarLog = ByAge(Parsed(file)) \o ByAge(rest[c]) BY <2>2, <2>3, LogIs
  <2>14. BarLog' = ByAge(Parsed(file')) \o ByAge(rest'[c]) BY <2>2, <2>3, LogIsNext
  <2>15. ASSUME NEW s \in Seq(Record), NEW t \in Seq(Record), NEW r \in Record
         PROVE  Append(s, r) \o t = s \o (<<r>> \o t)
    <3>1. <<r>> \in Seq(Record) BY <2>15
    <3>2. Append(s, r) = s \o <<r>> BY <2>15, AppendIsConcat
    <3>3. (s \o <<r>>) \o t = s \o (<<r>> \o t) BY <2>15, <3>1, ConcatAssociative
    <3> QED BY <3>2, <3>3
  <2>16. BarLog' = BarLog BY <1>3, <2>5, <2>8, <2>11, <2>12, <2>13, <2>14, <2>15
  <2>17. ~AppendLine(c) /\ ~LockRewrite(c) BY <2>2 DEF AppendLine, LockRewrite
  <2> QED BY <2>16, <2>17
<1>8. CASE SyncRewrite(c)
  <2>1. /\ file' = file /\ rest' = rest /\ pc[c] = "rewrite" /\ DOMAIN rest[c] = {}
        /\ pc' = [pc EXCEPT ![c] = "idle"] \/ pc' = [pc EXCEPT ![c] = "admit"]
    BY <1>8 DEF SyncRewrite, Return
  <2>2. \A d \in Clients : d = c BY <2>1, Solo
  <2>3. pc'[c] # "rewrite" BY <1>0, <2>1
  <2>4. Rewriting' = {} BY <2>2, <2>3 DEF Rewriting
  <2>5. BarLog = ByAge(Parsed(file)) \o <<>>
    <3>1. BarLog = ByAge(Parsed(file)) \o ByAge(rest[c]) BY <2>1, <2>2, LogIs
    <3>2. ByAge(rest[c]) = <<>> BY <2>1, AgeNone, Zenon
    <3> QED BY <3>1, <3>2
  <2>6. BarLog' = ByAge(Parsed(file)) BY <2>1, <2>4, LogIsNext
  <2>7. ~AppendLine(c) /\ ~LockRewrite(c) BY <2>1 DEF AppendLine, LockRewrite
  <2> QED BY <1>3, <2>5, <2>6, <2>7
<1>9. CASE ~AppendLine(c) /\ ~LockRewrite(c) /\ ~EncodeRecord(c) /\ ~SyncRewrite(c)
  <2>1. file' = file BY <1>9, StepFile
  <2>2. pc[c] # "rewrite"
    BY <1>9 DEF Step, Lock, ReadCell, ReadCorrupt, ReadAnswers, ReadKeeps, RejectRed,
                Admit, SyncAppend, LockAppend, AtEOF
  <2>3. Rewriting = {} BY <1>4, <2>2
  <2>4. Rewriting' = {} BY <1>9, <2>3, LedgerStep DEF Rewriting
  <2> QED BY <1>9, <2>1, <2>3, <2>4, LogIs, LogIsNext
<1> QED BY <1>5, <1>6, <1>7, <1>8, <1>9

\* A step changes the answers only where a read ends.
LEMMA StepAnswer ==
    ASSUME TypeInv, ResultInv, NEW c \in Clients, Step(c) \/ Lock(c), ~ReadAnswers(c)
    PROVE  BarAnswer' = BarAnswer
<1>0. DOMAIN result = Clients BY DEF TypeInv, TypeOK
<1>1. pc[c] # "idle"
  BY DEF Step, Lock, ReadCell, ReadCorrupt, ReadKeeps, EncodeRecord,
         SyncRewrite, RejectRed, Admit, AppendLine, SyncAppend, LockRewrite, LockAppend, AtEOF
<1>2. result[c].recs = None BY <1>1 DEF ResultInv, Pending
<1>3. \/ result' = result
      \/ \E status : Return(c, status, None)
  BY DEF Step, Lock, ReadCell, ReadCorrupt, ReadKeeps, EncodeRecord,
         SyncRewrite, RejectRed, Admit, AppendLine, SyncAppend, LockRewrite, LockAppend
<1>4. \A d \in Clients : result'[d].recs = result[d].recs
  <2>1. CASE \E status : Return(c, status, None)
    <3>1. result'[c].recs = None /\ \A d \in Clients \ {c} : result'[d] = result[d]
      BY <1>0, <2>1 DEF Return
    <3> QED BY <1>2, <3>1
  <2> QED BY <1>3, <2>1
<1> QED BY <1>4 DEF BarAnswer

LEMMA StepRefines ==
    ASSUME Settled, TypeInv, RedInv, CallInv, Steady, TidyInv, ReadInv, HandInv, LedgerInv,
           ResultInv, PlacedInv, NEW c \in Clients, Step(c) \/ Lock(c)
    PROVE  Abstract!Next \/ UNCHANGED Abstract!logVars
<1>0. /\ pc \in [Clients -> Pc] /\ file \in Seq(Cell) /\ buf \in [Clients -> Seq(Cell)]
      /\ DOMAIN result = Clients /\ call \in [Clients -> CallRecord]
  BY DEF TypeInv, TypeOK
<1>1. Tidy(file) BY DEF TidyInv
<1>2. IsParse(Parsed(file)) /\ DOMAIN Parsed(file) \in SUBSET (1..Len(file)) /\ Len(file) \in Nat
  BY <1>0, <1>1, TidyParse
<1>3. call[c].session \in Sessions BY <1>0 DEF CallRecord
<1>4. CASE AppendLine(c)
  <2>1. Rewriting = {} /\ BarLog' = Append(BarLog, Target(c)) BY <1>4, StepLog
  <2>2. pc[c] = "append" BY <1>4 DEF AppendLine
  <2>3. Target(c) \in Record BY <2>2, TargetType DEF Appending
  <2>4. Target(c).plan \notin RedPlans BY <2>2 DEF RedInv, Admitted, Target, Filed
  <2>5. \A old \in ToSet(BarLog) : old.plan # Target(c).plan
    <3> SUFFICES ASSUME NEW old \in ToSet(BarLog) PROVE old.plan # Target(c).plan OBVIOUS
    <3>1. BarLog = ByAge(Parsed(file)) BY <2>1, LogIs
    <3>2. /\ DOMAIN ByAge(Parsed(file)) = 1..Cardinality(DOMAIN Parsed(file))
          /\ \A k \in 1..Cardinality(DOMAIN Parsed(file)) :
               /\ Place(DOMAIN Parsed(file), k) \in DOMAIN Parsed(file)
               /\ ByAge(Parsed(file))[k] = Parsed(file)[Place(DOMAIN Parsed(file), k)]
      BY <1>2, AgeType
    <3>3. PICK k \in DOMAIN ByAge(Parsed(file)) : old = ByAge(Parsed(file))[k]
      BY <3>1 DEF ToSet
    <3>4. \E e \in DOMAIN Parsed(file) : old = Parsed(file)[e] BY <3>2, <3>3
    <3>5. old \in Range(Parsed(file)) BY <3>4 DEF Range
    <3>6. old \in Shelf BY <3>5, ParsedIs DEF Shelf
    <3>7. Handed(old.plan) BY <3>6 DEF LedgerInv
    <3>8. ~Handed(Target(c).plan) BY <1>4, HandedNow
    <3> QED BY <3>7, <3>8
  <2>6. BarAnswer' = BarAnswer
    <3>1. ~ReadAnswers(c) BY <2>2 DEF ReadAnswers, AtEOF
    <3> QED BY <3>1, StepAnswer
  <2>7. Abstract!Keep(Target(c)) BY <2>1, <2>4, <2>5, <2>6 DEF Abstract!Keep, Abstract!ToSet, ToSet
  <2>8. Target(c) \in Abstract!Record BY <2>3 DEF Abstract!Record, Record
  <2> QED BY <2>7, <2>8 DEF Abstract!Next
<1>5. CASE LockRewrite(c)
  <2>1. BarLog' = Abstract!Without(BarLog, call[c].session) BY <1>5, StepLog
  <2>2. BarAnswer' = BarAnswer
    <3>1. ~ReadAnswers(c) BY <1>5 DEF LockRewrite, ReadAnswers, AtEOF
    <3> QED BY <3>1, StepAnswer
  <2> QED BY <1>3, <2>1, <2>2 DEF Abstract!Forget, Abstract!Next
<1>6. CASE ReadAnswers(c)
  <2>1. /\ pc[c] = "read" /\ Len(buf[c]) >= Len(file)
        /\ \/ Return(c, "ok", Newest(Parsed(buf[c]), call[c].session))
           \/ Return(c, "ok", OfSession(Parsed(buf[c]), call[c].session))
    BY <1>6 DEF ReadAnswers, AtEOF
  <2>2. buf[c] = file BY <1>0, <2>1, ReadAll DEF ReadInv
  <2>3. ~AppendLine(c) /\ ~LockRewrite(c) BY <2>1 DEF AppendLine, LockRewrite
  <2>4. BarLog' = BarLog BY <2>3, StepLog
  <2>5. Rewriting = {}
    <3> SUFFICES ASSUME NEW d \in Clients, pc[d] = "rewrite" PROVE d = c BY <2>1 DEF Rewriting
    <3>1. c = d BY Solo
    <3> QED BY <3>1
  <2>6. BarLog = ByAge(Parsed(file)) BY <2>5, LogIs
  <2>7. /\ ByAge(Newest(Parsed(file), call[c].session)) = Abstract!Newest(BarLog, call[c].session)
        /\ ByAge(OfSession(Parsed(file), call[c].session)) = Abstract!OfSession(BarLog, call[c].session)
    BY <1>2, <2>6, SameFilters, SameNewest
  <2>8. PICK recs \in {Newest(Parsed(file), call[c].session), OfSession(Parsed(file), call[c].session)} :
          result' = [result EXCEPT ![c] = [status |-> "ok", recs |-> recs]]
    BY <2>1, <2>2 DEF Return
  <2>9. result'[c].recs = recs /\ \A d \in Clients \ {c} : result'[d] = result[d] BY <1>0, <2>8
  <2>10. BarAnswer' = [BarAnswer EXCEPT ![c] = ByAge(recs)]
    <3>1. \A d \in Clients : ByAge(result'[d].recs) = IF d = c THEN ByAge(recs) ELSE ByAge(result[d].recs)
      BY <2>9
    <3>2. BarAnswer' = [d \in Clients |-> ByAge(result'[d].recs)] BY DEF BarAnswer
    <3> QED BY <3>1, <3>2 DEF BarAnswer
  <2>11. ByAge(recs) \in {Abstract!OfSession(BarLog, call[c].session),
                          Abstract!Newest(BarLog, call[c].session)}
    BY <2>7
  <2>12. Abstract!Answer(c, call[c].session) BY <2>4, <2>10, <2>11 DEF Abstract!Answer
  <2> QED BY <1>3, <2>12 DEF Abstract!Next
<1>7. CASE ~AppendLine(c) /\ ~LockRewrite(c) /\ ~ReadAnswers(c)
  <2>1. BarLog' = BarLog BY <1>7, StepLog
  <2>2. BarAnswer' = BarAnswer BY <1>7, StepAnswer
  <2> QED BY <2>1, <2>2 DEF Abstract!logVars
<1> QED BY <1>4, <1>5, <1>6, <1>7

LEMMA StartRefines ==
    ASSUME Settled, TypeInv, CallInv, NEW c \in Clients, Start(c)
    PROVE  Abstract!Ask(c)
<1>0. pc \in [Clients -> Pc] /\ DOMAIN result = Clients BY DEF TypeInv, TypeOK
<1>1. /\ UNCHANGED file /\ pc[c] = "idle"
      /\ result' = [result EXCEPT ![c] = Pending]
  BY DEF Start, StoreContextPlan, LoadPriorPlan, Load, Delete, Save, BeginRemoval, Begin
<1>2. Rewriting = {}
  <2> SUFFICES ASSUME NEW d \in Clients, pc[d] = "rewrite" PROVE d = c BY <1>1 DEF Rewriting
  <2>1. c = d BY Solo
  <2> QED BY <2>1
<1>3. Rewriting' = {} BY <1>2, ShelfStart
<1>4. BarLog' = BarLog BY <1>1, <1>2, <1>3, LogIs, LogIsNext
<1>5. ByAge(None) = <<>>
  <2>1. DOMAIN None = {} BY DEF None
  <2> QED BY <2>1, AgeNone
<1>6. \A d \in Clients : ByAge(result'[d].recs) = IF d = c THEN <<>> ELSE ByAge(result[d].recs)
  BY <1>0, <1>1, <1>5 DEF Pending
<1>7. BarAnswer' = [d \in Clients |-> ByAge(result'[d].recs)] BY DEF BarAnswer
<1>8. BarAnswer' = [BarAnswer EXCEPT ![c] = <<>>] BY <1>6, <1>7 DEF BarAnswer
<1> QED BY <1>4, <1>8 DEF Abstract!Ask

\* While no system call fails and the process runs, each operation of the store
\* takes effect at one instant, for one goroutine or for any number that only
\* append: FileStore implements PlanLog.
THEOREM StoreImplementsPlanLog ==
    ASSUME Settled
    PROVE  Spec /\ []Steady => ImplementsPlanLog
<1> DEFINE Inv == /\ TypeInv /\ RedInv /\ CallInv /\ TidyInv /\ ReadInv /\ HandInv /\ LedgerInv
                  /\ ResultInv /\ PlacedInv
<1>1. Init => Abstract!Init
  <2> SUFFICES ASSUME Init PROVE Abstract!Init OBVIOUS
  <2>1. Rewriting = {} /\ file = <<>> BY DEF Init, Rewriting
  <2>2. DOMAIN Parsed(<<>>) = {} BY ParsedIs, TidyNothing
  <2>3. BarLog = <<>> BY <2>1, <2>2, LogIs, AgeNone
  <2>4. \A c \in Clients : result[c].recs = None BY DEF Init, Pending
  <2>5. ByAge(None) = <<>>
    <3>1. DOMAIN None = {} BY DEF None
    <3> QED BY <3>1, AgeNone
  <2>6. BarAnswer = [c \in Clients |-> <<>>] BY <2>4, <2>5 DEF BarAnswer
  <2> QED BY <2>3, <2>6 DEF Abstract!Init
<1>2. Inv /\ Steady /\ Steady' /\ [Next]_vars => [Abstract!Next]_(Abstract!logVars)
  <2> SUFFICES ASSUME Inv, Steady, Steady', [Next]_vars
               PROVE  Abstract!Next \/ UNCHANGED Abstract!logVars
    OBVIOUS
  <2>1. CASE UNCHANGED vars
    <3>1. Rewriting' = Rewriting /\ file' = file /\ rest' = rest /\ pc' = pc /\ result' = result
      BY <2>1 DEF vars, Rewriting
    <3>2. BarLog' = BarLog
      <4>1. CASE Rewriting = {} BY <3>1, <4>1, LogIs, LogIsNext
      <4>2. CASE Rewriting # {}
        <5>1. PICK c \in Clients : pc[c] = "rewrite" BY <4>2 DEF Rewriting
        <5>2. \A d \in Clients : d = c BY <5>1, Solo
        <5> QED BY <3>1, <5>1, <5>2, LogIs, LogIsNext
      <4> QED BY <4>1, <4>2
    <3>3. BarAnswer' = BarAnswer BY <3>1 DEF BarAnswer
    <3> QED BY <3>2, <3>3 DEF Abstract!logVars
  <2>2. CASE \E c \in Clients : Start(c) BY <2>2, StartRefines DEF Abstract!Next
  <2>3. CASE \E c \in Clients : Step(c) \/ Lock(c) BY <2>3, StepRefines
  <2> QED BY <2>1, <2>2, <2>3, SteadyNext
<1>3. Spec => []Inv
  <2>1. Init => ResultInv /\ PlacedInv /\ RedInv
    <3>1. Init => ResultInv BY DEF Init, ResultInv
    <3>2. Init => PlacedInv
      <4> SUFFICES ASSUME Init, NEW c \in Clients PROVE DOMAIN rest[c] \in SUBSET (1..0)
        BY DEF PlacedInv
      <4> QED BY DEF Init, None
    <3> QED BY <3>1, <3>2, InitRed
  <2>2. TypeInv /\ CallInv /\ TidyInv /\ ReadInv /\ PlacedInv /\ [Next]_vars => PlacedInv'
    BY PlacedKept
  <2>3. TypeInv /\ RedInv /\ [Next]_vars => RedInv'
    <3> SUFFICES ASSUME TypeInv, RedInv, [Next]_vars PROVE RedInv' OBVIOUS
    <3>1. CASE UNCHANGED vars
      BY <3>1 DEF vars, RedInv, CleanCells, CleanRecords, Admitted
    <3>2. CASE Next BY <3>2, StartRed, StepRed, FaultRed, CrashRed DEF Next
    <3> QED BY <3>1, <3>2
  <2>4. Spec => [](TypeInv /\ CallInv /\ TidyInv /\ ReadInv /\ HandInv /\ LedgerInv) BY LedgerTruth, PTL
  <2>5. Spec => [](ResultInv /\ RedInv /\ PlacedInv)
    BY <2>1, <2>2, <2>3, <2>4, ResultKept, PTL DEF Spec
  <2> QED BY <2>4, <2>5, PTL
<1>4. Spec => Init /\ [][Next]_vars BY PTL DEF Spec
<1> HIDE DEF Inv
<1> QED BY <1>1, <1>2, <1>3, <1>4, PTL DEF ImplementsPlanLog, Abstract!Spec

-----------------------------------------------------------------------------
(* Save.  What the file holds of its session is what it has stored of the  *)
(* plans it was given, from its rewrite on.                                *)

Behind(c) == Len(call[c].given) - Len(call[c].todo)
AllFiled(s, plans) == [i \in 1..Len(plans) |-> Filed(s, plans[i])]
OwnFiled(s, plans, n) ==
    Cut(AllFiled(s, plans), {i \in 1..n : AllFiled(s, plans)[i].session = s})

\* File f holds the first n plans, each where it is filed, and nothing else of s.
Holds(f, s, plans, n) ==
    /\ ByAge(OfSession(Parsed(f), s)) = OwnFiled(s, plans, n)
    /\ \A i \in 1..n : AllFiled(s, plans)[i] \in Written(f)
HasStored(c, n) == Holds(file, call[c].session, call[c].given, n)

SaveInv ==
    Steady =>
      \A c \in Clients : pc[c] # "idle" /\ call[c].op = "save" =>
        /\ Behind(c) >= 0
        /\ \A i \in 1..Len(call[c].todo) : call[c].todo[i] = call[c].given[Behind(c) + i]
        /\ pc[c] \in {"read", "lockRewrite", "rewrite"} => Behind(c) = 0
        /\ pc[c] \in {"admit", "lockAppend", "append"} => HasStored(c, Behind(c))
        /\ pc[c] = "syncAppend" => HasStored(c, Behind(c) + 1)

LEMMA OwnMore ==
    ASSUME NEW f \in Seq(Cell), Tidy(f), NEW r \in Record
    PROVE  LET own(b) == ByAge(OfSession(Parsed(b), r.session))
           IN  own(f) \in Seq(Record) /\ own(f \o Line(r)) = Append(own(f), r)
<1> DEFINE g == f \o Line(r)
           n == Len(f) + Size[r.plan] + 1
           s == r.session
           before == OfSession(Parsed(f), s)
           after == OfSession(Parsed(g), s)
<1>1. g \in Seq(Cell) /\ Tidy(g) /\ LineEnds(g) = LineEnds(f) \cup {n} BY AddLine
<1>2. \A e \in LineEnds(f) : e \in Nat /\ e < n /\ g[e - 1] = f[e - 1] BY AddLine, Zenon
<1>3. g[n - 1].rec = r BY AddLine
<1>4. n \in Nat /\ n > Len(f) /\ Len(f) \in Nat BY LineCells
<1> HIDE DEF g, n, s
<1>5. IsParse(Parsed(f)) /\ DOMAIN Parsed(f) \in SUBSET (1..Len(f)) BY TidyParse
<1>6. IsParse(Parsed(g)) BY <1>1, TidyParse
<1>7. IsParse(before) /\ IsParse(after) BY <1>5, <1>6, FilterType
<1>8. /\ DOMAIN before = {e \in LineEnds(f) : f[e - 1].rec.session = s}
      /\ \A e \in DOMAIN before : before[e] = f[e - 1].rec
  BY ParsedIs DEF OfSession, Restrict
<1>9. /\ DOMAIN after = {e \in LineEnds(g) : g[e - 1].rec.session = s}
      /\ \A e \in DOMAIN after : after[e] = g[e - 1].rec
  BY ParsedIs DEF OfSession, Restrict
<1> HIDE DEF before, after
<1>10. DOMAIN after = DOMAIN before \cup {n} /\ after[n] = r
  <2>1. n \in DOMAIN after BY <1>1, <1>3, <1>9 DEF s
  <2>2. \A e \in LineEnds(f) : e \in DOMAIN after <=> e \in DOMAIN before
    BY <1>1, <1>2, <1>8, <1>9
  <2>3. DOMAIN after \subseteq LineEnds(f) \cup {n} BY <1>1, <1>9
  <2>4. DOMAIN before \subseteq LineEnds(f) BY <1>8
  <2> QED BY <1>3, <1>9, <2>1, <2>2, <2>3, <2>4
<1>11. \A e \in DOMAIN before : after[e] = before[e] BY <1>2, <1>8, <1>9, <1>10
<1>12. DOMAIN before \in SUBSET (1..Len(f))
  <2>1. DOMAIN before \subseteq LineEnds(f) BY <1>8
  <2>2. LineEnds(f) \subseteq 1..Len(f) BY <1>5, ParsedIs
  <2> QED BY <2>1, <2>2
<1>13. ByAge(after) = Append(ByAge(before), after[n])
  BY <1>4, <1>7, <1>10, <1>11, <1>12, AgeBehind
<1>14. ByAge(before) \in Seq(Record) BY <1>4, <1>7, <1>12, AgeType
<1> QED BY <1>10, <1>13, <1>14 DEF before, after, g, s

\* A line of another session leaves a session's records as they are.
LEMMA OwnSame ==
    ASSUME NEW f \in Seq(Cell), Tidy(f), NEW r \in Record, NEW s, r.session # s
    PROVE  OfSession(Parsed(f \o Line(r)), s) = OfSession(Parsed(f), s)
<1> DEFINE g == f \o Line(r)
           n == Len(f) + Size[r.plan] + 1
           before == OfSession(Parsed(f), s)
           after == OfSession(Parsed(g), s)
<1>1. LineEnds(g) = LineEnds(f) \cup {n} BY AddLine
<1>2. \A e \in LineEnds(f) : e \in Nat /\ e < n /\ g[e - 1] = f[e - 1] BY AddLine, Zenon
<1>3. g[n - 1].rec = r BY AddLine
<1> HIDE DEF g, n
<1>4. \A b : OfSession(Parsed(b), s)
                = [e \in {x \in LineEnds(b) : b[x - 1].rec.session = s} |-> b[e - 1].rec]
  BY ParsedIs DEF OfSession, Restrict
<1>5. /\ before = [e \in {x \in LineEnds(f) : f[x - 1].rec.session = s} |-> f[e - 1].rec]
      /\ after = [e \in {x \in LineEnds(g) : g[x - 1].rec.session = s} |-> g[e - 1].rec]
  BY <1>4
<1>6. {x \in LineEnds(g) : g[x - 1].rec.session = s}
        = {x \in LineEnds(f) : f[x - 1].rec.session = s}
  BY <1>1, <1>2, <1>3
<1> QED BY <1>2, <1>5, <1>6 DEF g

\* The next plan's line.
LEMMA HoldsMore ==
    ASSUME NEW f \in Seq(Cell), Tidy(f), NEW s \in Sessions, NEW plans \in Seq(Plans),
           NEW n \in Nat, n + 1 <= Len(plans), Holds(f, s, plans, n)
    PROVE  Holds(f \o Line(Filed(s, plans[n + 1])), s, plans, n + 1)
<1> DEFINE all == AllFiled(s, plans)
           r == Filed(s, plans[n + 1])
           g == f \o Line(r)
           Mine(k) == {i \in 1..k : all[i].session = s}
<1>1. \A i \in 1..Len(plans) : plans[i] \in Plans /\ Filed(s, plans[i]) \in Record
  BY ConstantsAssumption DEF Filed, Record
<1>2. n + 1 \in 1..Len(plans) OBVIOUS
<1>3. all \in Seq(Record) /\ Len(all) = Len(plans) /\ all[n + 1] = r BY <1>1, <1>2 DEF AllFiled
<1>4. r \in Record BY <1>1, <1>2
<1> HIDE DEF all, r
<1>5. Written(g) = Written(f) \cup {r} BY <1>4, WrittenMore
<1>6. \A i \in 1..(n + 1) : all[i] \in Written(g)
  <2>1. \A i \in 1..(n + 1) : i \in 1..n \/ i = n + 1 OBVIOUS
  <2>2. \A i \in 1..n : all[i] \in Written(f) BY DEF Holds, all
  <2> HIDE DEF g
  <2> QED BY <1>3, <1>5, <2>1, <2>2
<1>7. ByAge(OfSession(Parsed(f), s)) = Cut(all, Mine(n)) BY DEF Holds, OwnFiled, all
<1>8. CASE r.session = s
  <2>1. Mine(n + 1) = Mine(n) \cup {n + 1} BY <1>3, <1>8
  <2>2. Mine(n) \in SUBSET (1..n) /\ n + 1 \in DOMAIN all /\ n < n + 1 BY <1>2, <1>3
  <2> HIDE DEF Mine
  <2>3. Cut(all, Mine(n) \cup {n + 1}) = Append(Cut(all, Mine(n)), r) BY <1>3, <2>2, CutBehind
  <2>4. ByAge(OfSession(Parsed(g), s)) = Append(ByAge(OfSession(Parsed(f), s)), r)
    BY <1>4, <1>8, OwnMore
  <2>5. ByAge(OfSession(Parsed(g), s)) = Cut(all, Mine(n + 1)) BY <1>7, <2>1, <2>3, <2>4
  <2> QED BY <1>6, <2>5 DEF Holds, OwnFiled, Mine, all, g, r
<1>9. CASE r.session # s
  <2>1. Mine(n + 1) = Mine(n)
    <3>1. \A i \in 1..(n + 1) : i \in 1..n \/ i = n + 1 OBVIOUS
    <3>2. \A i \in 1..n : i \in 1..(n + 1) OBVIOUS
    <3> QED BY <1>3, <1>9, <3>1, <3>2
  <2>2. OfSession(Parsed(g), s) = OfSession(Parsed(f), s) BY <1>4, <1>9, OwnSame
  <2>3. ByAge(OfSession(Parsed(g), s)) = Cut(all, Mine(n + 1)) BY <1>7, <2>1, <2>2
  <2> QED BY <1>6, <2>3 DEF Holds, OwnFiled, Mine, all, g, r
<1> QED BY <1>8, <1>9

\* A file without the session holds none of its plans.
LEMMA HoldsNothing ==
    ASSUME NEW f, NEW s, NEW plans, \A r \in Written(f) : r.session # s
    PROVE  Holds(f, s, plans, 0)
<1>1. DOMAIN OfSession(Parsed(f), s) = {}
  <2>1. \A e \in DOMAIN Parsed(f) : Parsed(f)[e] \in Written(f) BY ParsedIs DEF Written
  <2> QED BY <2>1 DEF OfSession, Restrict
<1>2. ByAge(OfSession(Parsed(f), s)) = <<>> BY <1>1, AgeNone
<1>3. OwnFiled(s, plans, 0) = <<>>
  <2>1. {i \in 1..0 : AllFiled(s, plans)[i].session = s} = {} OBVIOUS
  <2>2. Cardinality({}) = 0 BY FS_EmptySet
  <2> QED BY <2>1, <2>2 DEF OwnFiled, Cut
<1> QED BY <1>2, <1>3 DEF Holds

LEMMA StepSave ==
    ASSUME Alone, TypeInv, CallInv, Steady, TidyInv, LedgerInv, SaveInv, NEW c \in Clients,
           Step(c) \/ Lock(c), pc'[c] # "idle", call'[c].op = "save"
    PROVE  /\ Behind(c)' >= 0
           /\ \A i \in 1..Len(call'[c].todo) : call'[c].todo[i] = call'[c].given[Behind(c)' + i]
           /\ pc'[c] \in {"read", "lockRewrite", "rewrite"} => Behind(c)' = 0
           /\ pc'[c] \in {"admit", "lockAppend", "append"} => HasStored(c, Behind(c))'
           /\ pc'[c] = "syncAppend" => HasStored(c, Behind(c) + 1)'
<1>0. pc \in [Clients -> Pc] /\ file \in Seq(Cell) /\ call \in [Clients -> CallRecord]
  BY DEF TypeInv, TypeOK
<1>01. PICK todo \in Seq(Plans) : todo = call[c].todo BY <1>0 DEF CallRecord
<1>02. PICK given \in Seq(Plans) : given = call[c].given BY <1>0 DEF CallRecord
<1>03. PICK s \in Sessions : s = call[c].session BY <1>0 DEF CallRecord
<1> DEFINE n == Len(given) - Len(todo)
<1>04. Len(todo) \in Nat /\ Len(given) \in Nat /\ n \in Int OBVIOUS
<1>00. /\ pc[c] # "idle"
       /\ call'[c].session = s /\ call'[c].op = call[c].op
  BY <1>03, LedgerStep
<1>1. /\ n >= 0
      /\ \A i \in 1..Len(todo) : todo[i] = given[n + i]
      /\ pc[c] \in {"read", "lockRewrite", "rewrite"} => n = 0
      /\ pc[c] \in {"admit", "lockAppend", "append"} => Holds(file, s, given, n)
      /\ pc[c] = "syncAppend" => Holds(file, s, given, n + 1)
  BY <1>00, <1>01, <1>02, <1>03 DEF SaveInv, Behind, HasStored
<1>2. CASE SyncAppend(c)
  <2>1. /\ call' = [call EXCEPT ![c].todo = Tail(@)] /\ file' = file /\ pc[c] = "syncAppend"
        /\ pc' = [pc EXCEPT ![c] = "idle"] \/ pc' = [pc EXCEPT ![c] = "admit"]
    BY <1>2 DEF SyncAppend, Return
  <2>2. pc'[c] = "admit" BY <1>0, <2>1
  <2>3. todo # <<>> BY <1>01, <2>1 DEF TypeInv, TodoKept, Appending
  <2>4. call'[c].todo = Tail(todo) /\ call'[c].given = given BY <1>0, <1>01, <1>02, <2>1 DEF CallRecord
  <2>5. /\ Len(Tail(todo)) = Len(todo) - 1
        /\ \A i \in 1..Len(Tail(todo)) : Tail(todo)[i] = todo[i + 1] /\ i + 1 \in 1..Len(todo)
    BY <1>0, <2>3
  <2>6. Behind(c)' = n + 1
    <3>1. Behind(c)' = Len(given) - Len(Tail(todo)) BY <2>4 DEF Behind
    <3>2. Len(given) - (Len(todo) - 1) = n + 1 BY <1>04
    <3> QED BY <2>5, <3>1, <3>2
  <2>7. \A i \in 1..Len(Tail(todo)) : Tail(todo)[i] = given[(n + 1) + i]
    <3> SUFFICES ASSUME NEW i \in 1..Len(Tail(todo)) PROVE Tail(todo)[i] = given[(n + 1) + i]
      OBVIOUS
    <3>1. Tail(todo)[i] = given[n + (i + 1)] BY <1>1, <2>5
    <3>2. n + (i + 1) = (n + 1) + i BY <2>5
    <3> QED BY <3>1, <3>2
  <2>8. n + 1 >= 0 BY <1>04, <1>1
  <2>9. HasStored(c, Behind(c))'
    <3>1. Holds(file, s, given, n + 1)' BY <1>1, <2>1 DEF Holds
    <3> QED BY <1>00, <2>4, <2>6, <3>1 DEF HasStored
  <2> QED BY <2>2, <2>4, <2>6, <2>7, <2>8, <2>9
<1>3. ASSUME ~SyncAppend(c) PROVE call' = call
  BY <1>3 DEF Step, Lock, ReadCell, ReadCorrupt, ReadAnswers, ReadKeeps, EncodeRecord,
         SyncRewrite, RejectRed, Admit, AppendLine, LockRewrite, LockAppend
<1>4. ASSUME call' = call
      PROVE  /\ Behind(c)' = n
             /\ \A i \in 1..Len(call'[c].todo) :
                  call'[c].todo[i] = call'[c].given[Behind(c)' + i]
             /\ Holds(file', s, given, n) => HasStored(c, Behind(c))'
             /\ Holds(file', s, given, n + 1) => HasStored(c, Behind(c) + 1)'
  <2>1. Behind(c)' = n BY <1>01, <1>02, <1>4 DEF Behind
  <2>2. call'[c].todo = todo /\ call'[c].given = given /\ call'[c].session = s
    BY <1>01, <1>02, <1>03, <1>4
  <2>3. \A k : Holds(file', s, given, k) <=> Holds(file', call'[c].session, call'[c].given, k)
    BY <2>2
  <2> QED BY <1>1, <2>1, <2>2, <2>3 DEF HasStored
<1>5. CASE AppendLine(c)
  <2>1. /\ file' = file \o Line(Target(c)) /\ pc[c] = "append" /\ pc' = [pc EXCEPT ![c] = "syncAppend"]
        /\ call' = call
    BY <1>5 DEF AppendLine
  <2>2. todo # <<>> BY <1>01, <2>1 DEF Appending, TypeInv, TodoKept
  <2>3. n \in Nat /\ n + 1 <= Len(given) BY <1>04, <1>1, <2>2
  <2>4. Target(c) = Filed(s, given[n + 1])
    <3>1. Head(todo) = todo[1] /\ 1 \in 1..Len(todo) BY <2>2
    <3> QED BY <1>01, <1>03, <1>1, <3>1 DEF Target
  <2>5. Tidy(file) /\ Holds(file, s, given, n) BY <1>1, <2>1 DEF TidyInv
  <2>6. Holds(file \o Line(Filed(s, given[n + 1])), s, given, n + 1)
    <3> HIDE DEF n
    <3> QED BY <1>0, <2>3, <2>5, HoldsMore
  <2>7. HasStored(c, Behind(c) + 1)' BY <1>4, <2>1, <2>4, <2>6
  <2>8. pc'[c] = "syncAppend" BY <1>0, <2>1
  <2> QED BY <1>1, <1>4, <2>1, <2>7, <2>8
<1>6. CASE SyncRewrite(c)
  <2>1. /\ file' = file /\ pc[c] = "rewrite" /\ call' = call
        /\ pc' = [pc EXCEPT ![c] = "idle"] \/ pc' = [pc EXCEPT ![c] = "admit"]
    BY <1>6 DEF SyncRewrite, Return
  <2>2. pc'[c] = "admit" /\ n = 0 BY <1>0, <1>1, <2>1
  <2>3. \A r \in Written(file) : r.session # s BY <1>03, <2>1 DEF LedgerInv, Shelf
  <2>4. Holds(file, s, given, 0) BY <2>3, HoldsNothing
  <2>5. HasStored(c, Behind(c))'
    <3> HIDE DEF n
    <3> QED BY <1>4, <2>1, <2>2, <2>4
  <2> QED BY <1>1, <1>4, <2>1, <2>2, <2>5
<1>7. CASE EncodeRecord(c) \/ LockRewrite(c)
  <2>1. pc[c] \in {"lockRewrite", "rewrite"} /\ pc'[c] = "rewrite" /\ call' = call
    BY <1>0, <1>7 DEF EncodeRecord, LockRewrite
  <2>2. Behind(c)' = 0 BY <1>1, <1>4, <2>1
  <2> QED BY <1>4, <2>1, <2>2
<1>8. CASE ~SyncAppend(c) /\ ~AppendLine(c) /\ ~SyncRewrite(c) /\ ~EncodeRecord(c) /\ ~LockRewrite(c)
  <2>1. file' = file /\ call' = call BY <1>3, <1>8, StepFile
  <2>2. /\ pc'[c] \in {"read", "lockRewrite", "rewrite"} => pc[c] = "read"
        /\ pc'[c] \in {"admit", "lockAppend", "append"} => pc[c] \in {"admit", "lockAppend", "append"}
        /\ pc'[c] # "syncAppend"
    BY <1>0, <1>8 DEF Step, Lock, ReadCell, ReadCorrupt, ReadAnswers, ReadKeeps, RejectRed, Admit,
                      LockAppend, Return, AtEOF
  <2>3. /\ pc[c] = "read" => Behind(c)' = 0
        /\ pc[c] \in {"admit", "lockAppend", "append"} => HasStored(c, Behind(c))'
    BY <1>1, <1>4, <2>1
  <2> QED BY <1>1, <1>4, <2>1, <2>2, <2>3
<1> QED BY <1>2, <1>5, <1>6, <1>7, <1>8

LEMMA SaveKept ==
    ASSUME Alone, TypeInv, CallInv, TidyInv, LedgerInv, SaveInv, [Next]_vars
    PROVE  SaveInv'
<1> SUFFICES ASSUME Steady' PROVE SaveInv' BY DEF SaveInv
<1>0. pc \in [Clients -> Pc] /\ call \in [Clients -> CallRecord] BY DEF TypeInv, TypeOK
<1>1. /\ Steady
      /\ \/ \E c \in Clients : Start(c) \/ Step(c) \/ Lock(c)
         \/ UNCHANGED vars
  BY SteadyNext
<1>2. CASE \E c \in Clients : Step(c) \/ Lock(c)
  <2>1. PICK c \in Clients : Step(c) \/ Lock(c) BY <1>2
  <2>2. \A d \in Clients : d = c BY <2>1 DEF Alone
  <2>3. SUFFICES ASSUME pc'[c] # "idle", call'[c].op = "save"
                 PROVE  /\ Behind(c)' >= 0
                        /\ \A i \in 1..Len(call'[c].todo) :
                             call'[c].todo[i] = call'[c].given[Behind(c)' + i]
                        /\ pc'[c] \in {"read", "lockRewrite", "rewrite"} => Behind(c)' = 0
                        /\ pc'[c] \in {"admit", "lockAppend", "append"}
                             => HasStored(c, Behind(c))'
                        /\ pc'[c] = "syncAppend" => HasStored(c, Behind(c) + 1)'
    BY <2>2 DEF SaveInv
  <2> QED BY <1>1, <2>1, <2>3, StepSave
<1>3. CASE \E c \in Clients : Start(c)
  <2>1. PICK c \in Clients : Start(c) BY <1>3
  <2>2. \A d \in Clients : d = c BY <2>1 DEF Alone
  <2>3. PICK op \in OpName, s \in Sessions, todo \in Seq(Plans) :
          \E first \in {"admit", "read"} :
             /\ Begin(c, op, s, todo, first)
             /\ first = "admit" <=> op = "store"
    BY <2>1, StartFresh
  <2>4. PICK first \in {"admit", "read"} :
             /\ Begin(c, op, s, todo, first)
             /\ first = "admit" <=> op = "store"
    BY <2>3
  <2>5. /\ call'[c].op = op /\ call'[c].todo = todo /\ call'[c].given = todo
        /\ pc'[c] = first
    BY <1>0, <2>4 DEF Begin
  <2>6. Behind(c)' = 0 /\ Len(todo) \in Nat
    <3>1. Behind(c)' = Len(todo) - Len(todo) /\ Len(todo) \in Nat BY <2>5 DEF Behind
    <3> QED BY <3>1
  <2>7. \A i \in 1..Len(todo) : todo[i] = todo[0 + i] OBVIOUS
  <2>8. op = "save" => pc'[c] = "read" BY <2>4, <2>5
  <2>9. \A i \in 1..Len(call'[c].todo) : call'[c].todo[i] = call'[c].given[Behind(c)' + i]
    BY <2>5, <2>6, <2>7
  <2> QED BY <2>2, <2>5, <2>6, <2>8, <2>9 DEF SaveInv
<1>4. CASE UNCHANGED vars
  BY <1>1, <1>4, ZenonT(60) DEF vars, SaveInv, Behind, HasStored, Holds
<1> QED BY <1>1, <1>2, <1>3, <1>4

LEMMA SaveAnswers ==
    ASSUME Alone, TypeInv, CallInv, TidyInv, LedgerInv, ResultInv, SaveInv, [Next]_vars,
           Steady, Steady', NEW c \in Clients, pc[c] # "idle", call[c].op = "save",
           result'[c].status = "ok"
    PROVE  Holds(file', call[c].session, call[c].given, Len(call[c].given))
<1>0. /\ pc \in [Clients -> Pc] /\ call \in [Clients -> CallRecord] /\ DOMAIN result = Clients
      /\ file \in Seq(Cell)
  BY DEF TypeInv, TypeOK
<1>1. result'[c] # result[c] BY DEF ResultInv, Pending
<1>2. Step(c) \/ Lock(c)
  <2>1. result' # result BY <1>1
  <2>2. PICK d \in Clients : Start(d) \/ Step(d) \/ Lock(d) BY <2>1, SteadyNext DEF vars
  <2>3. d = c BY DEF Alone
  <2>4. ~Start(c)
    BY DEF Start, StoreContextPlan, LoadPriorPlan, Load, Delete, Save, BeginRemoval, Begin
  <2> QED BY <2>2, <2>3, <2>4
<1>3. PICK todo \in Seq(Plans) : todo = call[c].todo BY <1>0 DEF CallRecord
<1>4. PICK given \in Seq(Plans) : given = call[c].given BY <1>0 DEF CallRecord
<1>5. PICK s \in Sessions : s = call[c].session BY <1>0 DEF CallRecord
<1>6. Len(todo) \in Nat /\ Len(given) \in Nat OBVIOUS
<1>7. /\ pc[c] = "syncAppend" => Holds(file, s, given, (Len(given) - Len(todo)) + 1)
      /\ pc[c] = "rewrite" => Len(given) - Len(todo) = 0
  BY <1>3, <1>4, <1>5 DEF SaveInv, Behind, HasStored
<1>8. (SyncAppend(c) /\ Len(todo) = 1) \/ (SyncRewrite(c) /\ todo = <<>>)
  <2>1. ~Lock(c) /\ ~ReadCell(c) /\ ~ReadKeeps(c) /\ ~EncodeRecord(c) /\ ~Admit(c) /\ ~AppendLine(c)
    BY <1>1 DEF Lock, LockRewrite, LockAppend, ReadCell, ReadKeeps, EncodeRecord, Admit, AppendLine
  <2>2. ~ReadCorrupt(c) /\ ~RejectRed(c)
    BY <1>0 DEF ReadCorrupt, RejectRed, Return
  <2>3. ~ReadAnswers(c) BY DEF ReadAnswers
  <2>4. SyncAppend(c) \/ SyncRewrite(c) BY <1>2, <2>1, <2>2, <2>3 DEF Step
  <2> QED BY <1>1, <1>3, <2>4 DEF SyncAppend, SyncRewrite
<1>9. file' = file BY <1>8 DEF SyncAppend, SyncRewrite
<1>10. CASE SyncAppend(c) /\ Len(todo) = 1
  <2>1. pc[c] = "syncAppend" BY <1>10 DEF SyncAppend
  <2>2. (Len(given) - Len(todo)) + 1 = Len(given) BY <1>6, <1>10
  <2> QED BY <1>4, <1>5, <1>7, <1>9, <2>1, <2>2
<1>11. CASE SyncRewrite(c) /\ todo = <<>>
  <2>1. pc[c] = "rewrite" /\ DOMAIN rest[c] = {} BY <1>11 DEF SyncRewrite
  <2>2. Len(given) = 0 BY <1>6, <1>7, <1>11, <2>1
  <2>3. \A r \in Written(file) : r.session # s BY <1>5, <2>1 DEF LedgerInv, Shelf
  <2>4. Holds(file, s, given, 0) BY <2>3, HoldsNothing
  <2> QED BY <1>4, <1>5, <1>9, <2>2, <2>4
<1> QED BY <1>8, <1>10, <1>11

\* While no system call fails and the process runs, a Save of the file's only caller
\* that returns nil leaves its session exactly those of the given plans that are filed
\* under it, in their order, whatever the file held before, and stores the others, given
\* to the empty ID with an ID of their own, under that.
THEOREM SavesReplace ==
    ASSUME Alone
    PROVE  Spec /\ []Steady => SaveReplaces
<1> DEFINE Replaces == \A c \in Clients :
             pc[c] # "idle" /\ call[c].op = "save" /\ result'[c].status = "ok" =>
               LET s     == call[c].session
                   given == [i \in 1..Len(call[c].given) |-> Filed(s, call[c].given[i])]
               IN  /\ ByAge(OfSession(Parsed(file'), s))
                        = Cut(given, {i \in DOMAIN given : given[i].session = s})
                   /\ Range(given) \subseteq Range(Parsed(file'))
           Inv == TypeInv /\ CallInv /\ TidyInv /\ LedgerInv /\ ResultInv /\ SaveInv
<1>1. Inv /\ Steady /\ Steady' /\ [Next]_vars => [Replaces]_vars
  <2> SUFFICES ASSUME Inv, Steady, Steady', [Next]_vars, NEW c \in Clients,
                      pc[c] # "idle", call[c].op = "save", result'[c].status = "ok"
               PROVE  LET given == AllFiled(call[c].session, call[c].given)
                      IN  /\ ByAge(OfSession(Parsed(file'), call[c].session))
                               = Cut(given, {i \in DOMAIN given : given[i].session = call[c].session})
                          /\ Range(given) \subseteq Range(Parsed(file'))
    BY DEF AllFiled
  <2> DEFINE given == AllFiled(call[c].session, call[c].given)
  <2>1. Holds(file', call[c].session, call[c].given, Len(call[c].given)) BY SaveAnswers
  <2>2. DOMAIN given = 1..Len(call[c].given) BY DEF AllFiled
  <2>3. ByAge(OfSession(Parsed(file'), call[c].session))
          = Cut(given, {i \in DOMAIN given : given[i].session = call[c].session})
    BY <2>1, <2>2 DEF Holds, OwnFiled
  <2>4. \A i \in DOMAIN given : given[i] \in Written(file') BY <2>1, <2>2 DEF Holds
  <2>5. Range(Parsed(file')) = Written(file') BY ParsedIs
  <2> HIDE DEF given
  <2>6. Range(given) \subseteq Range(Parsed(file')) BY <2>4, <2>5 DEF Range
  <2> QED BY <2>3, <2>6 DEF given
<1>2. SaveReplaces <=> [][Replaces]_vars BY Zenon DEF SaveReplaces
<1>3. Init => ResultInv /\ SaveInv BY DEF Init, ResultInv, SaveInv
<1>4. Settled BY DEF Settled
<1>5. Spec => []Inv
  <2>1. Spec => [](TypeInv /\ CallInv /\ TidyInv /\ LedgerInv) BY <1>4, LedgerTruth, PTL
  <2>2. TypeInv /\ CallInv /\ TidyInv /\ LedgerInv /\ SaveInv /\ [Next]_vars => SaveInv'
    BY SaveKept
  <2>3. Spec => [](ResultInv /\ SaveInv) BY <1>3, <2>1, <2>2, ResultKept, PTL DEF Spec
  <2> QED BY <2>1, <2>3, PTL
<1>6. Spec => [][Next]_vars BY PTL DEF Spec
<1> HIDE DEF Inv, Replaces
<1> QED BY <1>1, <1>2, <1>5, <1>6, PTL
=============================================================================
