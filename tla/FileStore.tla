------------------------------ MODULE FileStore ------------------------------
(***************************************************************************)
(* memory.FileStore (pkg/memory/file_store.go): accepted context plans,    *)
(* one JSON line each, in a file that several goroutines, through one or   *)
(* several FileStore values on the same path, append to, rewrite and read. *)
(*                                                                         *)
(* The file is a sequence of cells.  A record's line is as many cells as   *)
(* its plan is long, followed by the newline; a write(2) of a line is one  *)
(* step, a read(2) sees one cell per step, so readers interleave with      *)
(* writers at any point of the file.                                       *)
(***************************************************************************)
EXTENDS SequencesExt, Ordering

CONSTANTS
    Clients,     \* goroutines that call the store
    Instances,   \* FileStore values; each has its own mutex
    InstanceOf,  \* [Clients -> Instances]
    Sessions,    \* query IDs
    Plans,       \* context plans; each is handed to the store at most once
    RedPlans,    \* the plans whose HygieneSignal is red
    QueryOf,     \* [Plans -> Sessions]: the plan's own QueryID
    EmptyID,     \* the query ID "", which Sessions may or may not have
    Size,        \* [Plans -> Nat \ {0}]: cells of the plan's JSON
    MaxToken,    \* bufio.MaxScanTokenSize, in cells
    NoRecord,    \* stands for "no record" in a cell
    Free,        \* stands for "unlocked"
    Ops,         \* [Clients -> SUBSET OpName]: the calls each client makes
    MaxCalls,    \* bound on the calls of a behaviour
    MaxSave,     \* bound on the plans of one Save
    MaxFaults,   \* bound on failing system calls
    MaxCrashes   \* bound on process kills and power losses

OpName == {"store", "save", "delete", "prior", "load"}
Record == [session : Sessions, plan : Plans]

ASSUME ConstantsAssumption ==
    /\ InstanceOf \in [Clients -> Instances]
    /\ Sessions # {}
    /\ RedPlans \subseteq Plans
    /\ QueryOf \in [Plans -> Sessions]
    /\ Size \in [Plans -> Nat \ {0}]
    /\ MaxToken \in Nat /\ MaxCalls \in Nat /\ MaxSave \in Nat
    /\ MaxFaults \in Nat /\ MaxCrashes \in Nat
    /\ NoRecord \notin Record
    /\ Free \notin Clients
    /\ Ops \in [Clients -> SUBSET OpName]

VARIABLES
    file,     \* the cells of the file; a missing file is an empty one
    disk,     \* the contents at the last fsync
    holder,   \* [Instances -> Clients \cup {Free}]: who holds mu
    pc,       \* [Clients -> Pc]: where each client is in its call
    call,     \* the arguments of the call, and the plans it has still to store
    buf,      \* the cells records() has read so far
    rest,     \* the records replaceRecords has still to encode, as Parsed gives them
    off,      \* the file offset of the rewriting descriptor
    result,   \* what the last call returned
    used,     \* the plans handed to the store so far
    live,     \* history: records acknowledged and not deleted since
    synced,   \* history: records acknowledged since the file was last truncated
    noted,    \* history: the session's live records when the call began
    gone,     \* history: records whose removal was acknowledged
    calls, faults, crashes  \* counters for the bounds

fileVars  == <<file, disk>>
histVars  == <<live, synced, noted, gone>>
boundVars == <<calls, faults, crashes>>
vars == <<file, disk, holder, pc, call, buf, rest, off, result, used,
          live, synced, noted, gone, calls, faults, crashes>>

-----------------------------------------------------------------------------
(* Lines and how they parse.                                               *)

Newline == [rec |-> NoRecord, part |-> 1]
Gap     == [rec |-> NoRecord, part |-> 0]   \* NUL bytes of a hole
Cell    == [rec : Record \cup {NoRecord}, part : Nat]

\* json.Marshal of the record, and the line that is written for it.
Body(r) == [i \in 1..Size[r.plan] |-> [rec |-> r, part |-> i]]
Line(r) == Append(Body(r), Newline)

\* A write of cells l at offset o; a gap before it reads as NULs.
WriteAt(f, o, l) ==
    [i \in 1..(IF o + Len(l) > Len(f) THEN o + Len(l) ELSE Len(f)) |->
        IF o < i /\ i <= o + Len(l) THEN l[i - o]
        ELSE IF i <= Len(f) THEN f[i] ELSE Gap]

\* The positions where bufio.Scanner ends a line; the last one may lack its \n.
Ends(b) ==
    {i \in 1..Len(b) : b[i] = Newline}
    \cup {i \in {Len(b) + 1} : b # <<>> /\ b[Len(b)] # Newline}

Blank(b, e) == e > 1 => b[e - 1] = Newline

\* The line that ends before e is one whole record, that of its last cell.
Whole(b, e) ==
    LET r == b[e - 1].rec
        first == e - Size[r.plan]
    IN  /\ r # NoRecord
        /\ first >= 1
        /\ first > 1 => b[first - 1] = Newline
        /\ \A k \in 1..Size[r.plan] : b[first + k - 1] = [rec |-> r, part |-> k]

\* records() accepts the bytes: each line is blank or a whole record, and none
\* is longer than the scanner's buffer.
Readable(b) ==
    \A e \in Ends(b) : ~Blank(b, e) => Whole(b, e) /\ Size[b[e - 1].rec.plan] < MaxToken

\* The records of a readable file, each at the place where its line ends: the
\* smaller the place, the older the record.
Parsed(b) == [e \in {x \in Ends(b) : ~Blank(b, x)} |-> b[e - 1].rec]

OfSession(m, s) == Restrict(m, {e \in DOMAIN m : m[e].session = s})

\* Mutant of Without: Delete forgets to filter.
WithoutNone(m, s) == m
Without(m, s) == Restrict(m, {e \in DOMAIN m : m[e].session # s})

\* Mutant of Newest: a miss is answered with an empty plan, as if it were found.
EmptyPlan(m, s) ==
    LET own == OfSession(m, s)
    IN  IF DOMAIN own = {} THEN [e \in {1} |-> NoRecord]
        ELSE Restrict(own, {e \in DOMAIN own : \A x \in DOMAIN own : x <= e})
Newest(m, s) ==
    LET own == OfSession(m, s)
    IN  Restrict(own, {e \in DOMAIN own : \A x \in DOMAIN own : x <= e})

None == [e \in {} |-> NoRecord]

\* The place of the oldest record, as a set of at most one.
Oldest(m) == {e \in DOMAIN m : \A x \in DOMAIN m : e <= x}

-----------------------------------------------------------------------------
(* Calls and returns.                                                      *)

Pc == {"idle", "admit", "read", "lockAppend", "append", "lockRewrite",
       "rewrite", "syncAppend"}
Status  == {"pending", "ok", "red", "corrupt", "io"}
Pending == [status |-> "pending", recs |-> None]
NoCall  == [op |-> "load", session |-> CHOOSE s \in Sessions : TRUE,
            todo |-> <<>>, given |-> <<>>]

Init ==
    /\ file = <<>> /\ disk = <<>>
    /\ holder = [n \in Instances |-> Free]
    /\ pc = [c \in Clients |-> "idle"]
    /\ call = [c \in Clients |-> NoCall]
    /\ buf = [c \in Clients |-> <<>>]
    /\ rest = [c \in Clients |-> None]
    /\ off = [c \in Clients |-> 0]
    /\ result = [c \in Clients |-> Pending]
    /\ used = {} /\ live = {} /\ synced = {} /\ gone = {}
    /\ noted = [c \in Clients |-> {}]
    /\ calls = 0 /\ faults = 0 /\ crashes = 0

Begin(c, op, s, todo, first) ==
    /\ pc[c] = "idle"
    /\ op \in Ops[c]
    /\ calls < MaxCalls
    /\ calls' = calls + 1
    /\ call' = [call EXCEPT ![c] =
                  [op |-> op, session |-> s, todo |-> todo, given |-> todo]]
    /\ pc' = [pc EXCEPT ![c] = first]
    /\ result' = [result EXCEPT ![c] = Pending]
    /\ used' = used \cup ToSet(todo)
    /\ buf' = [buf EXCEPT ![c] = <<>>]
    /\ noted' = [noted EXCEPT ![c] = {r \in live : r.session = s}]
    /\ UNCHANGED <<file, disk, holder, rest, off, synced, gone, faults, crashes>>

Return(c, status, recs) ==
    /\ pc' = [pc EXCEPT ![c] = "idle"]
    /\ result' = [result EXCEPT ![c] = [status |-> status, recs |-> recs]]

\* Mutant of Release: a path without the deferred Unlock.
KeepLock(c) == UNCHANGED holder

Release(c) == holder' = [holder EXCEPT ![InstanceOf[c]] = Free]

\* A plan that is stored under the empty ID goes under its own, if it has one.
Filed(s, p) == [session |-> IF s = EmptyID THEN QueryOf[p] ELSE s, plan |-> p]
Target(c)   == Filed(call[c].session, Head(call[c].todo))
Removing(c) == call[c].op \in {"save", "delete"}
               /\ pc[c] \in {"read", "lockRewrite", "rewrite"}

StoreContextPlan(c) ==
    /\ \E s \in Sessions, p \in Plans \ used : Begin(c, "store", s, <<p>>, "admit")
    /\ UNCHANGED live

LoadPriorPlan(c) ==
    /\ \E s \in Sessions : Begin(c, "prior", s, <<>>, "read")
    /\ UNCHANGED live

Load(c) ==
    /\ \E s \in Sessions : Begin(c, "load", s, <<>>, "read")
    /\ UNCHANGED live

\* From here on the caller no longer counts on the session's plans being kept.
BeginRemoval(c, op, s, todo) ==
    /\ Begin(c, op, s, todo, "read")
    /\ live' = {r \in live : r.session # s}

Delete(c) == \E s \in Sessions : BeginRemoval(c, "delete", s, <<>>)

FreshLists == UNION {{t \in [1..n -> Plans \ used] : IsInjective(t)} : n \in 0..MaxSave}
Save(c) == \E s \in Sessions, t \in FreshLists : BeginRemoval(c, "save", s, t)

-----------------------------------------------------------------------------
(* records(): open without the mutex, scan to the end, parse.              *)

ReadCell(c) ==
    /\ pc[c] = "read"
    /\ Len(buf[c]) < Len(file)
    /\ buf' = [buf EXCEPT ![c] = Append(@, file[Len(@) + 1])]
    /\ UNCHANGED <<file, disk, holder, pc, call, rest, off, result, used,
                   histVars, boundVars>>

\* Mutant of AtEOF: the scan stops at the end of any line.
AtAnyLine(c) ==
    pc[c] = "read" /\ (buf[c] # <<>> => buf[c][Len(buf[c])] = Newline)

AtEOF(c) == pc[c] = "read" /\ Len(buf[c]) >= Len(file)

\* A line that does not parse, or is too long, is the error of every operation.
ReadCorrupt(c) ==
    /\ AtEOF(c)
    /\ ~Readable(buf[c])
    /\ Return(c, "corrupt", None)
    /\ UNCHANGED <<file, disk, holder, call, buf, rest, off, used, histVars, boundVars>>

\* LoadPriorPlan and Load answer from what was read.
ReadAnswers(c) ==
    /\ AtEOF(c)
    /\ Readable(buf[c])
    /\ \/ call[c].op = "prior" /\ Return(c, "ok", Newest(Parsed(buf[c]), call[c].session))
       \/ call[c].op = "load" /\ Return(c, "ok", OfSession(Parsed(buf[c]), call[c].session))
    /\ UNCHANGED <<file, disk, holder, call, buf, rest, off, used, histVars, boundVars>>

\* Delete keeps the records of the other sessions and goes on to replaceRecords.
ReadKeeps(c) ==
    /\ AtEOF(c)
    /\ Readable(buf[c])
    /\ call[c].op \in {"delete", "save"}
    /\ rest' = [rest EXCEPT ![c] = Without(Parsed(buf[c]), call[c].session)]
    /\ pc' = [pc EXCEPT ![c] = "lockRewrite"]
    /\ UNCHANGED <<file, disk, holder, call, buf, off, result, used, histVars, boundVars>>

-----------------------------------------------------------------------------
(* replaceRecords: lock, open with O_TRUNC, encode each record, fsync.     *)

\* Mutant of LockRewrite: the file is opened without O_TRUNC.
LockRewriteInPlace(c) ==
    /\ pc[c] = "lockRewrite"
    /\ holder[InstanceOf[c]] = Free
    /\ holder' = [holder EXCEPT ![InstanceOf[c]] = c]
    /\ off' = [off EXCEPT ![c] = 0]
    /\ pc' = [pc EXCEPT ![c] = "rewrite"]
    /\ UNCHANGED <<file, disk, call, buf, rest, result, used, histVars, boundVars>>

LockRewrite(c) ==
    /\ pc[c] = "lockRewrite"
    /\ holder[InstanceOf[c]] = Free
    /\ holder' = [holder EXCEPT ![InstanceOf[c]] = c]
    /\ file' = <<>> /\ synced' = {}
    /\ off' = [off EXCEPT ![c] = 0]
    /\ pc' = [pc EXCEPT ![c] = "rewrite"]
    /\ UNCHANGED <<disk, call, buf, rest, result, used, live, noted, gone, boundVars>>

\* Mutant of EncodeRecord: every record is written at the file's start.
EncodeAtStart(c) ==
    /\ pc[c] = "rewrite"
    /\ \E e \in Oldest(rest[c]) :
         /\ file' = WriteAt(file, 0, Line(rest[c][e]))
         /\ rest' = [rest EXCEPT ![c] = Restrict(@, DOMAIN @ \ {e})]
    /\ UNCHANGED <<disk, holder, pc, call, buf, off, result, used, histVars, boundVars>>

\* The descriptor is not O_APPEND: the line lands at its own offset.
EncodeRecord(c) ==
    /\ pc[c] = "rewrite"
    /\ \E e \in Oldest(rest[c]) :
         /\ file' = WriteAt(file, off[c], Line(rest[c][e]))
         /\ off' = [off EXCEPT ![c] = @ + Size[rest[c][e].plan] + 1]
         /\ rest' = [rest EXCEPT ![c] = Restrict(@, DOMAIN @ \ {e})]
    /\ UNCHANGED <<disk, holder, pc, call, buf, result, used, histVars, boundVars>>

\* Delete returns; Save goes on to store its plans.
SyncRewrite(c) ==
    /\ pc[c] = "rewrite"
    /\ DOMAIN rest[c] = {}
    /\ disk' = file
    /\ Release(c)
    /\ gone' = gone \cup noted[c]
    /\ IF call[c].todo = <<>>
       THEN Return(c, "ok", None)
       ELSE pc' = [pc EXCEPT ![c] = "admit"] /\ UNCHANGED result
    /\ UNCHANGED <<file, call, buf, rest, off, used, live, synced, noted, boundVars>>

-----------------------------------------------------------------------------
(* StoreContextPlan, called by itself or for each plan of a Save.          *)

RejectRed(c) ==
    /\ pc[c] = "admit"
    /\ Head(call[c].todo) \in RedPlans
    /\ Return(c, "red", None)
    /\ UNCHANGED <<file, disk, holder, call, buf, rest, off, used, histVars, boundVars>>

\* Mutant of Admit: the hygiene signal is not looked at.
AdmitAny(c) ==
    /\ pc[c] = "admit"
    /\ pc' = [pc EXCEPT ![c] = "lockAppend"]
    /\ UNCHANGED <<file, disk, holder, call, buf, rest, off, result, used,
                   histVars, boundVars>>

Admit(c) ==
    /\ pc[c] = "admit"
    /\ Head(call[c].todo) \notin RedPlans
    /\ pc' = [pc EXCEPT ![c] = "lockAppend"]
    /\ UNCHANGED <<file, disk, holder, call, buf, rest, off, result, used,
                   histVars, boundVars>>

\* Mutant of LockAppend: the append does not wait for mu.
AppendUnlocked(c) ==
    /\ pc[c] = "lockAppend"
    /\ pc' = [pc EXCEPT ![c] = "append"]
    /\ UNCHANGED <<file, disk, holder, call, buf, rest, off, result, used,
                   histVars, boundVars>>

LockAppend(c) ==
    /\ pc[c] = "lockAppend"
    /\ holder[InstanceOf[c]] = Free
    /\ holder' = [holder EXCEPT ![InstanceOf[c]] = c]
    /\ pc' = [pc EXCEPT ![c] = "append"]
    /\ UNCHANGED <<file, disk, call, buf, rest, off, result, used, histVars, boundVars>>

\* Mutant of AppendLine: opened without O_APPEND.
AppendAtStart(c) ==
    /\ pc[c] = "append"
    /\ file' = WriteAt(file, 0, Line(Target(c)))
    /\ pc' = [pc EXCEPT ![c] = "syncAppend"]
    /\ UNCHANGED <<disk, holder, call, buf, rest, off, result, used, histVars, boundVars>>

\* O_APPEND: the whole line goes to wherever the file ends now.
AppendLine(c) ==
    /\ pc[c] = "append"
    /\ file' = file \o Line(Target(c))
    /\ pc' = [pc EXCEPT ![c] = "syncAppend"]
    /\ UNCHANGED <<disk, holder, call, buf, rest, off, result, used, histVars, boundVars>>

\* Mutants of SyncAppend: acknowledge without fsync, and after a Save's first plan.
AcknowledgeUnsynced(c) ==
    /\ pc[c] = "syncAppend"
    /\ Release(c)
    /\ live' = live \cup {Target(c)} /\ synced' = synced \cup {Target(c)}
    /\ call' = [call EXCEPT ![c].todo = Tail(@)]
    /\ Return(c, "ok", None)
    /\ UNCHANGED <<file, disk, buf, rest, off, used, noted, gone, boundVars>>
AcknowledgeFirst(c) ==
    /\ pc[c] = "syncAppend"
    /\ disk' = file
    /\ Release(c)
    /\ live' = live \cup {Target(c)} /\ synced' = synced \cup {Target(c)}
    /\ call' = [call EXCEPT ![c].todo = Tail(@)]
    /\ Return(c, "ok", None)
    /\ UNCHANGED <<file, buf, rest, off, used, noted, gone, boundVars>>

\* fsync, unlock and acknowledge; a Save goes on with its next plan.
SyncAppend(c) ==
    /\ pc[c] = "syncAppend"
    /\ disk' = file
    /\ Release(c)
    /\ live' = IF \E d \in Clients : Removing(d) /\ call[d].session = Target(c).session
               THEN live ELSE live \cup {Target(c)}
    /\ synced' = synced \cup {Target(c)}
    /\ call' = [call EXCEPT ![c].todo = Tail(@)]
    /\ IF Len(call[c].todo) = 1
       THEN Return(c, "ok", None)
       ELSE pc' = [pc EXCEPT ![c] = "admit"] /\ UNCHANGED result
    /\ UNCHANGED <<file, buf, rest, off, used, noted, gone, boundVars>>

-----------------------------------------------------------------------------
(* Failing system calls: the operation returns the error as it stands.     *)

Fail(c) ==
    /\ faults < MaxFaults
    /\ faults' = faults + 1
    /\ Return(c, "io", None)
    /\ UNCHANGED <<disk, call, buf, rest, off, used, histVars, calls, crashes>>

\* open(2) or read(2) fails; nothing was changed yet.
OpenFails(c) ==
    /\ \/ pc[c] = "read"
       \/ pc[c] \in {"lockAppend", "lockRewrite"} /\ holder[InstanceOf[c]] = Free
    /\ Fail(c)
    /\ UNCHANGED <<file, holder>>

\* write(2) fails after some of the line: os.File.Write gives up, leaving it.
AppendFails(c) ==
    /\ pc[c] = "append"
    /\ \E n \in 0..Size[Head(call[c].todo)] :
         file' = file \o SubSeq(Line(Target(c)), 1, n)
    /\ Fail(c)
    /\ Release(c)

EncodeFails(c) ==
    /\ pc[c] = "rewrite"
    /\ \E e \in Oldest(rest[c]) : \E n \in 0..Size[rest[c][e].plan] :
         file' = IF n = 0 THEN file
                 ELSE WriteAt(file, off[c], SubSeq(Line(rest[c][e]), 1, n))
    /\ Fail(c)
    /\ Release(c)

\* fsync fails: the lines are in the file, and the caller is told they are not.
SyncFails(c) ==
    /\ pc[c] = "syncAppend" \/ (pc[c] = "rewrite" /\ DOMAIN rest[c] = {})
    /\ Fail(c)
    /\ Release(c)
    /\ UNCHANGED file

-----------------------------------------------------------------------------
(* Crashes.  The callers restart with no call running and no mutex held.   *)

Restart ==
    /\ crashes < MaxCrashes
    /\ crashes' = crashes + 1
    /\ holder' = [n \in Instances |-> Free]
    /\ pc' = [c \in Clients |-> "idle"]
    /\ result' = [c \in Clients |-> Pending]
    /\ UNCHANGED <<call, buf, rest, off, used, histVars, calls, faults>>

\* The process is killed: the operating system keeps what was written.
Kill == Restart /\ UNCHANGED fileVars

\* Power is lost: what fsync made durable survives, what was appended since in
\* part; after an unsynced truncation the old contents or any part of the new.
PowerLoss ==
    /\ Restart
    /\ \/ file' = disk
       \/ \E n \in 0..Len(file) :
            /\ IsPrefix(disk, file) => n >= Len(disk)
            /\ file' = SubSeq(file, 1, n)
    /\ disk' = file'

-----------------------------------------------------------------------------
Step(c) ==
    \/ ReadCell(c) \/ ReadCorrupt(c) \/ ReadAnswers(c) \/ ReadKeeps(c)
    \/ EncodeRecord(c) \/ SyncRewrite(c)
    \/ RejectRed(c) \/ Admit(c) \/ AppendLine(c) \/ SyncAppend(c)
Lock(c)  == LockRewrite(c) \/ LockAppend(c)
Fault(c) == OpenFails(c) \/ AppendFails(c) \/ EncodeFails(c) \/ SyncFails(c)
Start(c) == StoreContextPlan(c) \/ LoadPriorPlan(c) \/ Load(c) \/ Delete(c) \/ Save(c)

Next ==
    \/ \E c \in Clients : Start(c) \/ Step(c) \/ Lock(c) \/ Fault(c)
    \/ Kill \/ PowerLoss

Spec == Init /\ [][Next]_vars

\* A goroutine inside a call keeps running, and sync.Mutex hands the lock to
\* every waiter in the end (its starvation mode).
FairSpec ==
    Spec /\ \A c \in Clients : WF_vars(Step(c)) /\ SF_vars(Lock(c))

-----------------------------------------------------------------------------
(* Properties.                                                             *)

\* Records at places of a file.
IsParse(m) == DOMAIN m \subseteq Nat /\ \A e \in DOMAIN m : m[e] \in Record

CallRecord == [op : OpName, session : Sessions, todo : Seq(Plans), given : Seq(Plans)]

\* The type of every variable.
TypeOK ==
    /\ file \in Seq(Cell) /\ disk \in Seq(Cell)
    /\ holder \in [Instances -> Clients \cup {Free}]
    /\ pc \in [Clients -> Pc]
    /\ call \in [Clients -> CallRecord]
    /\ buf \in [Clients -> Seq(Cell)]
    /\ DOMAIN rest = Clients /\ \A c \in Clients : IsParse(rest[c])
    /\ off \in [Clients -> Nat]
    /\ DOMAIN result = Clients
    /\ \A c \in Clients : result[c].status \in Status /\ IsParse(result[c].recs)
    /\ used \subseteq Plans
    /\ live \subseteq Record /\ synced \subseteq Record /\ gone \subseteq Record
    /\ noted \in [Clients -> SUBSET Record]
    /\ calls \in Nat /\ faults \in Nat /\ crashes \in Nat

\* Whatever one FileStore value's goroutines do to the file under its mutex, at
\* every instant each line of it is a whole record.
FileReadable == Readable(file)

RecordsIn(b) == {b[e - 1].rec : e \in {x \in Ends(b) : ~Blank(b, x) /\ Whole(b, x)}}

\* An acknowledged plan that nobody asked to delete stays in the file, or is
\* among the records that the running replaceRecords has still to write.
LiveKept ==
    \A r \in live : \/ r \in RecordsIn(file)
                    \/ \E c \in Clients : pc[c] = "rewrite" /\ r \in Range(rest[c])

\* A record whose Delete or Save was acknowledged never comes back.
GoneStaysGone == gone \cap RecordsIn(file) = {}

\* Red plans are not eligible for write-back, on any path (store, Save, the
\* rewrite of what Delete read).
RedNeverStored ==
    \A i \in 1..Len(file) : file[i].rec # NoRecord => file[i].rec.plan \notin RedPlans

HoldsLine(b, r) ==
    \E i \in 0..(Len(b) - Len(Line(r))) :
        \A k \in 1..Len(Line(r)) : b[i + k] = Line(r)[k]

\* Once StoreContextPlan returned nil, the line stays in the file and on disk,
\* whole, through failing calls, kills and power losses, until the next rewrite.
StoredIsDurable == \A r \in synced : HoldsLine(disk, r) /\ HoldsLine(file, r)

\* A read of a session that had an acknowledged plan when the read began, and
\* whose plan nobody asked to delete, returns a plan: "LoadPriorPlan returns the
\* newest stored plan for queryID".
LoadFinds ==
    [][\A c \in Clients :
         /\ pc[c] = "read" /\ call[c].op \in {"prior", "load"}
         /\ result'[c].status \in {"ok", "corrupt"}
         /\ noted[c] \cap live # {}
         => DOMAIN result'[c].recs # {}]_vars

\* Records from the oldest to the newest.
ByAge(m) == Cut(m, DOMAIN m)

\* When Save returns nil the session has exactly those of the plans it was given that
\* are filed under it, in order: all of them, unless the session is the empty ID, which
\* gets those without an ID of their own.  The others are stored under theirs.
SaveReplaces ==
    [][\A c \in Clients :
         pc[c] # "idle" /\ call[c].op = "save" /\ result'[c].status = "ok" =>
           LET s     == call[c].session
               given == [i \in 1..Len(call[c].given) |-> Filed(s, call[c].given[i])]
           IN  /\ ByAge(OfSession(Parsed(file'), s))
                    = Cut(given, {i \in DOMAIN given : given[i].session = s})
               /\ Range(given) \subseteq Range(Parsed(file'))]_vars

\* Every call returns.
CallsReturn == \A c \in Clients : pc[c] # "idle" ~> pc[c] = "idle"

\* The abstract log: what the file holds, and during a rewrite also what is
\* still to be written.  The removal takes effect at the truncation, a store at
\* its write, a read when it meets the end of the file.
BarLog ==
    IF \E c \in Clients : pc[c] = "rewrite"
    THEN ByAge(Parsed(file)) \o ByAge(rest[CHOOSE c \in Clients : pc[c] = "rewrite"])
    ELSE ByAge(Parsed(file))
BarAnswer == [c \in Clients |-> ByAge(result[c].recs)]
Abstract == INSTANCE PlanLog WITH log <- BarLog, answer <- BarAnswer

\* Each operation is atomic: the store implements PlanLog.
ImplementsPlanLog == Abstract!Spec
=============================================================================
