# Verification of citewiser

TLA+ modules, TLC configurations and TLAPS proofs for
[mojomast/citewiser](../src/README.md), a Go program that turns retrieved nodes
(documents, claims, procedures, permission records, ...) into a *context plan*
for a language model, remembers accepted plans, and plans a reading queue from a
citation graph. Paths below are relative to `src/`.

    tlc -config fs_single.cfg MCFileStore.tla      # model-check one run
    tlapm FileStoreProofs.tla                      # check the proofs of a module

## 1. Inventory

### The system

A request reaches `rag.Pipeline.Run` through a library call, the CLI
(`pkg/ragcli`), HTTP or stdio JSON lines (`cmd/serve`). `Run` is a straight line:

    candidates -> ragnode.BuildAnalysis -> Ranker.Rank(req.Access)   -> denied?
               -> Router.Route          -> hygiene.Analyze
               -> Packer.Pack(clearance) -> merge signals -> red without consent?

`memory.FileStore` keeps accepted plans in a JSONL file beside the pipeline; the
callers (an embedding program, several goroutines) decide when to store and load.
The other program, `citewise`, analyses a citation graph in one pass.

| Component | State | Operations | Interacts with | Hard behaviour | What makes it correct |
|---|---|---|---|---|---|
| `memory.FileStore` | the JSONL file; one mutex per value | StoreContextPlan, LoadPriorPlan, SimilarPriorPlans, Load, Save, Delete | shared by goroutines, and by values on one path; the OS | readers and the read half of Delete take no mutex; truncation in place; torn lines; crashes; failing fsync | operations atomic; nothing acknowledged is lost; nothing deleted returns; no red plan stored; calls return |
| re-gating (`memory/redact.go`) | the slots of a loaded plan, `CurrentNodes` | regate, ReuseRejection | access, FileStore | stale and forgotten nodes, aliasing of the slot array | no slot of a known node that the caller may not see *now* |
| `access` | none | CanSeeNode, edges, GovOne contexts | ranker, packer, memory | fail-closed on unknown strings | monotone in clearance, tenants kept apart |
| `packer` | the plan under construction, counts, seen clusters | Pack (select, order, trim, signal) | ranker, provenance | order of rules, trimming against required slots | caps, required slots or red, one slot per cluster, nothing silently dropped, Agentic fails closed |
| `rag` | one request at a time | Run | all of the above | two access decisions with different contexts; two hygiene signals merged | denied requests get nothing; red only by consent |
| `ragcli`, `cmd/serve` | none | pack and one command per component | rag | how an error of Run becomes a reply | each request is answered |
| `provenance` | none | BuildSourceTrail, redaction | packer | expansion follows edges to invisible nodes | trails name visible nodes |
| `ranker` | none | Rank, PersonalizedPageRank | access | floating-point scores, ties | deterministic order, access gate first |
| `hygiene` | none | Analyze, suggestions | rag, citewise engine | score thresholds; two sources of orphans and bridges | both sources agree; suggestions settle |
| `router` | none | Route | rag | order of heuristics | Agentic and Adversarial recognised |
| `ragnode` | none | BuildAnalysis, mappers | citewise engine | duplicate IDs, dangling edges | one node per ID |
| `citewise` | none; its user's backlog file | parsing, duplicates, roles, scores, PlanQueue, the command | CLI, ragnode | union-find, budget of minutes, scores that depend on roles and statuses | clusters are the connected components; queue complete and within budget; reading never hurts |
| `integrations` | none | GraphRAG and LightRAG mappers, hybrid handoffs and their redaction | ragnode, access | ID collisions, what a redaction leaves behind | edges and candidates end at nodes |

The hazards, each at its line, are in `PROJECT.json` with the properties that
cover it.

### Modules

What keeps state across calls and goroutines came first, then the rules that
decide what reaches a model, then the single-pass algorithms, then the proofs.

| Modules | Of | Compose |
|---|---|---|
| `Ordering`, `OrderingProofs` | sorts, filters, appends and sums, and what they return | used by all but `Partition` and `AccessGate` |
| `PlanLog`, `FileStore`, `FileStoreProofs` | the store's file | `FileStore` implements `PlanLog` |
| `AccessGate` | `CanSeeNode` and its contexts | used by the next three and by `RagGraph` |
| `ContextPacker`, `ContextPackerProofs` | Pack | |
| `Pipeline`, `PipelineProofs` | Run and the surfaces | runs `ContextPacker` as a step |
| `PlanReuse`, `PlanReuseProofs` | reading plans back for reuse | the records that `FileStore` keeps in a file |
| `Backlog`, `Citewise` | the `citewise` command and its engine | `Citewise` implements `Partition` |
| `Partition`, `PartitionProofs` | what duplicate detection promises | |
| `ClusterProofs` | that the union-find implements it | `RagGraph` with `PartitionProofs` |
| `RagGraph`, `RagGraphProofs` | mappers, analysis, router, hygiene | calls the engine of `Citewise`, beside the command |
| `MC...` | instances for TLC | |

`RagGraph` makes what `Pipeline` takes as part of a request: the analysis, the
router's recommendation and the hygiene report. They are not one module because
Pack over every list of nodes times every graph is out of reach, and because
what `Pipeline` says holds for any report and recommendation.

## 2. What is modelled

### `PlanLog.tla` - what the store promises
A log of records. `Keep` appends one accepted plan, `Forget` removes all records
of one session and no others, `Answer` reads; each at one instant. Load, Save and
Delete call a query ID a session ID.

### `Ordering.tla`
What `sort.Slice`, `append`, a filter loop and a summing loop make of their input, as
operators over sets and sequences without RECURSIVE, so that the provers can use them:
`Cut`, `InOrder`, `Flat`, `SumOf`.

### `FileStore.tla` - `pkg/memory/file_store.go`
The file is a sequence of *cells*: a record's line is as many cells as its plan is
long (`Size`) and then a newline. That is as much of JSON as matters: where lines
end, whether a line is one whole record, how long it is. A `write(2)` of a line is
one step, as Go issues one per line; reading is one step per cell, so a scan
interleaves with writers everywhere.

| Code | Actions |
|---|---|
| `StoreContextPlan` (:38-82) | `StoreContextPlan`, `RejectRed` or `Admit`, `LockAppend`, `AppendLine`, `SyncAppend` |
| `LoadPriorPlan` (:85), `Load` (:138) | `LoadPriorPlan` / `Load`, `ReadCell`*, `ReadAnswers` or `ReadCorrupt` |
| `Delete` (:169) | `Delete`, `ReadCell`*, `ReadKeeps`, `LockRewrite` (truncates), `EncodeRecord`*, `SyncRewrite` |
| `Save` (:153) | `Save`, the steps of Delete, then those of StoreContextPlan for each plan |
| errors of open, read, write, fsync | `OpenFails`, `AppendFails`, `EncodeFails`, `SyncFails`: part of a line may be left |
| the end of the process, of the power | `Kill`, `PowerLoss` |

`Parsed` gives the records of a file as a function from the places where their
lines end. `holder` is the mutex of each FileStore *value* (`InstanceOf` says
which value a goroutine uses): the mutex belongs to the value, not to the path.
A power loss leaves at least what fsync made durable of an appended file, and
after an unsynced truncation the old contents or any part of the new.

Four variables are history, read by no guard: `live` (records acknowledged that
nobody asked to remove since), `synced` (acknowledged since the last truncation),
`noted` (a session's live records when a call began) and `gone` (records whose
removal was acknowledged). A plan is handed to the store at most once (`used`), so
that a record names one call.

`Filed` is where a plan goes: under the ID of the call, or, if that is the empty one
(`EmptyID`), under the plan's own query ID (`QueryOf`). A Save of the empty ID so removes
what is stored under it and stores the given plans elsewhere, those without an ID apart.

The hashes and time stamps of the payload are left out. What the reads do with the
records, and `SimilarPriorPlans`, are in `PlanReuse`.

### `AccessGate.tla` - `pkg/access`
`CanSeeNode` with its four tests, the two ordinals (an unknown sensitivity counts
as restricted, an unknown clearance as public), the GovOne contexts, and
`PackerContext`, the context in which `Pack` ranks again: clearance only, with
unapproved nodes allowed.

### `ContextPacker.tla` - `pkg/packer`
A call's nodes are numbered in the order that `Rank` gives them, so a smaller
number is a better score; `lowFrom` is where scores fall below 55. That replaces
floating-point scores by all that `Pack` does with them. `Pack` starts a call;
each round of the selection loop is one of `SuppressForbidden`, `SuppressStale`,
`SuppressUnapproved`, `SuppressDuplicate`, `SuppressFull`, `Select`, in the order
of the code's tests; `Trim` is one round of `trimToBudget`; `Finish` computes the
signal. The plan's slots are a set, as their order is a function of it
(`EvidencePath`, from `Before`). `firsts` is `seenDuplicateClusters`. A plan's hash
and critique text are left out.

### `Pipeline.tla` - `pkg/rag`, `pkg/ragcli`, `cmd/serve`
EXTENDS `ContextPacker` and runs it as a step of `Run`: `Receive`, `RejectInvalid`,
`Rank`, `RefuseDenied`, `CallPack`, `PackStep`, `Decide`, `Respond`. What graph, router
and hygiene make of a request is part of the request: whether `BuildAnalysis` accepts
it, the router's query type and budget hint, the hygiene report's signal (`RagGraph`
has how they arise).
`ReplyFor` is what each surface returns.

### `PlanReuse.tla` - `pkg/memory/redact.go`, the reuse policy of `file_store.go`
The stored records are a sequence (the file is `FileStore`'s subject); `caller` and
`current` are the fields `Caller` and `CurrentNodes`, which the host replaces between
calls (`ChangeCaller`, `ChangeNode`, `ForgetNode`). `returned` are the plans the last
read handed out, as their holder has them: `LoadPriorPlan`, `Load` and
`SimilarPriorPlans` re-gate what they return (`Regate`), and `ReuseRejection` re-gates
the plan it is asked about *in the holder's slot array*. `Filtered` is the slice that
`regate` builds in `plan.Slots[:0]`, `Overwritten` is what that leaves in the holder's
slice, whose length does not change. Topic similarity is compared as fractions
(`Similar`, `Closer`), which is what float division decides for sets this small. The
loop over node versions is in map order: any stale node may give the reason
(`StaleReasons`). Query IDs are numbers, 0 is the empty one: `SessionOf` and `QueryOf`
fill in an empty ID of the call from the plan and one of the plan from the call. `offer`
is history.

### `Backlog.tla`, `Citewise.tla` - `pkg/citewise`
`Backlog` has parsing and normalisation: JSON object, JSON array, CSV (with
`IsEdgeRow`), missing IDs (`SlugID`), defaults, refusals. A title is its set of words,
an item's text the cue words in it, IDs are numbers.

`Citewise` runs the command: `Run` or `RunRefused`; `JoinPair` for each pair that
`DetectDuplicates` unites (edges in their order, then similar titles), with the
union-find as the function `parent`, and `find`'s path compression in `Compress`;
`Analyze` for clusters, roles and scores; `Write` for the commands that print;
`StartQueue`, then one `Take` or `Skip` per candidate in the order of totals, and
`EndQueue`. Exit codes are kept, output is not. Between runs `ReadItem` marks an item
as read in the file: the program's environment.
Scores are integers in basis points, rounded down where the code divides; the order of
operations of `scoreItem`, `readiness`, ... is kept, the last bits of floats are not.

### `Partition.tla`
The specification of duplicate detection: `Pose` a question, `Merge` two classes that
a link crosses, `Report` when no link crosses any. `Citewise` implements it with
`classes <- Groups(parent)`.

### `RagGraph.tla` - `integrations`, `ragnode`, `router`, `hygiene`
`Receive` maps what a retriever hands over (`MapExport`, `MapResults`, `MapHandoff`,
`CandidateSetFromBacklog`) to a candidate set; `RedactHandoff` is `RedactForReranker`;
`BuildAnalysis` refuses the set or starts the engine on the backlog made of it;
`RouteQuery`, `AnalyzeHygiene` and `Respond` are the steps of `Run` after it. The host
may take up a suggested edge (`AddSuggestion`) and ask again. `RagNext` interleaves
this with the `citewise` command on a file. A query is the kinds of cue in it, the
nodes it names and its length; a score that meets a threshold exactly may fall on
either side (`SignalsOf`), as the code compares rounded floats.

## 3. What the runs check

| Run | Instance | Question |
|---|---|---|
| `fs_append` | 2 goroutines, each with its own FileStore value; store, prior / store, load; 4 calls, 3 plans, 2 sessions | Without Delete and Save, is every call atomic (`ImplementsPlanLog`) although readers take no mutex and two mutexes guard one file? Does a read ever miss an acknowledged plan (`LoadFinds`)? |
| `fs_single` | 1 goroutine, all operations, 5 calls, 3 sessions of which one is the empty ID, Saves of up to 2 plans, one plan red and one without an ID | Does the store implement `PlanLog`? Is anything lost (`LiveKept`), does anything return (`GoneStaysGone`), is a red plan ever in the file, does Save replace exactly (`SaveReplaces`)? |
| `fs_shared` | 2 goroutines on one value, store and delete, 4 calls | Is each line of the file whole at every instant (`FileReadable`)? |
| `fs_crash` | 2 goroutines on one value, 3 calls, one failing system call, one crash at any step | Is an acknowledged line on disk and in the file until the next rewrite (`StoredIsDurable`)? Does every call return (`CallsReturn`)? |
| `cp_run` | all lists of 3 to 5 nodes over 5 or 6 kinds, in three families of calls | All properties of `Pack` |
| `pl_run` | 2 nodes over 5 kinds; 4 surfaces; 5 access contexts; 3 query types; green, yellow and red reports | All properties of `Run` |
| `pr_run` | 3 nodes, one without a topic, one confidential; 2 callers; 2 stored plans of 3; 2 changes of the host's data; limits 0 and 1 | All properties of reading and reusing plans |
| `an_run` | 5 backlog files (a chain of prerequisites with an alias title, two duplicate edges into one item, CSV, clashing IDs, broken), 9 command lines, 9 handoffs, 2 callers, one item read, 2 suggestions taken up | Does the union-find implement the partition? All properties of queue, graph, router and hygiene |
| `v_store_lost`, `v_over_budget`, `v_red_hygiene`, `v_reuse` | see section 6 | disagreements of code and documentation |

The properties of `pr_run` and `an_run`, in words:

* `KnownNodesGated`: whatever changed since a plan was stored, a read cuts the slots
  whose nodes `CurrentNodes` still holds and its caller may not see at that moment, and no
  others; every slot cut is listed, the others keep their order, the evidence path
  follows. Slots of nodes that `CurrentNodes` no longer holds pass unasked; the property
  does not claim otherwise (section 6).
* `AcceptanceChangesNothing`: being told yes does not change the plan (being told no may).
* `OverwrittenShows`: a plan that a no has changed never looks like one that was read. A
  plan held is what is left of a stored one without its suppressed nodes, path included,
  or it has a slot in two places, also when a second question about it is answered
  with yes.
* `OfferedIsReusable`: what is offered stays acceptable while nothing changes.
* `ImplementsPartition`: the refinement; `EveryCandidateOnce` and `BudgetRespected`: the
  queue; `ReadingNeverHurts`: reading an item lowers no total and changes no role.
* `TwoPathsAgree`: the engine's hygiene and the graph's own agree, and a backlog made
  into a graph has the backlog's clusters, although the two normalise edge types with
  different alias tables.
* `RedactionKeepsItBuildable`, `SuggestionsSettle`, `RoutedByHandoff`: what is redacted
  can still be analysed; a suggestion taken up withdraws one suggestion and brings none (for
  a supersedes edge it is the opposite one that goes); a query is Agentic
  exactly when the handoff itself grants something.

**Bounds.** The store's races need a writer, a reader and one record each to keep
and to lose: two goroutines, two sessions and three plans of two different lengths
(so that overlapping lines do not align by chance) give them, with one call more
than each race takes. One failing call and one crash come at every point of every
call. Lines are shorter than the scanner's buffer (`MaxToken`): with a longer one
`LoadFinds` fails, as section 6 says.

For `Pack`, five nodes fill an Agentic plan's four required slots with one left over;
three members make a cluster's later ones depend on the first; the budgets 2 and 4
leave every number of slots to trim, none included. Every slot type's cap but
`support`'s is passed by the lists. For reuse, two changes suffice for a plan packed for
one caller, read by a second and asked about when a node has changed too; two stored
plans give a ranking with a tie-break, and a plan whose confidential slot comes first
shows the overwritten array. For the engine, four
items give clusters of three joined through two edges, a path to compress, and a chain
of prerequisites; one read and two suggestions are enough to change a score and to
suggest again. `an_run` checks deadlock: its system can always take another call. The
counters `calls`, `faults` and `crashes` of the store and `changes` of the host's data
are bounded by `MaxCalls`, `MaxFaults`, `MaxCrashes` and `MaxChanges`; these runs and
those of one call do not check deadlock, as the system may stop (no caller has to call).

**Fairness.** `FileStore!FairSpec`: a goroutine inside a call takes its next step
(weak fairness), and a goroutine that waits for the mutex gets it in the end
(strong fairness: Go's `sync.Mutex` hands the lock to a waiter after 1 ms of
starvation). Callers need not call, nothing has to fail or crash. `ContextPacker`
and `Pipeline` run in one goroutine without waiting: weak fairness of their steps.
`PlanReuse` and `RagGraph` state no fairness: their properties are safety properties.

Each property has a mutant of the code in the module it is about (a dropped
filter, an append at the file's start, a skipped lock, ...), which TLC refutes.

## 4. What is proved

TLAPS checks the theorems for every value of the constants: any number of
goroutines, FileStore values, sessions, plans, faults and crashes; any list of
nodes; any request; any backlog files, command lines, handoffs and callers. Every
invariant, action property and refinement that a passing run checks is a theorem;
the three liveness properties are not.

**Assumptions.** `ConstantsAssumption` (types of the constants, every line at least one
cell long, sentinel values distinct), `InputsAssumption`, `RequestsAssumption`,
`ReuseAssumption`, `FilesAssumption`, `CallsAssumption`, `YearAssumption` and
`HandoffsAssumption` say that what comes from outside has its record type, as the
decoders of the code see to. TLC evaluates them in each run. Minutes, budgets, weights
and IDs are any integers in them, titles any sets of words, lists of any length.

**Premises.** Some theorems about the store hold under conditions, and fail without:

* `OneValue`: the goroutines share one FileStore value. With two, a rewrite of the one
  may truncate between the write and the fsync of the other.
* `Ordered`: one value, or nobody calls Delete or Save (`AppendOnly`).
* `Settled`: a single goroutine (`Alone`), or nobody calls Delete or Save. A Delete
  beside a store loses records: run `v_store_lost`.
* `Fits`: each plan's line is shorter than the scanner's buffer; a longer one makes
  every later read fail (section 6).
* `Steady`: no system call has failed and the process has not ended. A torn line makes
  the file unreadable; what survives faults and crashes is `AcknowledgedIsDurable`.

Each run of the store is an instance of the premises of its properties: `fs_append` of
`AppendOnly`, `fs_single` of `Alone`, `fs_shared` and `fs_crash` of `OneValue`.

* **`OrderingProofs`.** `Ordering` has the sorts, filters and concatenations of the
  models: `Place(S, k)`, the k-th smallest of S, `Cut`, `InOrder`, `Flat`, and `SumOf`, a
  recursive function. That a k-th smallest exists (`PlaceExists`) needs induction over
  the naturals; the provers cannot instantiate the library's induction theorem, so the
  lemma takes a minimal counterexample instead (`Least`, from the well-foundedness of
  `<`); `PartialSums` does the same for sums. From them: what a cut, a sorted set, a
  concatenation and a sum have as types, and how they change when an element is added in
  front, behind or within (`PlaceBehind`, `CutBehind`, `PlaceAhead`, `PlaceWithin`,
  `SumChange`).
* **`FileStoreProofs`, through failures and crashes.** `TypeCorrect` is inductive
  together with `TodoKept`: a client on the append path has a plan left to store.
  `RedStaysOut`: that no red plan is in the file is not inductive. `RedInv` adds that
  none is on disk (a power loss brings the disk's contents back), in what a client has
  read or still has to rewrite (`EncodeRecord` writes that), or past the test on its way
  to the append. `WritersExclude` (by `LockInv`): no two goroutines of one value are at
  the file at once. `AcknowledgedIsDurable` proves `StoredIsDurable` under `OneValue`.
  It needs `DurableInv`: between two truncations the disk is also a beginning of the
  file (`Extends`), what an append is about to sync is whole in the file, and nothing is
  owed while a rewrite is under way.
* **`FileStoreProofs`, while nothing fails.** `TidyInv`: the file is whole lines, each
  ended by its newline, and a rewrite's descriptor is at its end; with the mutex, that
  gives `FileStaysReadable`. `ReadInv`: what a scan has read so far is a beginning of the
  file, and what a Delete is about to keep is the file without its session. `HandInv`: no
  plan is in the hands of two calls. `LedgerInv` relates the history to the *shelf*, the
  records of the file and those that a rewrite has still to write: live records are on
  it, removed ones are not, and neither can be written again, as their plans have left
  the callers' hands (`Handed`). `AcknowledgedIsKept` and `RemovedStaysAway` follow.
  `ReadsFind` adds `ResultInv` (a running call has not answered): a scan that meets the
  end of the file has read the whole file as it is then. `SavesReplace` rests on
  `SaveInv`: of what the call has stored so far, the file holds exactly the plans filed
  under the call's session there, in their order (`OwnFiled`), and the others anywhere
  (`Holds`).
* **`StoreImplementsPlanLog`** is the refinement of `PlanLog`, step by step: `AppendLine`
  is `Keep`, the truncation is `Forget`, the end of a read is `Answer`, a call that begins
  is `Ask`, and every other step leaves the abstract log as it is. An `EncodeRecord`
  moves the oldest record from `rest` to the end of the file, which is the same log.
  `PlacedInv` says that the places in `rest` are those of some file.
* **`ContextPackerProofs`.** `PackInv` has the types (`PackerTypeCorrect`) and what is
  empty before a call. `RequiredSlotsOrRed` and `AgenticPlansFailClosed` rest on
  `SignalInv` (the signal of a finished plan is computed from the slots left after
  trimming) and `ApprovalInv` (controlling slots of an Agentic plan are approved at every
  moment), `ClustersContributeOnce` on `ClusterInv`: a cluster that has a slot has a first
  member, which suppresses the later ones. `SlotsWithinCaps` counts with the library's
  theorems on cardinality. `NothingUnaccounted` rests on `AccountInv`: a node waits, is
  packed, or has exactly one entry. `TrimsInOrder` rests on `TrimInv`: nothing is trimmed
  while a node waits, all that was trimmed comes before all that could be, and the plan
  would exceed its budget with its last victim back; `TokensWithout` sums a sequence with
  a place cut out. `PathsInOrder` needs that `Before` is a strict order.
* **`PipelineProofs`.** `RunInv` ties the stages to the packer's state and its
  input to the request. `PlanExceedsRankOnlyByApproval` compares the two access
  gates (`GatesCompared`) under `GatedInv`: what the packer considers has passed
  its own gate. `RunTypeCorrect`, `DeniedGetsNothing` and `RedNeedsConsent` follow from
  `RunInv`.
* **`PlanReuseProofs`.** Everything rests on `Filtered`, a cut of the slots: `CutWhole`
  (cutting nothing changes nothing) and `RegateGates` (what is left has no slot of a known
  node that is denied). `KnownNodesAreGated` follows per read, as a stored plan has not been
  filtered yet (`StoredInv`). `AcceptanceIsHarmless` argues from the guard that every slot
  was kept, so the filter wrote each over itself. `OffersAreReusable` needs that last fact
  as well: a question about one of the offered plans must not spoil it for the next.
  `OverwritingShows` needs what the filter does when it does change something
  (`OverwrittenRepeats`): with m slots kept, either they are the first m and nothing moves,
  or one of them lies behind the m-th place, where it stays after being copied forward.
* **`PartitionProofs`.** `LinksAreClustered` and `OnlyLinksAreClustered`: the classes
  always divide the items, reported clusters hold every link, and any equivalence that
  respects the links contains every class. Together they say that the clusters are the
  connected components, for any number of items, without a definition of paths.
* **`ClusterProofs`.** `UnionFindImplementsPartition`, under `ClusterInv`: the parents are
  a forest on the backlog's IDs (every set closed under parents has a root, which is how
  `find` comes to an end without induction on paths), every link still waits in `pairs`
  or has both ends under one root, and a graph's analysis is of the graph as it stands.
  Path compression changes no root (`CompressKeeps`), a `Join` merges two groups
  (`GroupsJoin`). Carrying `PartitionProofs` over through the refinement gives
  `DuplicatesShareACluster` and `OnlyDuplicatesShareACluster`: what `DetectDuplicates`
  reports are the connected components.
* **`RagGraphProofs`.** All are theorems of `RagSpec`, so that nothing the service does
  disturbs the command. `EachCandidateOnce` and `BudgetIsRespected` are inductive with
  `QueueOrder`: what was taken is ahead of all that wait, and what was skipped would not
  fit now either. `TakenUpSettles` reads a pair's suggestions off the graph (`OneWayIs`):
  which edge each looks for, and which it asks for. `ActionIsGranted` rests on `RouteInv`:
  the graph grants what the handoff grants, through the mappers and the aliases of edge
  types, whatever was suggested since. `PathsAgree` rests on `PathsInv`: the union-find
  holds together what the links do and nothing else, and a graph made from the file is
  still made from it. `EverythingTyped` rests on `Running`, `Analysed`, `Weights` and
  `Reported`. `ReadingIsHarmless` compares two backlogs that differ in one status
  (`Alike`): duplicates, roles and centrality do not look at it, and fewer prerequisites
  are missing.

**Model-checked only:** the liveness properties (`CallsReturn`, `PackReturns`,
`RequestsAnswered`), as fairness and ENABLED are beyond the prover. Of the store outside
the premises above, only `StoredIsDurable` and `RedNeverStored` speak.

## 5. What is not modelled

* The ranker's scores and PageRank: iterated floating-point arithmetic. They enter as
  the order of the nodes, and the models allow every order.
* The last bits of floating-point numbers elsewhere: fractions are basis points, rounded down.
  A tie that the code breaks by such a bit is not seen; where a threshold is met
  exactly, hygiene's model takes both sides.
* Words. Which tokens are cues (`router/heuristics.go`, `isHistoricalQuery`, the type and
  notes of an item) is data: queries and items carry the kinds of cue they hold.
* `CanUseEdgeBetween`, `EdgeDecision`, `RedactNode`, `provenance/redact.go`: no caller in the
  program. (`CanUseEdge` allows every edge; `RedactForReranker` is modelled with that.)
* I/O and formats: JSON beyond lines, CSV quoting, Parquet, HTTP and stdio framing,
  hashes, time stamps, printed output, flag syntax, the commands of `ragcli` and
  `cmd/serve` that print one component's result.

## 6. Where code and documentation disagree

Shown by a run of their own:

* `v_store_lost`: `Delete` reads without the mutex and rewrites from what it read
  (`file_store.go:180`); a store acknowledged in between, of another session, is
  lost.
* `v_over_budget`: `Pack` overwrites the red signal that `trimToBudget` sets
  (`packer.go:76`); a plan over its budget ends green (`spec.md:1154`).
* `v_red_hygiene`: a red report is dropped when the plan is yellow
  (`pipeline.go:97`, `spec.md:561`).
* `v_reuse`: `SimilarPriorPlans` re-gates before it asks `ReuseRejection`
  (`file_store.go:114`), so a plan that lost slots to access control is offered
  (`spec.md:1065-1069`).

Met while modelling, visible in the model, without a run:

* Two concurrent Deletes: the later rewrite brings back the session that the
  earlier one removed (`file_store.go:180` against `:168`).
* A kill between truncation and the last `Encode` loses every session's plans
  (`file_store.go:236`); `spec.md:647` asks for atomic file writes.
* A torn line has no newline, so the next acknowledged plan continues it and no
  reader finds either (`file_store.go:78`, `spec.md:647`).
* A reader beside a rewrite sees an empty or partial file (`file_store.go:209`).
* A line of 64 KiB is stored and then makes every read fail (`file_store.go:218`).
* Two FileStore values on one path do not exclude each other, and the rewrite does
  not append, so lines overlap (`file_store.go:236`).
* The third member of a cluster is compared with the first only (`MarkSeen`): a Comparative
  plan may hold two slots of one chunk type (`packer.go:113`, `spec.md:494`).
* A low score of an optional slot turns the plan yellow (`packer.go:132`,
  `spec.md:497`).
* Source trails name nodes that the caller may not see (`packer.go:86`,
  `spec.md:983`).
* The packer's gate is weaker than the request's (`packer.go:39`, `spec.md:975`);
  `GateDifference` says by exactly how much.
* With `--allow-degraded`, its default, the CLI prints an empty plan and exits 0
  for any error of Run (`cli.go:73` against `:35`).
* A super_admin context without a tenant sees no tenant's nodes (`govone.go:35`
  against `:26`).
* `regate` hands out slots whose nodes have left `CurrentNodes` to whoever asks
  (`redact.go:15`), and `ReuseRejection` accepts them; `spec.md:645`, `:967` and `:1065-1069`
  ask for gating against the caller of the moment. `KnownNodesGated` and
  its theorem speak of the other slots only.
* `regate` filters in the caller's array (`redact.go:13`): a plan that was
  rejected for access control and is asked about again may be accepted, as the slot
  that was in the way is overwritten by its neighbour (`spec.md:1065-1069`). By
  `OverwrittenShows`, its holder can tell.
* `ReuseRejection` reports whichever stale node the map gives it first
  (`file_store.go:192`).
* A `supersedes` suggestion is made again after its edge was added: it looks for the
  edge in the other direction (`suggestions.go:38`, `spec.md:542`).
* A red graph may have no retrieval target at all (`hygiene.go:175`, `spec.md:561`,
  `HANDOFF.md:153`).
* `--budget` reaches the time-fit part of a score only with a goal: without one,
  `Analyze` takes the backlog's own goal back (`engine.go:142` against `cli.go:43`).
* Two edges of one kind between the same items count twice in centrality
  (`engine.go:157`).
* A CSV row with a type, a source and a target is an edge, even if its kind is `item`
  (`types.go:121`).
* Negative minutes are accepted (`types.go:166`) and make room in the queue.
* The command ignores edges to unknown items (`engine.go:157`), `BuildAnalysis` rejects
  a graph that has one (`convert.go:115`).
* The alias tables of the engine and of `ragnode` differ (`primer-for` is an overview in
  one only; `types.go:215`, `edge.go:114`).
* A node that LightRAG returns both locally and globally is mapped twice, and
  `BuildAnalysis` refuses the graph (`lightrag/mapper.go:51`, `convert.go:94`).
* `BuildAnalysis` sets none of the defaults for difficulty, minutes or confidence that
  a backlog file gets, so the same items score differently on the two ways
  (`convert.go:134` against `types.go:153`).
* Title similarity keeps stop words in `suggestions.go:99` and drops them in
  `engine.go:580`.
* `isHistoricalQuery` finds "old" inside other words (`slots.go:93`).
