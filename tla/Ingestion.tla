------------------------------ MODULE Ingestion ------------------------------
(***************************************************************************)
(* The upload / add / remove / re-seed pipeline: connectors/router.py with *)
(* the parts of connectors/dispatcher.py, connectors/adapters.py,          *)
(* db/loader.py, docker/seed.py and docker/entrypoint.sh that it drives.   *)
(*                                                                         *)
(* A request handler is a process of Requests.  Each of its accesses to    *)
(* state another handler can touch is a step of its own: the registry      *)
(* file, a source's inbox, the per-source ingest lock, the focus_costs     *)
(* table, the two shared derived files (focus_combined.csv and             *)
(* resource_join_map.csv) and the resource_join_map table.                 *)
(*                                                                         *)
(* A file body that passed the upload door is a member of Bodies.  What    *)
(* the pipeline will later make of it is fixed by the set it belongs to:   *)
(*   Unparsable     normalize() raises (a ragged row, an oversized field)  *)
(*   NonConformant  _assert_conformant_in_txn raises LoadConformanceError  *)
(*   DbRejected     COPY raises (a bad timestamp or number)                *)
(*   RowLess        the normalizer drops every row                         *)
(* A body stands for its rows, so a partition of focus_costs is a set of   *)
(* bodies; the join map is represented by the cost rows it was built from. *)
(***************************************************************************)
EXTENDS Naturals

CONSTANTS
  Sources,          \* source_id values
  Names,            \* file names inside an inbox
  HiddenNames,      \* names the router accepts and discover() does not list
  Bodies, Unparsable, NonConformant, DbRejected, RowLess,
  Export,           \* the CSV a file-based source points at
  Blank,            \* a file just opened for writing: truncated to nothing
  NoFile, NoOne,    \* absence of a file; nobody holds the lock
  Requests,         \* request handlers in flight at a time
  Submissions,      \* <<source, name, body>> that clients may upload
  Sample,           \* the one that /connect/load-sample uploads
  Managed,          \* sources that /connect/add and /connect/remove act upon
  Seeded,           \* sources the PoC registry ships with
  Faults,           \* subset of FaultKinds
  MaxOps            \* bound: requests accepted over a behaviour

Routes     == {"remove", "addFile", "addUpload"}
FaultKinds == {"crash", "worker", "db"}
RowSet     == Bodies \cup {Export}

ASSUME IngestionAssumption ==
  /\ HiddenNames \subseteq Names
  /\ Unparsable \subseteq Bodies /\ NonConformant \subseteq Bodies
  /\ DbRejected \subseteq Bodies /\ RowLess \subseteq Bodies
  /\ Export \notin Bodies /\ Blank \notin Bodies /\ NoFile \notin Bodies
  /\ Blank # NoFile
  /\ NoOne \notin Requests
  /\ Submissions \subseteq Sources \X Names \X Bodies
  /\ Sample \in Submissions
  /\ Managed \subseteq Sources
  /\ Seeded \subseteq Sources
  /\ Faults \subseteq FaultKinds
  /\ MaxOps \in Nat

VARIABLES
  phase,      \* of the web container: "up", or restarting ("schema", "seed")
  registry,   \* out/connectors/sources.json: the kind each source is registered as
  inbox,      \* out/uploads/<source>/<name>
  holder,     \* who holds out/uploads/<source>/.ingest.lock
  costs,      \* table focus_costs, partitioned by source_id
  combined,   \* out/normalizer/focus_combined.csv
  joinCsv,    \* out/join/resource_join_map.csv
  joinMap,    \* table resource_join_map
  pc, job,    \* where each handler is, and what it was asked
  seen, disp, \* what its dispatch found registered, and the rows it produced
  buf,        \* rows it read and has not written yet
  issued      \* requests accepted so far

disk == <<registry, inbox, combined, joinCsv>>
db   == <<costs, joinMap>>
reqs == <<pc, job, seen, disp, buf>>
vars == <<phase, disk, holder, db, reqs, issued>>

(***************************************************************************)
(* Discover and normalize.                                                 *)
(***************************************************************************)
RowsOf(b) == {b} \cap (Bodies \ RowLess)

\* UploadSource.discover: the whole inbox, each distinct content once.  Content
\* that names no row, an empty file included, adds none.
Exports(s) == {inbox[s][n] : n \in Names \ HiddenNames} \ {NoFile}

EmptyFileIsARow(s) == Exports(s)                                  \* a mutant

InboxRows(s) == Exports(s) \cap (Bodies \ RowLess)

\* A normalize() that raises loses the whole source: the dispatcher is fail-soft.
DispatchErrors(s) == registry[s] = "upload" /\ Exports(s) \cap Unparsable # {}

\* A mutant: discover() with the cross-run watermark that its docstring rejects.
DispatchUnloaded(s) ==
  IF registry[s] = "upload" /\ ~DispatchErrors(s) THEN InboxRows(s) \ costs[s] ELSE {}

DispatchRows(s) ==
  CASE DispatchErrors(s)         -> {}
    [] registry[s] = "absent"    -> {}
    [] registry[s] = "file"      -> {Export}
    [] OTHER                     -> InboxRows(s)

NoRows       == [s \in Sources |-> {}]
FullDispatch == [s \in Sources |-> DispatchRows(s)]

\* What COPY takes, and what the in-transaction gate lets through.
Copyable(rows)   == rows \cap DbRejected = {}
Conformant(rows) == rows \cap NonConformant = {}

\* The gate reads the whole table, the partition just copied included.
GatePasses(table) == \A s \in Sources : Conformant(table[s])

-----------------------------------------------------------------------------

(***************************************************************************)
(* Where a handler can be.  The rebuild of the join is the same code for   *)
(* an upload and for a removal.                                            *)
(***************************************************************************)
Rebuilding == {"query", "openComb", "writeComb", "build",
               "openJoin", "writeJoin", "stage", "commit"}
Loaded     == Rebuilding \cup {"ack"}             \* load_source has committed
Dispatched == Loaded \cup {"load"}
Locked     == Dispatched \cup {"truncate", "fill", "dispatch"}
UploadPlaces == {"check", "register", "lock", "truncate", "fill", "dispatch",
                 "load", "ack"}
RoutePlaces  == {"deregister", "delete", "upsert", "redispatch", "openFull",
                 "writeFull"}
Places       == {"idle"} \cup UploadPlaces \cup Rebuilding \cup RoutePlaces

NoJob == [op |-> "none", src |-> NoOne, name |-> NoFile, body |-> NoFile]
Job   == {NoJob}
  \cup [op : {"upload"}, src : Sources, name : Names, body : Bodies]
  \cup [op : Routes, src : Sources, name : {NoFile}, body : {NoFile}]

IsUpload(r) == job[r].op = "upload"

\* r is inside `with _source_ingest_lock(sid)`.
Ingesting(r) == IsUpload(r) /\ pc[r] \in Locked

\* A handler is only at places of its own route.
JobFits(r) ==
  /\ pc[r] = "idle" <=> job[r] = NoJob
  /\ pc[r] \in UploadPlaces => IsUpload(r)
  /\ pc[r] \in RoutePlaces => job[r].op \in Routes
  /\ pc[r] \in {"deregister", "delete"} => job[r].op = "remove"
  /\ job[r].op \in Routes => job[r].src \in Managed

TypeOK ==
  /\ phase \in {"up", "schema", "seed"}
  /\ registry \in [Sources -> {"absent", "upload", "file"}]
  /\ inbox \in [Sources -> [Names -> Bodies \cup {Blank, NoFile}]]
  /\ holder \in [Sources -> Requests \cup {NoOne}]
  /\ costs \in [Sources -> SUBSET RowSet]
  /\ combined \in [Sources -> SUBSET RowSet]
  /\ joinCsv \in [Sources -> SUBSET RowSet]
  /\ joinMap \in [Sources -> SUBSET RowSet]
  /\ pc \in [Requests -> Places]
  /\ job \in [Requests -> Job]
  /\ seen \in [Requests -> {"absent", "upload", "file"}]
  /\ disp \in [Requests -> SUBSET RowSet]
  /\ buf \in [Requests -> [Sources -> SUBSET RowSet]]
  /\ issued \in 0..MaxOps
  /\ \A r \in Requests : JobFits(r)

\* The state a first boot leaves: the shipped registry seeded and loaded.
Init ==
  /\ phase = "up"
  /\ registry = [s \in Sources |-> IF s \in Seeded THEN "file" ELSE "absent"]
  /\ inbox = [s \in Sources |-> [n \in Names |-> NoFile]]
  /\ holder = [s \in Sources |-> NoOne]
  /\ costs = [s \in Sources |-> IF s \in Seeded THEN {Export} ELSE {}]
  /\ combined = costs /\ joinCsv = costs /\ joinMap = costs
  /\ pc = [r \in Requests |-> "idle"]
  /\ job = [r \in Requests |-> NoJob]
  /\ seen = [r \in Requests |-> "absent"]
  /\ disp = [r \in Requests |-> {}]
  /\ buf = [r \in Requests |-> NoRows]
  /\ issued = 0

-----------------------------------------------------------------------------

(***************************************************************************)
(* Arrival and departure of a request.                                     *)
(***************************************************************************)
Accept(r, j, place) ==
  /\ phase = "up"
  /\ pc[r] = "idle"
  /\ issued < MaxOps
  /\ issued' = issued + 1
  /\ pc' = [pc EXCEPT ![r] = place]
  /\ job' = [job EXCEPT ![r] = j]
  /\ UNCHANGED <<phase, disk, holder, db, seen, disp, buf>>

Asked(op, s) == [op |-> op, src |-> s, name |-> NoFile, body |-> NoFile]
Given(u)     == [op |-> "upload", src |-> u[1], name |-> u[2], body |-> u[3]]

Upload(r)     == \E u \in Submissions : Accept(r, Given(u), "check")
LoadSample(r) == Accept(r, Given(Sample), "check")
Remove(r)     == \E s \in Managed : Accept(r, Asked("remove", s), "deregister")
Add(r)        == \E op \in {"addFile", "addUpload"}, s \in Managed :
                   Accept(r, Asked(op, s), "upsert")

\* A mutant: the handler returns and nothing releases its flock.
LeaveLocked(r) ==
  /\ pc' = [pc EXCEPT ![r] = "idle"]
  /\ job' = [job EXCEPT ![r] = NoJob]
  /\ seen' = [seen EXCEPT ![r] = "absent"]
  /\ disp' = [disp EXCEPT ![r] = {}]
  /\ buf' = [buf EXCEPT ![r] = NoRows]
  /\ UNCHANGED holder

\* r has answered or died: its locals are gone, and its flock with it.
Leave(r) ==
  /\ pc' = [pc EXCEPT ![r] = "idle"]
  /\ job' = [job EXCEPT ![r] = NoJob]
  /\ seen' = [seen EXCEPT ![r] = "absent"]
  /\ disp' = [disp EXCEPT ![r] = {}]
  /\ buf' = [buf EXCEPT ![r] = NoRows]
  /\ holder' = [s \in Sources |-> IF holder[s] = r THEN NoOne ELSE holder[s]]

Goto(r, from, to) ==
  /\ pc[r] = from
  /\ pc' = [pc EXCEPT ![r] = to]

(***************************************************************************)
(* connect_upload, up to the commit of the source's partition.             *)
(***************************************************************************)
CheckRegistered(r) ==
  /\ Goto(r, "check", IF registry[job[r].src] = "absent" THEN "register" ELSE "lock")
  /\ UNCHANGED <<phase, disk, holder, db, job, seen, disp, buf, issued>>

Register(r) ==
  /\ Goto(r, "register", "lock")
  /\ registry' = [registry EXCEPT ![job[r].src] = "upload"]
  /\ UNCHANGED <<phase, inbox, combined, joinCsv, holder, db, job, seen, disp, buf, issued>>

\* A mutant: no lock around write, dispatch and load.
EnterUnlocked(r) ==
  /\ Goto(r, "lock", "truncate")
  /\ holder' = [holder EXCEPT ![job[r].src] = r]
  /\ UNCHANGED <<phase, disk, db, job, seen, disp, buf, issued>>

TakeIngestLock(r) ==
  /\ Goto(r, "lock", "truncate")
  /\ holder[job[r].src] = NoOne
  /\ holder' = [holder EXCEPT ![job[r].src] = r]
  /\ UNCHANGED <<phase, disk, db, job, seen, disp, buf, issued>>

\* open(dest, "wb") empties a file that is already there.
OpenInboxFile(r) ==
  /\ Goto(r, "truncate", "fill")
  /\ inbox' = [inbox EXCEPT ![job[r].src][job[r].name] = Blank]
  /\ UNCHANGED <<phase, registry, combined, joinCsv, holder, db, job, seen, disp, buf, issued>>

WriteInboxFile(r) ==
  /\ Goto(r, "fill", "dispatch")
  /\ inbox' = [inbox EXCEPT ![job[r].src][job[r].name] = job[r].body]
  /\ UNCHANGED <<phase, registry, combined, joinCsv, holder, db, job, seen, disp, buf, issued>>

\* A mutant: a dispatch that failed is taken for one that found no rows.
DispatchUnchecked(r) ==
  /\ Goto(r, "dispatch", "load")
  /\ seen' = [seen EXCEPT ![r] = registry[job[r].src]]
  /\ disp' = [disp EXCEPT ![r] = DispatchRows(job[r].src)]
  /\ UNCHANGED <<phase, disk, holder, db, job, buf, issued>>

\* dispatcher.run(only_source_id): the registry is read again here.
DispatchSource(r) ==
  /\ Goto(r, "dispatch", "load")
  /\ ~DispatchErrors(job[r].src)
  /\ seen' = [seen EXCEPT ![r] = registry[job[r].src]]
  /\ disp' = [disp EXCEPT ![r] = DispatchRows(job[r].src)]
  /\ UNCHANGED <<phase, disk, holder, db, job, buf, issued>>

\* focus_costs with the partition of r's source replaced by what r dispatched.
Replaced(r) == [costs EXCEPT ![job[r].src] = disp[r]]

\* A mutant: load_source without its conformance gate.
LoadUngated(r) ==
  /\ Goto(r, "load", "query")
  /\ Copyable(disp[r])
  /\ costs' = Replaced(r)
  /\ UNCHANGED <<phase, disk, holder, joinMap, job, seen, disp, buf, issued>>

\* A mutant: load_source without its DELETE, so that it appends.
LoadAppending(r) ==
  /\ Goto(r, "load", "query")
  /\ Copyable(disp[r]) /\ GatePasses(Replaced(r))
  /\ costs' = [costs EXCEPT ![job[r].src] = @ \cup disp[r]]
  /\ UNCHANGED <<phase, disk, holder, joinMap, job, seen, disp, buf, issued>>

\* load_source: one transaction that replaces the partition.
LoadPartition(r) ==
  /\ Goto(r, "load", "query")
  /\ Copyable(disp[r]) /\ GatePasses(Replaced(r))
  /\ costs' = Replaced(r)
  /\ UNCHANGED <<phase, disk, holder, joinMap, job, seen, disp, buf, issued>>

\* The two rejections that connect_upload catches.
Rejected(r) ==
  \/ pc[r] = "dispatch" /\ DispatchErrors(job[r].src)
  \/ pc[r] = "load" /\ Copyable(disp[r]) /\ ~GatePasses(Replaced(r))

\* A mutant: the poison file stays in the inbox.
RejectOnly(r) ==
  /\ Rejected(r)
  /\ Leave(r)
  /\ UNCHANGED <<phase, disk, db, issued>>

\* UploadIngestError or LoadConformanceError: the file just written is removed.
RejectUpload(r) ==
  /\ Rejected(r)
  /\ inbox' = [inbox EXCEPT ![job[r].src][job[r].name] = NoFile]
  /\ Leave(r)
  /\ UNCHANGED <<phase, registry, combined, joinCsv, db, issued>>

\* Any other exception of load_source escapes the handler: the file stays.
LoadRaises(r) ==
  /\ pc[r] = "load" /\ ~Copyable(disp[r])
  /\ Leave(r)
  /\ UNCHANGED <<phase, disk, db, issued>>

Acknowledge(r) ==
  /\ pc[r] = "ack"
  /\ Leave(r)
  /\ UNCHANGED <<phase, disk, db, issued>>

(***************************************************************************)
(* _rebuild_join_and_onprem: table -> combined CSV -> join CSV -> table.   *)
(* Both files are shared by every source and guarded by no lock.           *)
(***************************************************************************)
\* A mutant: the join is rebuilt from the source just loaded.
QueryOwnCosts(r) ==
  /\ Goto(r, "query", "openComb")
  /\ buf' = [buf EXCEPT ![r] = [NoRows EXCEPT ![job[r].src] = costs[job[r].src]]]
  /\ UNCHANGED <<phase, disk, holder, db, job, seen, disp, issued>>

QueryCosts(r) ==
  /\ Goto(r, "query", "openComb")
  /\ buf' = [buf EXCEPT ![r] = costs]
  /\ UNCHANGED <<phase, disk, holder, db, job, seen, disp, issued>>

OpenCombined(r) ==
  /\ \/ Goto(r, "openComb", "writeComb")
     \/ Goto(r, "openFull", "writeFull")
  /\ combined' = NoRows
  /\ UNCHANGED <<phase, registry, inbox, joinCsv, holder, db, job, seen, disp, buf, issued>>

ExportCombined(r) ==
  /\ Goto(r, "writeComb", "build")
  /\ combined' = buf[r]
  /\ UNCHANGED <<phase, registry, inbox, joinCsv, holder, db, job, seen, disp, buf, issued>>

BuildJoin(r) ==
  /\ Goto(r, "build", "openJoin")
  /\ buf' = [buf EXCEPT ![r] = combined]
  /\ UNCHANGED <<phase, disk, holder, db, job, seen, disp, issued>>

OpenJoinCsv(r) ==
  /\ Goto(r, "openJoin", "writeJoin")
  /\ joinCsv' = NoRows
  /\ UNCHANGED <<phase, registry, inbox, combined, holder, db, job, seen, disp, buf, issued>>

WriteJoinCsv(r) ==
  /\ Goto(r, "writeJoin", "stage")
  /\ joinCsv' = buf[r]
  /\ UNCHANGED <<phase, registry, inbox, combined, holder, db, job, seen, disp, buf, issued>>

\* _load_join_only reads the CSV back; its join_rows argument is not used.
StageJoin(r) ==
  /\ Goto(r, "stage", "commit")
  /\ buf' = [buf EXCEPT ![r] = joinCsv]
  /\ UNCHANGED <<phase, disk, holder, db, job, seen, disp, issued>>

CommitJoin(r) ==
  /\ Goto(r, "commit", IF IsUpload(r) THEN "ack" ELSE "redispatch")
  /\ joinMap' = buf[r]
  /\ UNCHANGED <<phase, disk, holder, costs, job, seen, disp, buf, issued>>

(***************************************************************************)
(* connect_remove and connect_add.  Neither takes the ingest lock; both    *)
(* end in a full dispatcher.run(), which rewrites the combined CSV.        *)
(***************************************************************************)
Deregister(r) ==
  /\ Goto(r, "deregister", "delete")
  /\ registry' = [registry EXCEPT ![job[r].src] = "absent"]
  /\ UNCHANGED <<phase, inbox, combined, joinCsv, holder, db, job, seen, disp, buf, issued>>

\* A mutant: removal only de-registers.
KeepPartition(r) ==
  /\ Goto(r, "delete", "query")
  /\ UNCHANGED <<phase, disk, holder, db, job, seen, disp, buf, issued>>

DeletePartition(r) ==
  /\ Goto(r, "delete", "query")
  /\ costs' = [costs EXCEPT ![job[r].src] = {}]
  /\ UNCHANGED <<phase, disk, holder, joinMap, job, seen, disp, buf, issued>>

UpsertSource(r) ==
  /\ Goto(r, "upsert", "redispatch")
  /\ registry' = [registry EXCEPT
       ![job[r].src] = IF job[r].op = "addFile" THEN "file" ELSE "upload"]
  /\ UNCHANGED <<phase, inbox, combined, joinCsv, holder, db, job, seen, disp, buf, issued>>

Redispatch(r) ==
  /\ Goto(r, "redispatch", "openFull")
  /\ buf' = [buf EXCEPT ![r] = FullDispatch]
  /\ UNCHANGED <<phase, disk, holder, db, job, seen, disp, issued>>

WriteDispatch(r) ==
  /\ pc[r] = "writeFull"
  /\ combined' = buf[r]
  /\ Leave(r)
  /\ UNCHANGED <<phase, registry, inbox, joinCsv, db, issued>>

(***************************************************************************)
(* Failures: the database refuses a handler, a worker is killed (gunicorn  *)
(* --timeout), the container dies and its entrypoint re-seeds.             *)
(***************************************************************************)
DatabaseFails(r) ==
  /\ "db" \in Faults
  /\ pc[r] \in {"load", "delete"} \cup Rebuilding
  /\ Leave(r)
  /\ UNCHANGED <<phase, disk, db, issued>>

WorkerDies(r) ==
  /\ "worker" \in Faults
  /\ pc[r] # "idle"
  /\ Leave(r)
  /\ UNCHANGED <<phase, disk, db, issued>>

Crash ==
  /\ "crash" \in Faults
  /\ phase = "up"
  /\ phase' = "schema"
  /\ holder' = [s \in Sources |-> NoOne]
  /\ pc' = [r \in Requests |-> "idle"]
  /\ job' = [r \in Requests |-> NoJob]
  /\ seen' = [r \in Requests |-> "absent"]
  /\ disp' = [r \in Requests |-> {}]
  /\ buf' = [r \in Requests |-> NoRows]
  /\ UNCHANGED <<disk, db, issued>>

\* entrypoint.sh applies db/schema.sql, which drops and creates the tables.
ApplySchema ==
  /\ phase = "schema"
  /\ phase' = "seed"
  /\ costs' = NoRows
  /\ joinMap' = NoRows
  /\ UNCHANGED <<disk, holder, reqs, issued>>

SeedLoads == /\ phase' = "up" /\ costs' = FullDispatch /\ joinMap' = FullDispatch
SeedFails == /\ phase' = "schema" /\ UNCHANGED db

\* A mutant: a dispatch that is not fail-soft.
SeedFailHard ==
  /\ phase = "seed"
  /\ combined' = FullDispatch
  /\ joinCsv' = FullDispatch
  /\ IF \E s \in Sources : DispatchErrors(s) THEN SeedFails ELSE SeedLoads
  /\ UNCHANGED <<registry, inbox, holder, reqs, issued>>

\* docker.seed: dispatch, build and write the join, then load or roll back.
\* When the load raises, the container exits and is restarted.
Seed ==
  /\ phase = "seed"
  /\ combined' = FullDispatch
  /\ joinCsv' = FullDispatch
  /\ IF (\A s \in Sources : Copyable(FullDispatch[s])) /\ GatePasses(FullDispatch)
     THEN SeedLoads ELSE SeedFails
  /\ UNCHANGED <<registry, inbox, holder, reqs, issued>>

-----------------------------------------------------------------------------

\* The steps a live handler takes once its request has been accepted.
Handle(r) ==
  \/ CheckRegistered(r) \/ Register(r) \/ TakeIngestLock(r)
  \/ OpenInboxFile(r) \/ WriteInboxFile(r) \/ DispatchSource(r)
  \/ LoadPartition(r) \/ RejectUpload(r) \/ LoadRaises(r) \/ Acknowledge(r)
  \/ QueryCosts(r) \/ OpenCombined(r) \/ ExportCombined(r) \/ BuildJoin(r)
  \/ OpenJoinCsv(r) \/ WriteJoinCsv(r) \/ StageJoin(r) \/ CommitJoin(r)
  \/ Deregister(r) \/ DeletePartition(r) \/ UpsertSource(r)
  \/ Redispatch(r) \/ WriteDispatch(r)

Arrive(r) == Upload(r) \/ LoadSample(r) \/ Remove(r) \/ Add(r)

Restart == ApplySchema \/ Seed

Next ==
  \/ \E r \in Requests : Arrive(r) \/ Handle(r) \/ DatabaseFails(r) \/ WorkerDies(r)
  \/ Crash
  \/ Restart

\* A scheduled thread runs on, and docker restarts a container that exited.
Fairness == (\A r \in Requests : WF_vars(Handle(r))) /\ WF_vars(Restart)

Spec     == Init /\ [][Next]_vars
FairSpec == Spec /\ Fairness

-----------------------------------------------------------------------------

(***************************************************************************)
(* Properties.                                                             *)
(***************************************************************************)

\* Upload sources that only uploads touch.
Plain == Sources \ (Managed \cup Seeded)

\* Nothing is in flight and the container serves.
AtRest == phase = "up" /\ \A r \in Requests : pc[r] = "idle"

\* Two uploads of one source are never both between write and answer: the
\* per-source flock of _source_ingest_lock covers the whole critical section.
IngestMutex ==
  \A q, r \in Requests :
    Ingesting(q) /\ Ingesting(r) /\ job[q].src = job[r].src => q = r

\* From its dispatch to its answer, the rows an upload carries are those of the
\* whole inbox as it stands: discover() is not outrun by another writer, so the
\* partition replace loads the union of every file and not a stale slice.
WholeInbox ==
  \A r \in Requests :
    IsUpload(r) /\ pc[r] \in Dispatched /\ seen[r] = "upload"
      => disp[r] = InboxRows(job[r].src)

\* What load_source committed for a source nobody adds or removes meanwhile stays
\* its partition until the request is answered, and is the whole inbox.
NoLostUpload ==
  \A r \in Requests :
    IsUpload(r) /\ pc[r] \in Loaded /\ job[r].src \in Plain
      => costs[job[r].src] = InboxRows(job[r].src)

\* Whatever mixture of loads, rejections, crashes and re-seeds came before, no row
\* that COPY refuses or the gate condemns is ever committed to focus_costs.
WarehouseConformant ==
  \A s \in Sources : Copyable(costs[s]) /\ Conformant(costs[s])

\* At rest the partition of such a source is what a re-seed would load: it is a pure
\* function of the inbox, and dispatch and re-seed are idempotent (UploadSource).
Reproducible == AtRest => \A s \in Plain : costs[s] = DispatchRows(s)

\* At rest a source that is not registered owns no rows (connect_remove's comment).
NoGhostRows == AtRest => \A s \in Sources : registry[s] = "absent" => costs[s] = {}

\* At rest the join table was built from the rows focus_costs holds, all sources
\* included (_rebuild_join_and_onprem: "the join must see every source").
JoinFresh == AtRest => joinMap = costs

\* An upload to such a source that is answered ok has its rows in the partition.
AcknowledgedIsLoaded ==
  \A r \in Requests :
    pc[r] = "ack" /\ job[r].src \in Plain
      => RowsOf(job[r].body) \subseteq costs[job[r].src]

\* Every accepted request is answered: no path keeps the ingest lock or waits forever.
Answered == \A r \in Requests : pc[r] # "idle" ~> pc[r] = "idle"

\* A container that restarts serves again (entrypoint.sh, docker.seed).
RestartSucceeds == phase # "up" ~> phase = "up"

\* The abstract specification, with the row sets this module classifies bodies by.
W == INSTANCE Warehouse WITH
       table     <- costs,
       Listed    <- Names \ HiddenNames,
       Contents  <- Bodies \cup {Blank, NoFile},
       RowBodies <- Bodies \ RowLess,
       Loadable  <- RowSet \ (DbRejected \cup NonConformant)

\* Whatever locks, handlers, rejections, kills and re-seeds do, focus_costs is only
\* ever replaced partition by partition, atomically, by the rows of the whole inbox
\* as it then stands, by the export or by nothing (load_source, UploadSource).
ImplementsWarehouse == W!Spec

-----------------------------------------------------------------------------

(***************************************************************************)
(* What makes these inductive.                                             *)
(***************************************************************************)

\* The ingest lock belongs to the upload inside the critical section.
LockHeld == \A r \in Requests : Ingesting(r) => holder[job[r].src] = r

\* The entrypoint seeds before gunicorn starts: no handler lives through it.
RestartIsQuiet == phase # "up" => \A r \in Requests : pc[r] = "idle"

\* From its write to its answer, an upload finds its own file in the inbox.
OwnFileInInbox ==
  \A r \in Requests :
    IsUpload(r) /\ pc[r] \in Dispatched \cup {"dispatch"}
      => inbox[job[r].src][job[r].name] = job[r].body

\* A plain source, once registered, stays the upload source an upload expects.
PlainRegistered ==
  /\ \A s \in Plain : registry[s] # "file"
  /\ \A r \in Requests :
       IsUpload(r) /\ job[r].src \in Plain
         => /\ pc[r] \in Locked \cup {"lock"} => registry[job[r].src] = "upload"
            /\ pc[r] \in Dispatched => seen[r] = "upload"

IngestInv ==
  /\ TypeOK /\ LockHeld /\ RestartIsQuiet /\ OwnFileInInbox /\ PlainRegistered
  /\ WholeInbox /\ NoLostUpload /\ WarehouseConformant

====
