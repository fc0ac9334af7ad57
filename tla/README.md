# TLA+ verification of focus-manageiq-bridge

The program ingests FOCUS cost exports of several cloud providers into one
PostgreSQL warehouse, joins them with a ManageIQ inventory and serves dashboards
over the result. This directory holds TLA+ modules of it, from a file's way into the
warehouse to the pages that read it, TLC configurations that check them, and TLAPS proofs.
All paths below are relative to `src/`.

## 1. Inventory

| component | state it keeps | operations | what makes it correct | here |
|---|---|---|---|---|
| connection routes, `connectors/router.py` | per-source ingest lock, locals of a request | upload, load-sample, add, remove | uploads of one source are serialized; an answer tells the truth; no ghost rows; the join sees every source | `Ingestion` |
| source registry, `connectors/registry.py` | `sources.json`, its `.lock` | load, add_source, remove_source | each call is atomic; no registration is lost; the lock is released | `Registry` |
| dispatcher, `connectors/dispatcher.py` | `focus_combined.csv`, per-source CSV, report | run (all sources, one source) | fail-soft per source; a failure is never taken for an empty source | `Ingestion` |
| adapters, `connectors/adapters.py` | upload inboxes `out/uploads/<id>/` | discover, normalize | the whole inbox, each content once | `Ingestion` |
| loader, `db/loader.py` | tables `focus_costs`, `resource_join_map`, ... | main, load_source, delete_source, export | one transaction, gate before commit | `Ingestion` |
| schema, seed, entrypoint, `db/schema.sql`, `docker/` | whether the container serves | drop and create, re-seed, restart | a restart ends in a serving container with the same data | `Ingestion` |
| resource join, `join/resource_join_map.py` | `resource_join_map.csv` | build, write_csv | every VM and every cost row accounted for once; the right machines are matched | `ResourceJoin` |
| normalizers and FOCUS list, `normalizer/` | none | map_row, normalize_csv, level_to_v1_3 | which rows survive, with which cells | `FileGate` |
| upload validation, `connectors/upload_validate.py` | none | validate_focus_csv | header check agrees with the gate | `FileGate` |
| ManageIQ client and collector, `join/miq_*.py` | two snapshot files | get_vms, rollups, write_snapshots | fail-soft per VM; the files and tables of one seed belong together | `MiqCollector`, `Workloads` |
| on-prem cost model, `onprem/` | table `miq_onprem_cost` | compute_rows, load | each recharge under its own machine | `Workloads`, `Console` |
| dashboard, `web/app.py`, `queries.py`, `db.py` | none | pages of several queries | figures of one page belong together | `Console` |
| observability, `web/observability.py`, middlewares of `web/app.py` | counters, gauge, histogram, audit log | record_request, inflight, audit, render | a scrape is consistent; what was changed is audited | `Metrics` |
| AI assistant, `ai/`, its page | the page's panel and button | ask, canned, narrate | a narrative stays with its rows; a doubtful total is flagged; every call comes back | `AskFlow` |
| synthetic estate, `generators/common.py`, `miq_vmdb_seed.py` | an appliance's database | build_sql, workload_vm_ids | three numberings of the machines agree | `Workloads`, `VmdbSeed` |
| tenant configuration, API-pull stubs, cost-export generators, deployment | none | | | not modelled |

How they interact. Two gunicorn workers (`Dockerfile:83-89`) serve the routes. An
upload registers its source, takes the per-source flock, writes the file, has the
dispatcher normalize the whole inbox, has the loader replace the partition of that
source in `focus_costs`, and rebuilds the join: the table is exported to a CSV, a
join CSV is built from it, and that CSV replaces the join table. Add and remove
edit the registry and end in a full dispatch, which rewrites the same exported
CSV; they take no ingest lock. A container start with `SEED_ON_START=1` drops the
tables and rebuilds everything from the registry and the inboxes, which are on a
volume that survives.

Hard behaviours: interleaving of handlers in two workers and their thread pools, workers killed by
the 60 s timeout, database errors in the middle of a request, containers that die between any two
steps, files that fail at three different depths (normalizer, conformance gate, COPY), files whose
names repeat, pages that read while loads commit, an inventory that changes while it is collected,
and browser calls that finish in another order than they began. All are listed, each at its line,
under `hazards` in `PROJECT.json`.

## 2. Modules

`Ingestion.tla` models routes, dispatcher, upload inboxes, loader, seed and
entrypoint. `MCIngestion.tla` holds its instances for TLC and `IngestionProofs.tla`
its theorems. `RegistryStore.tla` is the abstract promise of the registry: a table on
which each call takes effect at one instant. `Registry.tla` is `registry.py` at
the grain of file accesses and refines it; `MCRegistry.tla` and
`RegistryProofs.tla` go with it. `ResourceJoin.tla` is `build()` of the join, with
`MCResourceJoin.tla` and `ResourceJoinProofs.tla`. `Ingestion` uses the registry as one atomic
table, which is what the refinement of `RegistryStore` justifies, and takes a join map for the
cost rows it was built from: what `build()` makes of those rows is `ResourceJoin`.

`Warehouse.tla` is the abstract promise of ingestion, with inboxes and partitions only: a
partition is replaced as a whole, by loadable rows of the whole inbox, by the export, or by
nothing. `Ingestion` implements it (`ImplementsWarehouse`, mapping at the end of the module).

Six modules stand beside these, each with an MC module of its own name:

| module | models | composes with |
|---|---|---|
| `FileGate` | one export through door, normalizer, staging, COPY and gate | says why a body of `Ingestion` is in its class |
| `Console` | pages as sequences of queries, over loads, rebuilds and seeds | takes from `FileGate` what the gate lets in and from `ResourceJoin` what a join row is |
| `MiqCollector` | seed of inventory, samples and recharge; rebuilds that read the inventory file | the inventory that `ResourceJoin` is given |
| `Workloads`, `VmdbSeed` | the synthetic estate, and the script that puts it into an appliance | the inventory that `MiqCollector` calls `Synthetic` |
| `AskFlow` | the assistant's page, endpoints, guard and execution | reads the tables `Console` reads |
| `Metrics` | middlewares, counters, audit calls and scrapes | the answers of the handlers of `Ingestion` |

### Ingestion: state and code

| variable | code |
|---|---|
| `phase` | the web container: `"up"`, or in the entrypoint before (`"schema"`) or after (`"seed"`) `psql -f db/schema.sql` |
| `registry` | `sources.json`; the kind of a source is `upload-focus`, some file export, or absent |
| `inbox` | `out/uploads/<source>/<name>`: a body, `Blank` (opened, not yet written) or `NoFile` |
| `holder` | holder of the source's `.ingest.lock` |
| `costs`, `joinMap` | tables `focus_costs` (by `source_id`) and `resource_join_map` |
| `combined`, `joinCsv` | the two files all rebuilds share |
| `pc`, `job`, `seen`, `disp`, `buf` | locals of a handler: where it is, what it was asked, the kind its dispatch found, the rows it dispatched, the rows it has read and not written |
| `issued` | counts accepted requests, bound `MaxOps` |

A file is a member of `Bodies`. What the code will make of a file is fixed by the
set it is in: `Unparsable` (normalize raises, for example on a row with more
fields than the header), `NonConformant` (the in-transaction gate raises),
`DbRejected` (COPY raises), `RowLess` (the normalizer drops all rows), or none. A
body stands for its rows, so a partition is a set of bodies, and a file-based
source has the one row set `Export`. Two files with the same content are one
member, as the content hash of `discover()` has it.

| action | code |
|---|---|
| `Upload`, `LoadSample`, `Remove`, `Add` | a request is accepted (after the validation that only answers) |
| `CheckRegistered`, `Register` | `router.py:337-342`: read, then add_source |
| `TakeIngestLock` | `_source_ingest_lock` |
| `OpenInboxFile`, `WriteInboxFile` | `open(dest, "wb")` truncates, then the bytes are written |
| `DispatchSource` | `dispatcher.run(only_source_id)`, registry read again |
| `LoadPartition` | `loader.load_source`: delete, copy, gate, commit |
| `RejectUpload` | the two caught exceptions: the file is removed |
| `LoadRaises` | every other exception of the load: the file stays |
| `QueryCosts` ... `CommitJoin` | `_rebuild_join_and_onprem` and `_load_join_only`, one step per access to a table or shared file |
| `Deregister`, `DeletePartition` | `connect_remove` |
| `UpsertSource` | `connect_add` |
| `Redispatch`, `WriteDispatch` | the full `dispatcher.run()` at the end of add and remove |
| `DatabaseFails` | any statement of load, delete or rebuild raises; the handler leaves |
| `WorkerDies` | the handler is killed; its flock goes with its file descriptor |
| `Crash`, `ApplySchema`, `Seed` | the container dies; entrypoint and `docker.seed`; a load that raises rolls back, exits and restarts |

A step reads or writes one thing that another handler can touch. What the code
does under the ingest lock with private files (the per-source CSV) needs no step.

Abstractions a reader should know. A write of a file is truncate and fill, with no partial content
between; a crash in the middle of a fill leaves an empty file, which names no row. Workers are not
modelled: any two handlers interleave, although two uploads of one worker cannot (the coroutine
never yields after its last `await`), and handlers that die together are `WorkerDies` of one after
the other, with nothing between; that a worker which waits for a lock answers nobody else meanwhile
is left out. A container dies only while it serves: a container that dies again and again in its own
seed would never serve, whatever the code does. An add registers an export that exists. The on-prem
and utilization tables, the report files, the enabled flag and the audit trail are left out.

### Registry: state and code

`file` is `sources.json` (or `Missing`), `lock` the flock on the sidecar, `pc`, `call`
and `current` the locals of a caller. `load()` is `Probe` (os.path.exists) and then
`Read` or `SeedFile`; `add_source` and `remove_source` are `TakeLock`, that same load,
`Save` and `Return`. `Die` is a worker that is killed at any point or a save that
raises: `os.replace` makes the save one step. `SeedOnStart` says whether
`docker.seed` runs before the workers; then the first load of a fresh volume is alone.

### ResourceJoin: state and code

`bill` and `vm` are the two inputs, the rows of `focus_combined.csv` and the inventory;
they are any values that the constants `Bills` and `Machines` allow and never change.
`joined` is how far the loop over the groups has come, `matched` and `out` are
`matched_vm_ids` and `join_rows`.

| operator or action | code |
|---|---|
| `Canonical` | `canonical_id`: strip; fold case for AWS and Azure; reduce ARNs for AWS |
| `MiqKey` | `_miq_key_for_provider`: which of a machine's two identifiers is looked at |
| `IndexSource` | lines 165-170: the rules that identifier was indexed with |
| `Key`, `Group` | lines 137-152: groups by tag and ResourceId |
| `Candidates`, `Status`, `CostRow` | lines 198-247: the lookup and its outcomes |
| `Match`, `EmitMiqOnly` | one turn of the first and of the second loop |

An identifier is a pair of a resource and the form it is written in (plain, in other
letters, padded, as an ARN); one form at a time. The sum of a group is the set of the rows
summed. `ResourceJoinAssumption` says that an identifier in a cloud's cost rows, or in a
machine of a vendor, names a resource of that cloud, and that only AWS has ARNs. The order
of the loops is immaterial to the result and left open. Left out: categories and the copied
display fields, currencies, identifiers that consist of blanks, and `summarize`, which only prints.

### FileGate: state and code

`file` is the export and never changes; `place` says which stage has it, `next` how many rows
the normalizer has read, `kept` the rows it passed on and `report` what it said of each, `table`
the partition. A cell is one of ten kinds that the program can tell apart of a text (listed at
the head of the module); two of them are what the types of PostgreSQL take and the program's own
comparison with sentinels does not know, which is case-sensitive: `word` (NAN, infinity, now) and
`huge`. A row is as long as the header, longer, or shorter (`shape`). A header name is as it
should be, with blanks or a byte order mark, which the door decodes away and the normalizer does
not, or missing. `Door` is `validate_focus_csv`; `NormalizeRow` and `NormalizeRaises` one
turn of `normalize_csv`, with `map_row` of each format as an operator (`Levelled` and
`NativeFatal`, `AwsRow`, `AzureRow`, `OciRow`); `Stage` is `_build_focus_staging`, `Copy` and `Gate`
the two halves of the load's transaction. Columns that no stage decides on are left out.

### Console: state and code

The tables are sets of rows: `focus` by source, `join` as the rows `build()` makes, `util` and
`onprem` as the machines they have rows of. `page`, `asked` and `got` are one request: the
page, the queries answered, their answers. Each query is one step, because `db.query` opens a
connection for each, so it sees the commits made since the last. `Answers` has what each SQL
statement may return: `Answer` where it is determined; any of the lists that ORDER BY and LIMIT
leave possible for the rightsizing list (`TopLists`, of at most `TopLimit` rows); any row for the
drill-down's `LIMIT 1`. A query that counts rows a reader would want to see returns them, and
`ToCents` is the cast to NUMERIC(12,2) of the budget panel. `Conformant` is the gate's rule, no
more: a currency in lower case is let in.
`LoadSource`, `Export`, `LoadJoin`, `LoadOnprem` and `Seed` are the transactions that commit
meanwhile, a rebuild in two steps since it works from an export. The AI-cost, utilization and
carbon views are left out: each is one query or a constant.

### MiqCollector, Workloads and VmdbSeed: state and code

`pc` is `docker.seed` from the schema to the recharge; `vms`, `todo`, `rows` are the locals of
`collect_utilization`; `vmsFile` and `utilFile` the two snapshot files of each container, `Torn`
between the truncation by `open(..., "w")` and the dump; `joinOf` the inventory that the join
table was built from. A worker's rebuild is `CheckFile`, `OpenSnapshot`, `DumpSnapshot`,
`ReadFile` or `ReadTorn`, and `LoadJoinOnly`. The machines of the appliance come and go
(`FleetChanges`), a machine's rollups cannot be fetched, or hold a text or one hour twice
(`Fetches`). Paging is one step: what a page boundary could lose is left to the appliance.

`Workloads` has no variables: it derives inventory, samples, recharge and the recharge's display
from a list of workloads, as the code does in three places. `VmdbSeed` adds the script generator
with its own counters, its DELETEs and INSERTs as one transaction, and edits of the list.

### AskFlow: state and code

`calls` are requests under way, from the click to the handler of the answer; `panel`, `asking` and
`last` are the page's `#res`, its ask button and `lastQuestion`; `db` numbers the states of the
tables. A reply of the model is a record of what extraction, guard, warnings and database tell
apart (is it fenced, does it parse, statements, node kinds, tables, sums, cost columns it names,
what running it does). The warnings are patterns over the statement's text, so a sum has the form
it is spelled in: the column alone, an expression that begins with the column or its table, or a
column inside a function, quotes or DISTINCT; `Warnings` says which patterns find which. An answer
passes `Accepted` twice, in the endpoint and in `query_untrusted`.
`Receive` replaces the panel whatever was asked since, as `show` does; `ReceiveNarrative` writes
to the panel it was asked from, which may be gone.

### Metrics: state and code

`pc` takes a request through `_observe`, `_basic_auth`, its handler and back; `lock` is `_lock` of
each worker. An increment that the lock protects is two steps, so that a model without the lock
would lose one. `registered`, `changed` and `audited` are history: who wrote the registry, who
committed a change, whose audit line is written. Handlers are their outcomes, in the order of the
code: `Register` (an add, a removal, or the source of an upload or a sample that was not there),
`Change` (the commit, a rejection, an exception), `Derive`, `Audit`, `Dispatch`. `Kill` ends a
worker between any two of them; `alive` are the others.

## 3. Runs

| run | question | bound | result |
|---|---|---|---|
| `concurrent` | do the uploads of one source stay serialized, complete and conformant under every fault? | 2 handlers, 3 requests, 2 sources, 2 names, 5 bodies, one of which cannot be parsed, all faults, handlers symmetric | passes, 556,651 states |
| `sequential` | is the warehouse at rest a function of registry and inboxes? | 1 handler, 4 requests, crashes, files of all parser and gate classes | passes, 57,139 states |
| `live` | is every request answered, and does a restart end? | 2 handlers, 2 requests, all faults, no body the load refuses | passes, 16,629 states |
| `registry` | is the registry file one atomic table? | 3 callers, 4 calls, 2 ids, 2 configurations, fresh volume, seeder first | passes, 97,257 states |
| `join` | does the join lose or double a cost or a machine, and does it match what is meant, of exports and of uploads? | 3 cost rows of 13 kinds from 3 clouds and uploads, 2 machines of 5 kinds | passes, 474,037 states |
| `gate` | what of a file reaches the table, and does a sound file? | 5 formats, 2 rows, every kind of one odd cell, key, length, header name, and one row too long or too short | passes, 122,734 states |
| `console` | do figures of one page belong together, whatever commits? | 2 sources, 11 cost rows, 5 machines, all pages, 2 commits during a page | passes, 335,854 states |
| `collector` | does a seed collect all it can, and is a join ever of half a file? | 2 live and 2 synthetic machines, 4 kinds of answer, 2 faults, 3 rebuilding workers in 2 containers | passes, 179,415 states |
| `vmdb` | do script, snapshot and recharge number the machines alike? | every choice and order of 3 of the 5 kinds of workload, 2 lists of all 5, real machines below and in the demo range, 2 applications | passes, 15,938 states |
| `ask` | does a narrative stay with its rows, is what is shown what the guard let through, does the button come back? | 3 calls, 13 kinds of reply, 1 question, 2 canned queries, lost calls, 1 load, redeployments | passes, 80,613 states |
| `metrics` | is a scrape whole, is what was sent counted and what was told audited? | 2 requests of every endpoint, 2 durations, authentication on, 1 worker, killed at any point, requests symmetric | passes, 228,766 states |
| `resent` | finding 1 of section 5 | as small as shows it | violated |

Why the bounds are enough. Two handlers are all that an interleaving property of one
source can be violated with: mutual exclusion, whole inbox and lost upload each
speak of two. Two sources show interference through the shared files and the
gate over the whole table; three requests let two uploads overlap after or before a
third has left its mark. Four requests in sequence allow upload, reject, remove and
upload again. A class of files needs one member, and the good class two, to tell
union from replacement. Three cost rows and two machines give
a group of several rows beside another group, two groups that reach one machine by different
spellings, an identifier that two machines share, and machines nothing names. In `gate` a
file differs from a sound one in one respect, and rows are mapped one by one, so a second
row is there for duplicates and for a file of which a part is good. Two commits put
a load before and after a query of a page, or an export and the load of its join. Three calls
let two answers cross and a narrative arrive between them. Two requests are what a
scrape or a lost increment needs; a worker counts for itself, so one is enough. In `concurrent`
one client sends a file that `normalize()` cannot read after another's good one: a dispatch that
failed and is taken for an empty one would wipe the partition there.
`Ingestion` and `Registry`, `ResourceJoin`, `FileGate`, `VmdbSeed` and `MiqCollector`
set `CHECK_DEADLOCK FALSE`: when `MaxOps` or
`MaxCalls` is used up and nobody is under way, the model stops, and so does a join that is
built, a file that is loaded or refused, a last script and a last rebuild.

What the properties say:

- `IngestMutex`, `WholeInbox`, `NoLostUpload`: the promise of the ingest lock. From
  dispatch to answer the rows an upload carries, and from its commit the rows of
  its partition, are those of the inbox, also where a file cannot be read. The last is for
  `Plain` sources, the ones nobody adds or removes: add and remove take no lock.
- `WarehouseConformant`: nothing COPY refuses or the gate condemns is committed.
- `AcknowledgedIsLoaded`: an upload answered ok has its rows in its partition, where `discover()`
  lists its name. The other names are finding 2.
- `Reproducible`, `JoinFresh`, `NoGhostRows`: at rest, a partition is what a
  re-seed would load, the join was built from the whole table, and a source that is
  not registered owns no rows. These hold for requests one at a time. With
  concurrent requests `JoinFresh` fails, as `GOTCHAS.md:606` records (the shared CSV
  has no lock), and `NoGhostRows` fails, which is a finding. `Reproducible` holds
  with concurrent requests too, for names that are used for one content and contents
  that can be read; otherwise it is a finding.
- `CostsAddUp`, `EveryVmOnce`: when `build()` returns, each cost row is in one join row, and
  each machine is named by costs or listed as inventory only, never both.
- `JoinsWhatIsDenoted`: for a cloud's own export the machines of a join row are those its
  identifier denotes, by a reference definition (`Denoted`) that knows of no canonical form.
  `ExactUploadsJoinAlike`: an upload finds them too, where its identifiers are OCIDs or AWS ids as
  the index has them. Of all other uploads it is finding 6.
- `Answered`, `RestartSucceeds`, `Returned`, `SeedServes`, `AskReturns`: liveness.
- `Linearizable`, `OthersKept`: the registry, as a refinement and as an action
  property. `ImplementsWarehouse`: the refinement of `Warehouse`.
- `EveryRowAccounted`, `CommittedIsUsable`, `SoundFileLoads`: no row of a committed file vanishes
  without a report; in every format a committed row has a category of the closed set, a currency with
  a rate, and periods and an amount that are such, or a NaN or a word for an instant that the same
  cell of a native file held (finding 24); a file whose rows are sound and whose header spells the
  columns it has exactly, the mandatory ones among them, loads to the last row, the deprecated
  provider column included.
- `QuietPageAgrees`, `TilesAgree`: on a page during which nothing commits, what two panels derive by
  different SQL agrees: rows in all and by source, dollars in all and by provider but for the
  rounding of each to cents, the segments and the join, and the rightsizing tiles with the list
  under them, which is cut after a number of rows. A page that a commit overtakes may show totals
  that do not add up. `DetailAddsUp`: a drill-down shows costs of its own resource, and on a quiet
  page over a fresh join they add up to its head. `MoneyReconciles`: the money of a fresh join, in
  all and for each resource, is that of the costs in the table.
- `CollectsTheRest`: the samples of every machine whose rollups could be fetched are collected.
  `JoinOfWholeInventory`: no join is built from half a file. `SeededTogether`: inventory and samples
  that a seed loads are of one collection.
- `SeedMatchesSnapshot`, `RechargeStaysPut`: an appliance that had the script shows the collector what
  the snapshot would, and a recharge is displayed under the machine it was computed for.
- `NarrativeIsOfRows`: a narrative shown is of the rows above it. `AnswersAreVetted`: rows shown for a
  free question are of one statement that reads the four tables and its own CTEs, under the
  warnings of that statement, whatever failed on the way. `OneQuestionAsked`: one free question is
  with the model at a time, and the ask button is disabled while it is.
- `ScrapeIsWhole`, `CountedAsSent`, `AuditsAddUp`, `ToldIsAudited`: the numbers of a scrape are of the
  same requests; a request is counted once, under the status its client was sent; no audit is lost
  from the counter; what a client was told of as done, every answered registration by add, and
  every upload that was committed or rejected and answered, has its audit line. What was not
  answered, or failed, is finding 20.

Fairness. `WF(Handle(r))`: a handler's thread is scheduled, and the flock is
granted to a waiter when it stays free; requests need not arrive and faults need not
happen. Weak fairness on the handler as a whole is enough, since a handler that waits
for a lock is enabled when the lock is free, and with a bound on requests the lock
is not taken away for ever. `WF(Restart)`: `restart: unless-stopped` in
`docker-compose.yml:78`. The registry has `WF(Step(p))` for the same reason. `MiqCollector` has
`WF(SeedStep)`, of which the restart of a seed that ended is a part, and `WF(Rebuild(w))`; machines
need not change and the appliance need not fail. `AskFlow` has weak fairness of the server's steps
and of the delivery of answers, since gunicorn bounds each request and the browser runs the
handlers of what has arrived; nobody need click, and a connection that is lost is not fair:
`AskReturns` is about pages that lost no call.

## 4. Proofs

`IngestionProofs` proves for every number of handlers, sources, names and files, and
for every combination of faults:

- `TypeCorrect`: `Spec => []TypeOK`;
- `MutualExclusion`, `UploadSeesWholeInbox`, `UploadsAreKept`, `GateHolds`: the four
  safety invariants of `concurrent`;
- `AcknowledgedLoaded`: an ok answer means loaded, when `HiddenNames = {}`. That
  hypothesis is the negation of finding 2;
- `PipelineImplementsWarehouse`: `Spec => ImplementsWarehouse`, the refinement of `Warehouse`.

They rest on `IngestInvariant`, which is `Spec => []IngestInv`. The properties are not
inductive by themselves. `IngestInv` adds that an upload inside the critical section is
the `holder` of its source's lock (`LockHeld`, from which mutual exclusion follows),
that no handler is under way in a restart (`RestartIsQuiet`, so that a re-seed cannot
change tables under a handler), that an upload past its write finds its own file in the
inbox (`OwnFileInInbox`), and that a plain source stays registered as an upload source
once an upload has got to the lock (`PlainRegistered`, without which the dispatch could
find nothing and wipe the partition). `WholeInbox` and `NoLostUpload` then hold each
other up: the inbox of a source changes only by the lock's holder before it dispatched or
when it leaves. There is one lemma per part of the invariant, and one step per action in it.

The refinement rests on that invariant and one part more, `DispFits`: an upload whose source
was no upload source when it dispatched holds the export's rows or none. Then every step maps:
writes and removals of files to `Submit`, a load and a removal to `Replace`, a re-seed to
`Rebuild`, and all other steps, the kills among them, to a stutter.

Three more theorems are about the pipeline at rest. Each has a hypothesis, defined beside it in
`IngestionProofs`, that the instance of `sequential` satisfies and that cannot be dropped:

- `PartitionIsInbox` (`Reproducible`, for any number of handlers) assumes `Dated`: handlers are
  interrupted by the end of the container only (`NoHalfway`); a client of a plain source uses a
  file name for one content; COPY takes that content; and `normalize()` can read it, unless
  nothing ever crashes. Names used for two contents are finding 1, contents that COPY refuses
  finding 4, and contents that `normalize()` cannot read finding 23, which an attempt at the proof
  without that clause led to: a container dies right after such a file was written, the seed that
  follows loads nothing for the source, and a second upload of the file is refused and removes it.
  The inbox then has good files, and the partition none of their rows, until the next upload.
- `JoinIsOfTheCosts` (`JoinFresh`) assumes one handler at a time and `NoHalfway`. Two rebuilds at
  once write the same two files without a lock, as GOTCHAS.md:606 records, and a rebuild that
  fails half way leaves the join as it was.
- `RowsAreOwned` (`NoGhostRows`, for any number of handlers) assumes `NoHalfway` and that no
  managed source is uploaded to, or one handler at a time. Without it, it is finding 3.

`AtRestInv` is what makes the first inductive. It says of every plain source at every moment, at rest
or not: its files have the contents of their names, one that cannot be read is there only between
its write and its rejection, and the partition is the inbox, except for the file that the lock's
holder is writing, of which it has the rows or none. A name that is used again for the same
content is the hard case: between truncation and load the partition has rows that no file has.
`JoinFollows` follows a rebuild through its two files, and `Unowned` says that rows without a
registration are about to be deleted and that an upload that has looked at the registry still
finds its source there.

`RegistryProofs` proves `TypeCorrect`, and with `SeedOnStart \/ Boot # Missing` (the seeder
runs first, or the volume already has a registry) two more. `RegistryIsLinearizable`:
`Spec => Linearizable`, that is, `Registry` implements `RegistryStore` under the mapping
at the end of `Registry.tla`. `OthersAreKept`: no call changes the entry of an id that it is
not about. The invariant is that a writer past the lock holds it, that
the list it is about to save is the file as it is, and that while there is no file only the
seeder is under way. Without that condition both statements are false (finding 5).

`ResourceJoinProofs` proves for every set of cost rows, resources and machines: `TypeCorrect`,
`EveryCostAccounted`, `EveryMachineAccounted`, `MatchesAreRight` and `ExactUploadsMatch`, the last
four being the invariants of `join`. They follow from `JoinInvariant`: `out` holds the row of
every group looked up, its other rows are inventory rows of machines that no group named, added
only when the groups are done, and `matched` is exactly what the groups looked up so far name.
`MatchesAreRight` needs in addition that two canonical forms are equal just when their identifiers
denote the same thing (`CanonicalId`, `FindsWhatIsDenoted`), which is where
`ResourceJoinAssumption` is used: rows and machines that are indexed by the rules of one cloud and
looked up by those of another never meet because they name different resources.
`ExactUploadsMatch` rests on the same lemmas: an identifier that no rule of its cloud would
respell is found under the tag `upload` too.

`FileGateProofs` proves for files of any length and any contents: `TypeCorrect`,
`RowsAreAccounted`, `CommittedRowsAreUsable` and `LoadsAllOrNothing` (the table goes from its
old rows to all the kept ones in one step). `CommittedRowsAreUsable` says of the cells that only the
database's types let in where they come from: from the same cell of a native file, which staging
and its case-sensitive sentinels hand on, and from no provider format, which spell every number
and period anew. `GateInv` says what each stage may take for granted
of the stages before it: a row past the normalizer has the letter case of its cells settled, one
past staging has neither a missing-value sentinel nor blanks, one past COPY has no missing key
column, one past the gate is conformant. What a usable row is needs all four. `SoundFilesLoad` is the
converse: `SoundInv` says that a file whose rows are all sound has left no stage but for the
next, and that every row read so far was kept as it is, with the provider of FOCUS 1.0 in the column
of 1.2. Three more say how far the promises of findings 7 to 9 do hold: `NamedDoorAgrees` (with no
blanks around the names of the header, the door accepts no sound rows that the gate refuses),
`OnlyCurrencyFailsInCopy` (of the values a row can lack, the currency is the only one whose absence
is not reported) and `PanelDiffersOnCaseOnly` (gate and panel differ about a currency in lower
case, and about nothing else).

`ConsoleProofs` proves for any sources, partitions and pages `TypeCorrect` and three kinds of
results. `DrillDownAddsUp` (`DetailAddsUp`): `DrillDown` says which rows the head and the daily
costs are of, and that the data has not changed since when no load disturbed the page. `PanelsAgree`
and `RightsizingTilesAgree` (`QuietPageAgrees`, `TilesAgree`): `IndexPage` says that what has been
asked so far are the first queries of the page in their order and, on a quiet page, that each of
them has the answer that the tables give now; `Joined` that the join is one that `build()` could
have made of some costs. The rest is about sums: the costs of the sources add up to the costs
(`CostsBySource`), those of the providers, rounded one by one, to the costs but for half a cent each
(`BilledByProvider`), the segments and categories to the join (`JoinBySegment`), and the savings to
those of the dearest rows (`TilesOf`), of which the list has as many as its length allows
(`ListOf`): idle and dear rows come first in it, so it leaves one out only when it is full of them.
`JoinedMoneyReconciles` (`MoneyReconciles`) sums the costs once by the groups of the join and once
by resource (`SumByKey`, `SumApart`). From it `BilledOnceReconciles` and `OneRowEachCounts` derive
what findings 11 and 10 miss: the matched row of a resource has the sum of its costs where one
source bills the resource, and the tile of rightsizing counts machines where no machine has two
matched rows.

Those sums are taken by `MapThenSumSet`, whose definition chooses a function that satisfies a
recursion over the subsets of a set, taking one unnamed element after the other. The
lemmas at the head of `ConsoleProofs` prove that there is exactly one such function for a finite
set (`SumsExist`, `SumsUnique`), that any element may be taken first (`SumTakes`), and
that sums of what agrees agree (`SumAgrees`). An induction is there a set that holds every natural
or every subset (`NatSets`, `SetInduction`), from the library's theorems on
well-founded relations. `MetricsProofs` has the lemmas it needs of these once more.

`MiqCollectorProofs` proves `TypeCorrect`, `JoinIsOfWholeInventory`, `SamplesMatchTheirJoin` and
`OneBadMachineCostsNoOther` for any fleet, any number of workers and any number of faults. The
invariant follows the two files: until the seed has served no worker rebuilds, what a seed is
about to load is what it wrote and of the machines that it listed, and a worker that is about to
read finds the file whole or being written, never of a part. For the last theorem `Asked` says that of
the machines still to be asked there are no samples yet, and of all others exactly those that
they answered with. `LiveSeedJoinsLive`, `SyntheticOnpremAttaches` and `WellFormedAnswersSeed`
are findings 14, 15 and 13 turned round: no live join is replaced by a synthetic one while every
worker that rebuilds shares the container of the seed (`RebuildsAtHome`), the recharge names
machines of the join while the inventory is the synthetic one, and a seed ends early by a fault only
while what the machines answer is well formed (`AnswersWell`), however many cannot be fetched or
are retired meanwhile.

The same module extends `VmdbSeed`, whose initial states, steps and specification are named
`ScriptInit`, `ScriptNext` and `ScriptSpec` for that reason, and proves for every list of
workloads and every edit of it `RechargesStayPut` (`RechargeStaysPut`), `SeedIsSnapshot`
(`SeedMatchesSnapshot`), and `RealMachinesAreSpared`, which is finding 12 turned round: the script
deletes no machine of the appliance's own where none has an id in the demo range
(`RealBelowDemo`). The three numberings are folds over the list of workloads. What each of them
has after so many workloads is proved by induction over a set of naturals (`NatSets`), and that
the counters of script and snapshot agree at each workload makes the two inventories equal.
`ScriptInv` says that the generator's counters and statements are those of the workloads gone
through, and that its DELETEs leave nothing but the appliance's own machines, so that no INSERT
meets a row with its key.

`AskFlowProofs` proves `TypeCorrect`, `NarrativeStaysWithRows`, `AnswersStayVetted`
(`AnswersAreVetted`) and `OneQuestionAtATime` (`OneQuestionAsked`) for any replies of the model and
any number of calls. The invariant (`Narrators`) is that a narration under way names the answer it
was asked for, that no call which could still replace a panel has its number, and that the rows sent
are the rows of that panel while it is shown. `AnswersStayVetted` rests on `FlagInv`, which follows
a reply from the guard through the database, the answer and its delivery to the panel, with its
warnings, and uses that panels of canned queries are of no free question. `OneQuestionAtATime` needs
both directions at once: the button is disabled while a question is with the model, so none is put,
and it is enabled again by the answer to a question and by no other. `OneAtATimeIsNarrated` has the
condition under which the promise of finding 16 is kept: a narrative answers the question whose rows
it is of, as long as no question is put while another is under way; `QuestionInv` says that the
question under way is then the page's last one.

`MetricsProofs` proves `TypeCorrect`, `CountersAddUp`, `ToldChangesAreAudited`,
`RequestsAreCounted` (`CountedAsSent`) and `ScrapesAreWhole` (`ScrapeIsWhole`) for any number of
workers and any finite set of requests. The invariant says that the lock of a worker is held by
exactly the request that is counting there, hence that what an increment has read is still the
counter; and of every request that leaves its handler with a status and a history that owe an audit
line (`Owes`) that the line is written (`Trailed`). A killed worker changes none of this, since its
requests take no step any more. `CountInv` counts the requests of each series and those that are
inside the middlewares. For the scrape, `ScrapeInv` compares the sums over all series: the totals
of a worker are ahead of its histogram by one while a request is half recorded, which only the
holder of the lock is, and the durations summed are those of the requests that are done.
`OneWorkerNeverFalls` is finding 22 turned round: with one worker, totals of consecutive scrapes
never fall.

The theorems that turn a finding round are of the form `Spec => [](C => P)`, or have `C` as a
hypothesis on the constants, where `P` is the promise that the configuration of that finding
violates: `C` is what the finding lacks. Each is a condition that a deployment can meet: one
container, one worker, a source per resource, real machines below the demo range, answers in order.

The only assumptions are those named `...Assumption` of each module, which TLC
evaluates on every run. Most of them type the constants, and say of what is summed over that it is
finite: the tables that the pages of `Console` read, and the label set of `Metrics`, which
`_route_label` keeps bounded. Four say more: `ResourceJoinAssumption`
whose resources an identifier can name, `FileGateAssumption` that letter case is told apart in
currency codes only, `MiqAssumption` that live and synthetic machines have different ids and that a
file which is absent or torn is no inventory, and `VmdbSeedAssumption` that the workloads of a list
have names of their own, that the ids the script gives are in the range it clears, and that the
hours sampled are a finite initial segment of the naturals.

Only model-checked: `Answered`, `RestartSucceeds`, `Returned`, `SeedServes` and `AskReturns`, since
liveness under fairness is out of the prover's reach. `TypeOK` of `Registry` and of `ResourceJoin` is
proved and no property of a run.

## 5. Findings

In each of these the code does other than a comment, a document or a test of the repository
says. The first is a run of section 3; the others have configurations of their own, in which TLC
finds a counterexample of each property (`tlc -config <cfg> <module>`, with `-continue` for
those that check several).

| | configuration, module | property | what the code does |
|---|---|---|---|
| 1 | `Ingestion_resent`, `MCIngestion` | `Reproducible` | a rejected re-upload under a used name deletes the earlier good file, while its rows stay (`router.py:356,370` against `router.py:366-368`) |
| 2 | `Ingestion_uppercase`, `MCIngestion` | `AcknowledgedIsLoaded` | `X.CSV` is accepted and acknowledged, and never listed (`router.py:347` against `adapters.py:101`) |
| 3 | `Ingestion_ghost`, `MCIngestion` | `NoGhostRows` | a removal takes no ingest lock, so an upload under way puts the rows of the removed source back (`router.py:452` against `router.py:453-455`) |
| 4 | `Ingestion_restart`, `MCIngestion` | `RestartSucceeds` | an error of COPY is not caught, the file stays, and every later seed fails on it with the tables dropped (`router.py:365` against `dispatcher.py:65-67`) |
| 5 | `Registry_fresh`, `MCRegistry` | `OthersKept` | the unlocked `load()` seeds over a registration, where workers start unseeded (`registry.py:105-106` against `registry.py:131-132`) |
| 6 | `ResourceJoin_uploaded`, `MCResourceJoin` | `OriginDoesNotMatter` | rows of an upload are looked up under the tag `upload`, by no cloud's column and spelling, and miss their machines (`adapters.py:115`, `resource_join_map.py:198-202` against `adapters.py:79-82`) |
| 7 | `FileGate_promises`, `MCFileGate` | `DoorAgreesWithGate` | a header name with blanks around it or a byte order mark before it passes the door, which strips the one and decodes the other away, and makes every row fail the gate (`upload_validate.py:29,39` and `focus_native_to_focus.py:85` against `focus_spec.py:43-45`) |
| 8 | `FileGate_promises`, `MCFileGate` | `MissingValueIsGated` | a currency written as a missing-value sentinel fails in COPY, before the gate and outside the exceptions an upload handles (`loader.py:296` against `loader.py:333-334`) |
| 9 | `FileGate_promises`, `MCFileGate` | `PanelAgreesWithGate` | a currency in lower case passes the gate and is reported by the panel ever after (`loader.py:230` against `queries.py:315-317`) |
| 10 | `Console_rightsize`, `MCConsole` | `RightsizeCountsMachines` | a machine that two sources bill is two rightsizing candidates (`queries.py:208` against `queries.py:202`) |
| 11 | `Console_reconcile`, `MCConsole` | `JoinReconciles` | a resource that two sources bill has two matched rows, neither with the sum (`resource_join_map.py:143` against `tests/test_data_integrity.py:27-28`) |
| 12 | `VmdbSeed_real`, `MCVmdbSeed` | `RealMachinesSurvive` | the script deletes every machine from the demo range upwards, real ones included (`miq_vmdb_seed.py:91-93` against `miq_vmdb_seed.py:5-6`) |
| 13 | `MiqCollector_promises`, `MCMiqCollector` | `OneBadVmNeverSinks` | a rollup that holds a text, or two of one hour, ends every seed (`miq_collector.py:80` against `miq_collector.py:56-57`) |
| 14 | `MiqCollector_promises`, `MCMiqCollector` | `LiveModeJoinsLive` | the first rebuild in a container that did not seed replaces the live join by a synthetic one (`router.py:110-112` against `docker/seed.py:34-37`) |
| 15 | `MiqCollector_promises`, `MCMiqCollector` | `OnpremAttaches` | with a live inventory the on-prem recharge names machines that are not in it (`cost_model.py:58-59`) |
| 16 | `AskFlow_promises`, `MCAskFlow` | `NarrativeAnswersQuestion` | the rows of one answer are sent with the page's last question (`view_ai_query.html:164` against `bedrock_client.py:336-338`) |
| 17 | `AskFlow_unparseable`, `MCAskFlow` | `UnparseableIsRejected` | a reply that is no SQL raises the parser's own exception, which nothing handles (`sql_guard.py:52` against `sql_guard.py:45`) |
| 18 | `AskFlow_promises`, `MCAskFlow` | `RawTotalsAreFlagged` | a total of the raw cost column with a table alias, or inside COALESCE, DISTINCT or quotes, gets no warning beside the normalized one (`sql_guard.py:133` against `sql_guard.py:123-127`) |
| 19 | `AskFlow_network`, `MCAskFlow` | `AskComesBack` | a connection that breaks leaves the ask button disabled (`view_ai_query.html:210-213` against `view_ai_query.html:180`) |
| 20 | `Metrics_promises`, `MCMetrics` | `EveryChangeIsAudited` | a sample or a removal whose follow-up fails, an upload or a sample that registered its source and then raised (a sample also when it was rejected), and a worker killed between the commit and the audit have changed the data and leave no audit line (`router.py:337-342,417-422,438-443,459-461`, `Dockerfile:89` against `observability.py:9-11`) |
| 21 | `Metrics_promises`, `MCMetrics` | `CredentialsAdmit` | a handler that raises is answered 401 to a caller with the right credentials (`app.py:79-86` against `GOTCHAS.md:541`) |
| 22 | `Metrics_workers`, `MCMetrics` | `ScrapedTotalsNeverFall` | consecutive scrapes of one address reach different workers, and a total falls (`Dockerfile:86-87` against `observability.py:14-16`) |
| 23 | `Ingestion_ragged`, `MCIngestion` | `Reproducible` | a container that dies after an unreadable file was written seeds its source with nothing, and the file's next, refused upload removes it: good files without their rows (`dispatcher.py:88-91`, `router.py:366-370` against `adapters.py:91-93`) |
| 24 | `FileGate_promises`, `MCFileGate` | `SentinelsAreNulls` | a missing-value sentinel in another case (`NAN` for an amount) is no sentinel to the loader, and is committed as a NaN that the gate takes for an amount (`loader.py:35,211` against the comment `loader.py:33-34`) |
| 25 | `AskFlow_promises`, `MCAskFlow` | `FanOutIsFlagged` | costs summed over the join with utilization get no warning when the column is `effective_cost`, `list_cost` or `contracted_cost`, or stands inside COALESCE, DISTINCT or quotes (`sql_guard.py:151` against the comment `sql_guard.py:146-150`) |

## 6. Plan

Done: `Ingestion` refining `Warehouse`; `Registry` refining `RegistryStore`; `ResourceJoin`;
`FileGate`; `Console`; `MiqCollector`; `Workloads` and `VmdbSeed`; `AskFlow`; `Metrics`; proofs
about all of them, and for most findings the condition under which the promise is kept. Left: the end
of the seed as one more refinement, `MiqCollector` against an abstract join; and the liveness
properties, should the prover learn to reason about fairness.

## 7. Not modelled

- Request validation before the first state access, which only answers.
- The text of the canned SQL and the parser of the guard: a reply is described by what guard and
  warnings read of its tree. The prompts and the model's answers are any of `Replies`.
- The AI-cost, utilization and carbon views, each one query or a constant; page layout.
- The four cost-export generators: seeded random writers, whose output is one constant file.
- API-pull adapters, which are stubs that refuse.
- Paging, TLS and credentials of the ManageIQ client, which end as a call that fails.
- Rates and months of the on-prem cost model.
- Tenant configuration, read once at start; templates, cluster and cloud deployment.

`PROJECT.json` gives the reason for each component.
