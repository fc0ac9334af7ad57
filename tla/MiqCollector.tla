---------------------------- MODULE MiqCollector ----------------------------
(***************************************************************************)
(* Where the inventory behind the join comes from: a seed that collects it *)
(* from a live ManageIQ appliance (join/miq_collector.py, miq_client.py)   *)
(* or synthesizes it (join/miq_snapshot.py), writes two files, and loads   *)
(* the tables (docker/seed.py), and the rebuilds of the web workers, which *)
(* read the file of their own container and synthesize one when there is   *)
(* none (connectors/router.py _rebuild_join_and_onprem).                   *)
(*                                                                         *)
(* A rollup is what the collector can tell apart of one; a machine answers *)
(* with a set of rollups, or its metrics cannot be fetched.  Nothing else  *)
(* of a machine than its id matters here.                                  *)
(***************************************************************************)
EXTENDS Integers, FiniteSets

CONSTANTS
  LiveVms,      \* machines that the appliance may have
  Fetches,      \* answers to a request for the rollups of a machine
  Synthetic,    \* the inventory of miq_snapshot
  OnpremVms,    \* the machines of cost_model's rows
  Workers,
  Home,         \* the container of each worker, "seed" or "web"
  LiveModes,    \* whether MIQ_URL may be set
  Failed,       \* the answer of a request that raises
  Absent, Torn, \* a file that is not there, and one truncated for writing
  MaxFaults     \* crashes and refusals of the appliance

\* usable: cpu or mem is a number; noTime, noSignal: skipped; text: a cpu that is no
\* number.  Its hour is the instant of its timestamp; nth tells two rollups of one apart.
Rollups == [kind : {"usable", "noTime", "noSignal", "text"}, hour : Nat, nth : Nat]

ASSUME MiqAssumption ==
  /\ LiveVms \cap Synthetic = {} /\ OnpremVms \subseteq Synthetic
  /\ \A f \in {Synthetic} \cup SUBSET LiveVms : f # Absent /\ f # Torn
  /\ \A f \in Fetches : f = Failed \/ f \subseteq Rollups
  /\ Home \in [Workers -> {"seed", "web"}]
  /\ LiveModes \subseteq BOOLEAN /\ MaxFaults \in Nat

VARIABLES
  live,      \* MIQ_URL is set
  fleet,     \* the machines of the appliance, which come and go
  answer,    \* how the appliance answers for the rollups of each
  pc,        \* the seed
  vms, todo, \* collect_utilization: the machines listed, those still to be asked
  rows,      \* the samples collected
  vmsFile,   \* out/miq/vms.json of each container
  utilFile,  \* out/miq/metric_rollups.json of each container
  joinOf,    \* the inventory that resource_join_map was built from
  util,      \* miq_utilization
  onprem,    \* the machines of miq_onprem_cost
  wpc, read, \* the rebuilds: where each is, the inventory it read
  left,      \* history: the machines that have ever left the fleet
  faults

collector == <<vms, todo, rows>>
files     == <<vmsFile, utilFile>>
tables    == <<joinOf, util, onprem>>
workers   == <<wpc, read>>
world     == <<live, fleet, answer, left>>
vars == <<world, pc, collector, files, tables, workers, faults>>

-----------------------------------------------------------------------------

Init ==
  /\ live \in LiveModes
  /\ fleet \in SUBSET LiveVms
  /\ answer \in [LiveVms -> Fetches]
  /\ pc = "start"
  /\ vms = {} /\ todo = {} /\ rows = {}
  /\ left = {}
  /\ vmsFile = [c \in {"seed", "web"} |-> Absent]
  /\ utilFile = [c \in {"seed", "web"} |-> Absent]
  /\ joinOf = {} /\ util = {} /\ onprem = {}
  /\ wpc = [w \in Workers |-> "idle"] /\ read = [w \in Workers |-> {}]
  /\ faults = 0

\* entrypoint.sh: the schema is applied, which empties the tables.
Start ==
  /\ pc = "start"
  /\ pc' = "collect"
  /\ joinOf' = {} /\ util' = {} /\ onprem' = {}
  /\ UNCHANGED <<world, collector, files, workers, faults>>

\* One sample stands for the 24 of synthesize_utilization.
SyntheticRows == {[vm |-> v, hour |-> 0, nth |-> 0] : v \in Synthetic}

\* get_vms.  Without MIQ_URL the snapshot is synthesized.
ListVms ==
  /\ pc = "collect"
  /\ vms' = IF live THEN fleet ELSE Synthetic
  /\ todo' = IF live THEN fleet ELSE {}
  /\ rows' = IF live THEN {} ELSE SyntheticRows
  /\ pc' = "fetch"
  /\ UNCHANGED <<world, files, tables, workers, faults>>

\* No password, no CA bundle, no connection, an HTTP error: the seed ends.
ListVmsFails ==
  /\ pc = "collect" /\ live /\ faults < MaxFaults
  /\ pc' = "aborted"
  /\ faults' = faults + 1
  /\ UNCHANGED <<world, collector, files, tables, workers>>

Usable(v) ==
  {[vm |-> v, hour |-> r.hour, nth |-> r.nth] : r \in {x \in answer[v] : x.kind = "usable"}}

\* A machine that has gone answers 404.
Answer(v) == IF v \in fleet THEN answer[v] ELSE Failed

\* A mutant: break for continue.
SkipFetchLast(v) ==
  /\ Answer(v) = Failed
  /\ todo' = {}
  /\ UNCHANGED <<rows, pc>>

\* A mutant: no try around the fetch.
SkipFetchAborts(v) ==
  /\ Answer(v) = Failed
  /\ pc' = "aborted"
  /\ UNCHANGED <<rows, todo>>

\* A fetch that raises is logged and the machine skipped.
SkipFetch(v) ==
  /\ Answer(v) = Failed
  /\ todo' = todo \ {v}
  /\ UNCHANGED <<rows, pc>>

\* float() of a text, outside the try: the seed ends.
FetchRaises(v) ==
  /\ Answer(v) # Failed
  /\ \E r \in answer[v] : r.kind = "text"
  /\ pc' = "aborted"
  /\ UNCHANGED <<todo, rows>>

FetchRows(v) ==
  /\ Answer(v) # Failed
  /\ \A r \in answer[v] : r.kind # "text"
  /\ rows' = rows \cup Usable(v)
  /\ todo' = todo \ {v}
  /\ UNCHANGED pc

Fetch(v) ==
  /\ pc = "fetch" /\ v \in todo
  /\ SkipFetch(v) \/ FetchRaises(v) \/ FetchRows(v)
  /\ UNCHANGED <<world, vms, files, tables, workers, faults>>

\* A mutant: the file of an earlier attempt is taken for this one's, as router does.
OpenVmsOnce ==
  /\ pc = "fetch" /\ todo = {}
  /\ IF vmsFile["seed"] \in {Absent, Torn}
     THEN vmsFile' = [vmsFile EXCEPT !["seed"] = Torn] /\ pc' = "vms"
     ELSE UNCHANGED vmsFile /\ pc' = "util"
  /\ UNCHANGED <<world, collector, utilFile, tables, workers, faults>>

\* open(..., "w") truncates; the dump follows.
OpenVms ==
  /\ pc = "fetch" /\ todo = {}
  /\ vmsFile' = [vmsFile EXCEPT !["seed"] = Torn]
  /\ pc' = "vms"
  /\ UNCHANGED <<world, collector, utilFile, tables, workers, faults>>

WriteVms ==
  /\ pc = "vms"
  /\ vmsFile' = [vmsFile EXCEPT !["seed"] = vms]
  /\ utilFile' = [utilFile EXCEPT !["seed"] = Torn]
  /\ pc' = "util"
  /\ UNCHANGED <<world, collector, tables, workers, faults>>

WriteUtil ==
  /\ pc = "util"
  /\ utilFile' = [utilFile EXCEPT !["seed"] = rows]
  /\ pc' = "load"
  /\ UNCHANGED <<world, collector, vmsFile, tables, workers, faults>>

\* miq_utilization has one row for a machine and an hour.
KeyTwice(s) == \E x, y \in s : x # y /\ x.vm = y.vm /\ x.hour = y.hour

\* The join is built from vms.json and loaded with the samples, in one transaction.
Load ==
  /\ pc = "load" /\ ~KeyTwice(utilFile["seed"])
  /\ joinOf' = vmsFile["seed"]
  /\ util' = utilFile["seed"]
  /\ pc' = "onprem"
  /\ UNCHANGED <<world, collector, files, onprem, workers, faults>>

LoadRaises ==
  /\ pc = "load" /\ KeyTwice(utilFile["seed"])
  /\ pc' = "aborted"
  /\ UNCHANGED <<world, collector, files, tables, workers, faults>>

SeedOnprem ==
  /\ pc = "onprem"
  /\ onprem' = OnpremVms
  /\ pc' = "seeded"
  /\ UNCHANGED <<world, collector, files, joinOf, util, workers, faults>>

\* The container of the seed dies, or is started again after its seed ended early.
Seeding == pc \in {"start", "collect", "fetch", "vms", "util", "load", "onprem"}

Crash ==
  /\ Seeding /\ faults < MaxFaults
  /\ pc' = "aborted"
  /\ faults' = faults + 1
  /\ UNCHANGED <<world, collector, files, tables, workers>>

\* What the process held is gone; ListVms sets it anew.
Restart ==
  /\ pc = "aborted"
  /\ pc' = "start"
  /\ UNCHANGED <<world, collector, files, tables, workers, faults>>

\* Machines are provisioned and retired.
FleetChanges ==
  /\ live /\ Seeding
  /\ faults < MaxFaults /\ faults' = faults + 1
  /\ \E v \in LiveVms :
       IF v \in fleet THEN fleet' = fleet \ {v} /\ left' = left \cup {v}
                      ELSE fleet' = fleet \cup {v} /\ UNCHANGED left
  /\ UNCHANGED <<live, answer, pc, collector, files, tables, workers>>

-----------------------------------------------------------------------------

(***************************************************************************)
(* The rebuilds, one in each worker process, after an upload or a removal. *)
(***************************************************************************)
File(w) == vmsFile[Home[w]]

Goto(w, from, to) == wpc[w] = from /\ wpc' = [wpc EXCEPT ![w] = to]

\* os.path.exists(vms_path).
CheckFile(w) ==
  /\ pc = "seeded"
  /\ Goto(w, "idle", IF File(w) = Absent THEN "open" ELSE "read")
  /\ UNCHANGED <<world, pc, collector, files, tables, read, faults>>

OpenSnapshot(w) ==
  /\ Goto(w, "open", "dump")
  /\ vmsFile' = [vmsFile EXCEPT ![Home[w]] = Torn]
  /\ UNCHANGED <<world, pc, collector, utilFile, tables, read, faults>>

DumpSnapshot(w) ==
  /\ Goto(w, "dump", "read")
  /\ vmsFile' = [vmsFile EXCEPT ![Home[w]] = Synthetic]
  /\ utilFile' = [utilFile EXCEPT ![Home[w]] = SyntheticRows]
  /\ UNCHANGED <<world, pc, collector, tables, read, faults>>

\* A mutant: a reader that takes what there is of a file.
ReadPartly(w) ==
  /\ Goto(w, "read", "join")
  /\ read' = [read EXCEPT ![w] = IF File(w) = Torn THEN {CHOOSE v \in Synthetic : TRUE} ELSE File(w)]
  /\ UNCHANGED <<world, pc, collector, files, tables, faults>>

ReadFile(w) ==
  /\ File(w) # Torn
  /\ Goto(w, "read", "join")
  /\ read' = [read EXCEPT ![w] = File(w)]
  /\ UNCHANGED <<world, pc, collector, files, tables, faults>>

\* json.load of a file that another worker has just truncated: the rebuild fails.
ReadTorn(w) ==
  /\ File(w) = Torn
  /\ Goto(w, "read", "idle")
  /\ UNCHANGED <<world, pc, collector, files, tables, read, faults>>

\* The recharge that is reloaded next has the rows it had.
LoadJoinOnly(w) ==
  /\ Goto(w, "join", "idle")
  /\ joinOf' = read[w]
  /\ read' = [read EXCEPT ![w] = {}]
  /\ UNCHANGED <<world, pc, collector, files, util, onprem, faults>>

Rebuild(w) == CheckFile(w) \/ OpenSnapshot(w) \/ DumpSnapshot(w) \/ ReadFile(w)
                \/ ReadTorn(w) \/ LoadJoinOnly(w)

SeedStep == Start \/ ListVms \/ (\E v \in LiveVms : Fetch(v)) \/ OpenVms \/ WriteVms
              \/ WriteUtil \/ Load \/ LoadRaises \/ SeedOnprem \/ Restart

Next == SeedStep \/ ListVmsFails \/ Crash \/ FleetChanges \/ \E w \in Workers : Rebuild(w)

\* The container runtime restarts what ends and keeps what runs running.
Fairness == WF_vars(SeedStep) /\ \A w \in Workers : WF_vars(Rebuild(w))

Spec == Init /\ [][Next]_vars /\ Fairness

-----------------------------------------------------------------------------

(***************************************************************************)
(* Properties.                                                             *)
(***************************************************************************)
TypeOK ==
  /\ live \in LiveModes /\ fleet \subseteq LiveVms /\ left \subseteq LiveVms
  /\ pc \in {"seeded", "aborted"} \/ Seeding
  /\ vms \in {Synthetic} \cup SUBSET LiveVms /\ todo \subseteq vms \cap LiveVms
  /\ \A r \in rows : r.vm \in vms
  /\ vmsFile \in [{"seed", "web"} -> {Absent, Torn, Synthetic} \cup SUBSET LiveVms]
  /\ wpc \in [Workers -> {"idle", "open", "dump", "read", "join"}]
  /\ faults \in 0..MaxFaults

\* What a machine answered is collected to the last usable rollup, and only the
\* machines whose metrics could not be fetched are without: one bad machine costs no
\* other its samples.
CollectsTheRest ==
  live /\ pc \in {"vms", "util", "load", "onprem", "seeded"} =>
    \A v \in vms \ left :
      {r \in rows : r.vm = v} = IF answer[v] = Failed THEN {} ELSE Usable(v)

\* The samples a seed loads are of machines of the inventory it joins, also when an
\* earlier attempt died between the two files and the fleet has changed since.
SeededTogether ==
  [][pc = "load" /\ pc' = "onprem" => \A r \in util' : r.vm \in joinOf']_vars

\* The join is never of a part of an inventory, although the workers of a container
\* write and read one file without a lock.
JoinOfWholeInventory == joinOf = Synthetic \/ joinOf \subseteq LiveVms

WellFormed(f) == f = Failed \/ ((\A r \in f : r.kind # "text") /\ \A x, y \in f : x.kind = "usable" /\ y.kind = "usable" /\ x.hour = y.hour => x = y)

\* With a bounded number of crashes and outages, and machines whose rollups are well
\* formed or cannot be had, the seed is done at last.
SeedServes == (\A v \in LiveVms : WellFormed(answer[v])) => <>(pc = "seeded")

(***************************************************************************)
(* Promises that the code does not keep.                                   *)
(***************************************************************************)

\* GOTCHAS MIQ-1: the collection completes with what it can get.
OneBadVmNeverSinks == pc = "aborted" => faults > 0

\* docker/seed.py, GOTCHAS MIQ-1: with MIQ_URL set the inventory is the live one.
LiveModeJoinsLive == live => joinOf \cap Synthetic = {}

\* onprem/cost_model.py: the recharge rows attach to the machines of the join.
OnpremAttaches == pc = "seeded" => onprem \subseteq joinOf

====
