------------------------------- MODULE VmdbSeed -------------------------------
(***************************************************************************)
(* generators/miq_vmdb_seed.py: the script that puts the synthetic estate  *)
(* into the VMDB of a ManageIQ appliance.  It numbers machines, hardware   *)
(* and samples with counters of its own, and is applied in one transaction *)
(* that first deletes what an earlier script, of an earlier list of        *)
(* workloads, may have left.                                               *)
(***************************************************************************)
EXTENDS Workloads

CONSTANTS
  Lists,       \* the lists of workloads that WORKLOADS is edited through
  RealVms,     \* ids of machines that the appliance has of its own
  FirstMetric, \* DEMO_METRIC_ID_START
  DemoRange,   \* where the DELETEs of vms and hardwares begin
  MaxApplied

\* Workloads have names of their own; the ids that the script gives are in the range that
\* it clears.
ASSUME VmdbSeedAssumption ==
  /\ \A l \in Lists : l \in Seq([name : STRING, on : Estate])
  /\ \A l \in Lists : \A i, j \in DOMAIN l : l[i].name = l[j].name => i = j
  /\ RealVms \subseteq Nat
  /\ FirstVm \in Nat /\ FirstMetric \in Nat /\ MaxApplied \in Nat
  /\ DemoRange \in Nat /\ DemoRange <= FirstVm
  /\ IsFiniteSet(Hours) /\ Hours = 0..(Cardinality(Hours) - 1)

VARIABLES
  list,      \* WORKLOADS
  at,        \* workloads emitted into the script
  vmId, hwId, metricId,  \* the counters of build_sql
  script,    \* the INSERTs emitted
  vmdb,      \* the appliance's tables
  applied    \* scripts applied so far

scriptVars == <<list, at, vmId, hwId, metricId, script, vmdb, applied>>

Empty == [vms |-> {}, hardware |-> {}, metrics |-> {}]

RealVm(v) == [id |-> v, name |-> "real", vendor |-> "redhat", uid |-> NoKey, ref |-> NoKey]

ScriptInit ==
  /\ list \in Lists
  /\ at = 0 /\ vmId = FirstVm /\ hwId = FirstVm /\ metricId = FirstMetric
  /\ script = Empty
  /\ vmdb = [Empty EXCEPT !.vms = {RealVm(v) : v \in RealVms}]
  /\ applied = 0

\* The INSERTs of one machine: its row, its hardware, its samples.
Machine(n, w, row) ==
  [vms      |-> {VmRow(vmId + n, w, row)},
   hardware |-> {[id |-> hwId + n, vm |-> vmId + n]},
   metrics  |-> {[id |-> metricId + n * Cardinality(Hours) + h, vm |-> vmId + n,
                  hour |-> h, load |-> w.name] : h \in Hours}]

Plus(a, b) == [t \in DOMAIN a |-> a[t] \cup b[t]]

\* One turn of the loop over WORKLOADS.
Emit ==
  LET w == list[at + 1]
      n == IF CrossCloud(w) THEN 2 ELSE 1
  IN
  /\ at < Len(list)
  /\ at' = at + 1
  /\ script' = Plus(Plus(script, Machine(0, w, FirstRow(w))),
                    IF CrossCloud(w) THEN Machine(1, w, AzureRow(w)) ELSE Empty)
  /\ vmId' = vmId + n /\ hwId' = hwId + n
  /\ metricId' = metricId + n * Cardinality(Hours)
  /\ UNCHANGED <<list, vmdb, applied>>

\* A mutant: only what the new script numbers is deleted.
KeptSame == [vms      |-> {v \in vmdb.vms : v.id \notin {x.id : x \in script.vms}},
             hardware |-> {x \in vmdb.hardware : x.id \notin {y.id : y \in script.hardware}},
             metrics  |-> {m \in vmdb.metrics : m.id \notin {x.id : x \in script.metrics}}]

\* The DELETEs, which have no upper bound.
Kept == [vms      |-> {v \in vmdb.vms : v.id < DemoRange},
         hardware |-> {x \in vmdb.hardware : x.id < DemoRange},
         metrics  |-> {m \in vmdb.metrics : m.id < FirstMetric}]

UniqueIds(rows) == \A x, y \in rows : x.id = y.id => x = y

\* psql with ON_ERROR_STOP: a key that is taken rolls the transaction back.
Apply ==
  LET after == Plus(Kept, script) IN
  /\ at = Len(list) /\ applied < MaxApplied
  /\ applied' = applied + 1
  /\ vmdb' = IF \A t \in DOMAIN after : UniqueIds(after[t]) THEN after ELSE vmdb
  /\ UNCHANGED <<list, at, vmId, hwId, metricId, script>>

\* WORKLOADS is edited and the script generated anew.
Edit(l) ==
  /\ at = Len(list) /\ applied > 0 /\ applied < MaxApplied
  /\ list' = l
  /\ at' = 0 /\ vmId' = FirstVm /\ hwId' = FirstVm /\ metricId' = FirstMetric
  /\ script' = Empty
  /\ UNCHANGED <<vmdb, applied>>

ScriptNext == Emit \/ Apply \/ \E l \in Lists : Edit(l)

ScriptSpec == ScriptInit /\ [][ScriptNext]_scriptVars

-----------------------------------------------------------------------------

(***************************************************************************)
(* Properties.                                                             *)
(***************************************************************************)
Demo(rows) == {v \in rows : v.id >= FirstVm}

\* The appliance that the script was applied to shows the collector the inventory and
\* the samples that miq_snapshot synthesizes, machine for machine, although each side
\* numbers the machines by itself, and whatever an earlier script left behind.
SeedMatchesSnapshot ==
  [][applied' # applied =>
       /\ Demo(vmdb'.vms) = SynthesizedVms(list)
       /\ {[vm |-> m.vm, hour |-> m.hour, load |-> m.load] : m \in vmdb'.metrics}
            = SynthesizedUtil(list)]_scriptVars

\* The recharge of an on-prem workload is filed under the machine that the snapshot
\* has for it, and displayed under its own name: reordering WORKLOADS moves no cost to
\* another machine (GOTCHAS H-2).
RechargeStaysPut ==
  LET rows == Recharges(list) IN
  /\ \A r \in rows : \E v \in SynthesizedVms(list) :
       v.id = r.vm /\ v.name = r.unit /\ v.vendor = "redhat"
  /\ Cardinality(DisplayedRecharges(list, rows)) = Cardinality(rows)
  /\ \A d \in DisplayedRecharges(list, rows) : d.unit = d.charged

(***************************************************************************)
(* A promise that the script does not keep.                                *)
(***************************************************************************)

\* generators/miq_vmdb_seed.py: the script deletes prior demo rows, and those only.
RealMachinesSurvive == \A v \in RealVms : RealVm(v) \in vmdb.vms

-----------------------------------------------------------------------------

(***************************************************************************)
(* What makes these inductive: the script holds the machines of the        *)
(* workloads emitted, numbered as workload_vm_ids numbers them, and a      *)
(* sample's number tells its machine and its hour.                         *)
(***************************************************************************)
MachinesOf(l, i) ==
  {VmRow(VmIds(l, i)[1], l[i], FirstRow(l[i]))}
    \cup IF CrossCloud(l[i]) THEN {VmRow(VmIds(l, i)[2], l[i], AzureRow(l[i]))} ELSE {}

HardwareOf(l, i) == {[id |-> VmIds(l, i)[k], vm |-> VmIds(l, i)[k]] : k \in DOMAIN VmIds(l, i)}

SampleId(v, h) == FirstMetric + (v - FirstVm) * Cardinality(Hours) + h

SamplesOf(l, i) ==
  {[id |-> SampleId(VmIds(l, i)[k], h), vm |-> VmIds(l, i)[k], hour |-> h, load |-> l[i].name] :
     k \in DOMAIN VmIds(l, i), h \in Hours}

Numbered ==
  /\ list \in Lists
  /\ at \in 0..Len(list)
  /\ vmId = FirstId(list)[at + 1] /\ hwId = vmId
  /\ metricId = SampleId(vmId, 0)

Scripted ==
  /\ DOMAIN script = DOMAIN Empty
  /\ script.vms      = UNION {MachinesOf(list, i) : i \in 1..at}
  /\ script.hardware = UNION {HardwareOf(list, i) : i \in 1..at}
  /\ script.metrics  = UNION {SamplesOf(list, i) : i \in 1..at}

\* What the DELETEs leave are machines of the appliance.
Cleared ==
  /\ DOMAIN vmdb = DOMAIN Empty
  /\ Kept.vms \subseteq {RealVm(v) : v \in RealVms}
  /\ Kept.hardware = {} /\ Kept.metrics = {}

ScriptInv == Numbered /\ Scripted /\ Cleared

====
