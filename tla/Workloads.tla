------------------------------ MODULE Workloads ------------------------------
(***************************************************************************)
(* The synthetic estate of generators/common.py and what three parts of    *)
(* the program derive from it: the ManageIQ inventory and utilization of   *)
(* join/miq_snapshot.py, and the recharge of onprem/cost_model.py.         *)
(*                                                                         *)
(* A workload is its name and the clouds it has an identifier on; an       *)
(* identifier is a pair of how it is written and the workload it is of.    *)
(***************************************************************************)
EXTENDS Integers, Sequences, FiniteSets

CONSTANTS
  FirstVm,   \* DEMO_VM_ID_START
  Hours      \* the hourly samples of a machine, 0..23 in the code

Clouds == {"aws", "azure", "oci"}

\* The combinations that WORKLOADS has.
Estate == {{"aws"}, {"azure"}, {"oci"}, {"aws", "azure"}, {}}

IsOnPremOnly(w) == w.on = {}
CrossCloud(w)   == {"aws", "azure"} \subseteq w.on

\* workload_vm_ids: a counter that a cross-cloud workload advances by two.
FirstId(l) ==
  LET f[i \in 1..(Len(l) + 1)] ==
        IF i = 1 THEN FirstVm
        ELSE f[i - 1] + (IF CrossCloud(l[i - 1]) THEN 2 ELSE 1)
  IN f

VmIds(l, i) ==
  LET first == FirstId(l)[i]
  IN IF CrossCloud(l[i]) THEN <<first, first + 1>> ELSE <<first>>

NoKey == <<"none", "">>

\* Vendor, uid_ems and ems_ref of a workload's first machine.
FirstRow(w) ==
  CASE "aws" \in w.on -> [vendor |-> "amazon", uid |-> <<"aws", w.name>>, ref |-> <<"aws", w.name>>]
    [] w.on = {"azure"} -> [vendor |-> "azure", uid |-> <<"tail", w.name>>, ref |-> <<"azure", w.name>>]
    [] "aws" \notin w.on /\ "oci" \in w.on ->
         [vendor |-> "oracle", uid |-> <<"oci", w.name>>, ref |-> <<"oci", w.name>>]
    [] OTHER -> [vendor |-> "redhat", uid |-> NoKey, ref |-> NoKey]

AzureRow(w) == [vendor |-> "azure", uid |-> <<"tail", w.name>>, ref |-> <<"azure", w.name>>]

VmRow(id, w, r) == [id |-> id, name |-> w.name, vendor |-> r.vendor, uid |-> r.uid, ref |-> r.ref]

\* synthesize_vms.
SynthesizedVms(l) ==
  UNION {LET ids == VmIds(l, i)
         IN {VmRow(ids[1], l[i], FirstRow(l[i]))}
              \cup IF CrossCloud(l[i]) THEN {VmRow(ids[2], l[i], AzureRow(l[i]))} ELSE {}
         : i \in DOMAIN l}

\* synthesize_utilization.
SynthesizedUtil(l) ==
  UNION {{[vm |-> VmIds(l, i)[k], hour |-> h, load |-> l[i].name] :
            k \in DOMAIN VmIds(l, i), h \in Hours} : i \in DOMAIN l}

\* A mutant: the third derivation of the id that H-2 removed, a row number.
RechargeByPosition(l) ==
  {[vm |-> FirstVm + i - 1, unit |-> l[i].name] : i \in {j \in DOMAIN l : IsOnPremOnly(l[j])}}

\* cost_model.compute_rows.
Recharges(l) ==
  {[vm |-> VmIds(l, i)[1], unit |-> l[i].name] : i \in {j \in DOMAIN l : IsOnPremOnly(l[j])}}

\* queries.onprem_cost_estimate looks the workload of a row up by its machine and
\* passes over a row whose machine no workload has.
WorkloadOf(l, vm) ==
  {l[i] : i \in {j \in DOMAIN l : \E k \in DOMAIN VmIds(l, j) : VmIds(l, j)[k] = vm}}

DisplayedRecharges(l, rows) ==
  UNION {{[unit |-> w.name, charged |-> r.unit] : w \in WorkloadOf(l, r.vm)} : r \in rows}

====
