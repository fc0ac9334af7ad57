-------------------------- MODULE MiqCollectorProofs --------------------------
(***************************************************************************)
(* The join is of a whole inventory and is loaded with its own samples, and*)
(* a machine that fails costs no other its samples: of any fleet, any number*)
(* of workers and any number of crashes.  In the second half, the appliance*)
(* that is collected from, as the script fills it: of any workloads.       *)
(***************************************************************************)
EXTENDS MiqCollector, VmdbSeed, FiniteSetTheorems, TLAPS

\* What an inventory can be: the synthesized one, or one that was listed.
Whole == {Synthetic} \cup SUBSET LiveVms

\* The rebuilds wait for the seed; what the seed has collected and written is of the
\* machines that it listed.
SeedInv ==
  /\ pc # "seeded" => \A w \in Workers : wpc[w] = "idle"
  /\ pc \in {"fetch", "vms", "util", "load"} => vms \in Whole
  /\ pc \in {"fetch", "vms", "util", "load"} => \A r \in rows : r.vm \in vms
  /\ pc = "fetch" => todo \subseteq vms
  /\ pc \in {"util", "load"} => vmsFile["seed"] = vms
  /\ pc = "load" => utilFile["seed"] = rows

\* A worker that is about to read finds the file whole or being written.
WorkerInv ==
  \A w \in Workers :
    /\ wpc[w] = "read" => File(w) \in Whole \cup {Torn}
    /\ wpc[w] = "join" => read[w] \in Whole

Types ==
  /\ fleet \subseteq LiveVms
  /\ vmsFile \in [{"seed", "web"} -> Whole \cup {Absent, Torn}]
  /\ DOMAIN utilFile = {"seed", "web"}
  /\ wpc \in [Workers -> {"idle", "open", "dump", "read", "join"}]
  /\ DOMAIN read = Workers
  /\ joinOf \in Whole

CollectorInv == Types /\ SeedInv /\ WorkerInv

-----------------------------------------------------------------------------

LEMMA CollectorInit == Init => CollectorInv
BY MiqAssumption DEF Init, CollectorInv, Types, SeedInv, WorkerInv, Whole

\* A step of the seed that leaves the files as they are.
LEMMA SeedKeepsFiles ==
  ASSUME CollectorInv, UNCHANGED <<fleet, files, workers>>, joinOf' \in Whole
  PROVE  Types' /\ WorkerInv'
<1>1. UNCHANGED <<fleet, vmsFile, utilFile, wpc, read>>
  BY DEF files, workers
<1>2. Types'
  BY <1>1 DEF CollectorInv, Types
<1>3. WorkerInv'
  BY <1>1 DEF CollectorInv, WorkerInv, File
<1> QED
  BY <1>2, <1>3

\* A step of the seed that writes a file, while the workers wait.
LEMMA SeedWrites ==
  ASSUME CollectorInv, pc # "seeded", UNCHANGED <<fleet, workers, joinOf>>,
         vmsFile' \in [{"seed", "web"} -> Whole \cup {Absent, Torn}],
         DOMAIN utilFile' = {"seed", "web"}
  PROVE  Types' /\ WorkerInv'
<1>1. UNCHANGED <<fleet, wpc, read, joinOf>> /\ \A w \in Workers : wpc[w] = "idle"
  BY DEF workers, CollectorInv, SeedInv
<1>2. Types'
  BY <1>1 DEF CollectorInv, Types
<1>3. WorkerInv'
  BY <1>1 DEF WorkerInv
<1> QED
  BY <1>2, <1>3

\* The samples of a machine are its own.
LEMMA UsableIsOwn ==
  ASSUME NEW v, NEW r \in Usable(v)
  PROVE  r.vm = v
BY DEF Usable

LEMMA SeedStepKeeps == CollectorInv /\ SeedStep => CollectorInv'
<1> SUFFICES ASSUME CollectorInv, SeedStep PROVE CollectorInv'
  OBVIOUS
<1>t. Types /\ SeedInv /\ WorkerInv
  BY DEF CollectorInv
<1> USE DEF world
<1>1. CASE Start
  <2>1. Types' /\ WorkerInv'
    BY <1>1, SeedKeepsFiles DEF Start, Whole
  <2>2. SeedInv'
    BY <1>t, <1>1 DEF Start, SeedInv, workers
  <2> QED
    BY <2>1, <2>2 DEF CollectorInv
<1>2. CASE ListVms
  <2>1. Types' /\ WorkerInv'
    BY <1>t, <1>2, SeedKeepsFiles DEF ListVms, tables, Types
  <2>2. vms' \in Whole /\ \A r \in rows' : r.vm \in vms'
    <3>1. \A r \in SyntheticRows : r.vm \in Synthetic
      BY DEF SyntheticRows
    <3>2. CASE live
      <4>1. vms' = fleet /\ rows' = {} /\ fleet \subseteq LiveVms
        BY <1>t, <1>2, <3>2 DEF ListVms, Types
      <4> QED
        BY <4>1 DEF Whole
    <3>3. CASE ~live
      BY <1>2, <3>1, <3>3 DEF ListVms, Whole
    <3> QED
      BY <3>2, <3>3
  <2>3. SeedInv'
    BY <1>t, <1>2, <2>2 DEF ListVms, SeedInv, workers
  <2> QED
    BY <2>1, <2>3 DEF CollectorInv
<1>3. ASSUME NEW v \in LiveVms, Fetch(v) PROVE CollectorInv'
  <2>1. /\ pc = "fetch" /\ v \in todo
        /\ UNCHANGED <<fleet, vms, files, tables, workers>>
        /\ SkipFetch(v) \/ FetchRaises(v) \/ FetchRows(v)
    BY <1>3 DEF Fetch
  <2>2. Types' /\ WorkerInv'
    BY <1>t, <2>1, SeedKeepsFiles DEF tables, Types
  <2>3. CASE SkipFetch(v)
    BY <1>t, <2>1, <2>2, <2>3 DEF SkipFetch, SeedInv, workers, CollectorInv
  <2>4. CASE FetchRaises(v)
    BY <1>t, <2>1, <2>2, <2>4 DEF FetchRaises, SeedInv, workers, CollectorInv
  <2>5. CASE FetchRows(v)
    <3>1. \A r \in Usable(v) : r.vm = v
      BY UsableIsOwn
    <3>2. /\ pc' = "fetch" /\ vms' = vms
          /\ rows' = rows \cup Usable(v) /\ todo' = todo \ {v}
      BY <2>1, <2>5 DEF FetchRows
    <3>3. v \in vms
      BY <1>t, <2>1 DEF SeedInv
    <3>4. \A r \in rows' : r.vm \in vms'
      BY <1>t, <2>1, <3>1, <3>2, <3>3 DEF SeedInv
    <3> QED
      BY <1>t, <2>1, <2>2, <3>2, <3>4 DEF SeedInv, workers, CollectorInv
  <2> QED
    BY <2>1, <2>3, <2>4, <2>5
<1>4. CASE OpenVms
  <2>1. /\ pc = "fetch" /\ pc' = "vms"
        /\ vmsFile' = [vmsFile EXCEPT !["seed"] = Torn]
        /\ UNCHANGED <<fleet, vms, rows, utilFile, workers, joinOf>>
    BY <1>4 DEF OpenVms, collector, tables
  <2>2. Types' /\ WorkerInv'
    BY <1>t, <2>1, SeedWrites DEF Types
  <2> QED
    BY <1>t, <2>1, <2>2 DEF SeedInv, workers, CollectorInv
<1>5. CASE WriteVms
  <2>1. /\ pc = "vms" /\ pc' = "util"
        /\ vmsFile' = [vmsFile EXCEPT !["seed"] = vms]
        /\ utilFile' = [utilFile EXCEPT !["seed"] = Torn]
        /\ UNCHANGED <<fleet, vms, rows, workers, joinOf>>
    BY <1>5 DEF WriteVms, collector, tables
  <2>2. vms \in Whole
    BY <1>t, <2>1 DEF SeedInv
  <2>3. Types' /\ WorkerInv'
    BY <1>t, <2>1, <2>2, SeedWrites DEF Types
  <2>4. vmsFile'["seed"] = vms'
    BY <1>t, <2>1 DEF Types
  <2> QED
    BY <1>t, <2>1, <2>3, <2>4 DEF SeedInv, workers, CollectorInv
<1>6. CASE WriteUtil
  <2>1. /\ pc = "util" /\ pc' = "load"
        /\ utilFile' = [utilFile EXCEPT !["seed"] = rows]
        /\ UNCHANGED <<fleet, vms, rows, vmsFile, workers, joinOf>>
    BY <1>6 DEF WriteUtil, collector, tables
  <2>2. Types' /\ WorkerInv'
    BY <1>t, <2>1, SeedWrites DEF Types
  <2>3. utilFile'["seed"] = rows'
    BY <1>t, <2>1 DEF Types
  <2> QED
    BY <1>t, <2>1, <2>2, <2>3 DEF SeedInv, workers, CollectorInv
<1>7. CASE Load
  <2>1. joinOf' \in Whole
    BY <1>t, <1>7 DEF Load, SeedInv
  <2>2. Types' /\ WorkerInv'
    BY <1>7, <2>1, SeedKeepsFiles DEF Load
  <2> QED
    BY <1>t, <1>7, <2>2 DEF Load, SeedInv, workers, CollectorInv
<1>8. CASE LoadRaises
  BY <1>t, <1>8, SeedKeepsFiles DEF LoadRaises, SeedInv, tables, workers, Types, CollectorInv
<1>9. CASE SeedOnprem
  BY <1>t, <1>9, SeedKeepsFiles DEF SeedOnprem, SeedInv, Types, CollectorInv
<1>10. CASE Restart
  BY <1>t, <1>10, SeedKeepsFiles DEF Restart, SeedInv, tables, workers, Types, CollectorInv
<1> QED
  BY <1>1, <1>2, <1>3, <1>4, <1>5, <1>6, <1>7, <1>8, <1>9, <1>10 DEF SeedStep

\* The faults of the seed, and the fleet that changes meanwhile.
LEMMA FaultKeeps ==
  CollectorInv /\ (ListVmsFails \/ Crash \/ FleetChanges) => CollectorInv'
<1> SUFFICES ASSUME CollectorInv, ListVmsFails \/ Crash \/ FleetChanges PROVE CollectorInv'
  OBVIOUS
<1>t. Types /\ SeedInv /\ WorkerInv
  BY DEF CollectorInv
<1>1. CASE ListVmsFails
  BY <1>t, <1>1, SeedKeepsFiles
     DEF ListVmsFails, world, SeedInv, tables, workers, Types, CollectorInv
<1>2. CASE Crash
  BY <1>t, <1>2, SeedKeepsFiles
     DEF Crash, Seeding, world, SeedInv, tables, workers, Types, CollectorInv
<1>3. CASE FleetChanges
  <2>1. /\ UNCHANGED <<pc, vms, todo, rows, vmsFile, utilFile, wpc, read, joinOf>>
        /\ fleet' \subseteq LiveVms
    BY <1>t, <1>3 DEF FleetChanges, collector, files, tables, workers, Types
  <2> QED
    BY <1>t, <2>1 DEF CollectorInv, Types, SeedInv, WorkerInv, File
<1> QED
  BY <1>1, <1>2, <1>3

\* A rebuild is under way only when the seed is done.
LEMMA RebuildKeeps ==
  ASSUME CollectorInv, NEW w \in Workers, Rebuild(w)
  PROVE  CollectorInv'
<1>t. Types /\ SeedInv /\ WorkerInv
  BY DEF CollectorInv
<1>h. Home[w] \in {"seed", "web"} /\ \A u \in Workers : Home[u] \in {"seed", "web"}
  BY MiqAssumption
<1>w. pc = "seeded" /\ UNCHANGED <<fleet, pc>>
  BY <1>t DEF Rebuild, CheckFile, OpenSnapshot, DumpSnapshot, ReadFile, ReadTorn, LoadJoinOnly,
     Goto, SeedInv, world
<1>s. SeedInv'
  BY <1>w DEF SeedInv
<1>1. CASE CheckFile(w)
  <2>1. /\ UNCHANGED <<vmsFile, utilFile, read, joinOf>>
        /\ wpc' = [wpc EXCEPT ![w] = IF File(w) = Absent THEN "open" ELSE "read"]
    BY <1>1 DEF CheckFile, Goto, files, tables
  <2>2. Types'
    BY <1>t, <1>w, <2>1 DEF Types
  <2>3. File(w) \in Whole \cup {Absent, Torn}
    BY <1>t, <1>h DEF Types, File
  <2>4. WorkerInv'
    BY <1>t, <2>1, <2>3 DEF Types, WorkerInv, File
  <2> QED
    BY <1>s, <2>2, <2>4 DEF CollectorInv
<1>2. CASE OpenSnapshot(w)
  <2>1. /\ UNCHANGED <<utilFile, read, joinOf>>
        /\ vmsFile' = [vmsFile EXCEPT ![Home[w]] = Torn]
        /\ wpc' = [wpc EXCEPT ![w] = "dump"]
    BY <1>2 DEF OpenSnapshot, Goto, tables
  <2>2. Types'
    BY <1>t, <1>w, <2>1 DEF Types
  <2>3. \A u \in Workers : File(u)' \in {File(u), Torn}
    BY <1>t, <1>h, <2>1 DEF Types, File
  <2>4. WorkerInv'
    BY <1>t, <2>1, <2>3 DEF Types, WorkerInv
  <2> QED
    BY <1>s, <2>2, <2>4 DEF CollectorInv
<1>3. CASE DumpSnapshot(w)
  <2>1. /\ UNCHANGED <<read, joinOf>>
        /\ vmsFile' = [vmsFile EXCEPT ![Home[w]] = Synthetic]
        /\ utilFile' = [utilFile EXCEPT ![Home[w]] = SyntheticRows]
        /\ wpc' = [wpc EXCEPT ![w] = "read"]
    BY <1>3 DEF DumpSnapshot, Goto, tables
  <2>2. Types'
    BY <1>t, <1>w, <2>1 DEF Types, Whole
  <2>3. /\ \A u \in Workers : File(u)' \in {File(u), Synthetic}
        /\ File(w)' = Synthetic
    BY <1>t, <1>h, <2>1 DEF Types, File
  <2>4. WorkerInv'
    BY <1>t, <2>1, <2>3 DEF Types, WorkerInv, Whole
  <2> QED
    BY <1>s, <2>2, <2>4 DEF CollectorInv
<1>4. CASE ReadFile(w)
  <2>1. /\ UNCHANGED <<vmsFile, utilFile, joinOf>>
        /\ wpc[w] = "read" /\ File(w) # Torn
        /\ wpc' = [wpc EXCEPT ![w] = "join"]
        /\ read' = [read EXCEPT ![w] = File(w)]
    BY <1>4 DEF ReadFile, Goto, files, tables
  <2>2. Types'
    BY <1>t, <1>w, <2>1 DEF Types
  <2>3. File(w) \in Whole
    BY <1>t, <2>1 DEF WorkerInv
  <2>4. WorkerInv'
    BY <1>t, <2>1, <2>3 DEF Types, WorkerInv, File
  <2> QED
    BY <1>s, <2>2, <2>4 DEF CollectorInv
<1>5. CASE ReadTorn(w)
  <2>1. /\ UNCHANGED <<vmsFile, utilFile, read, joinOf>>
        /\ wpc' = [wpc EXCEPT ![w] = "idle"]
    BY <1>5 DEF ReadTorn, Goto, files, tables
  <2> QED
    BY <1>t, <1>w, <1>s, <2>1 DEF CollectorInv, Types, WorkerInv, File
<1>6. CASE LoadJoinOnly(w)
  <2>1. /\ UNCHANGED <<vmsFile, utilFile>>
        /\ wpc[w] = "join" /\ joinOf' = read[w]
        /\ wpc' = [wpc EXCEPT ![w] = "idle"]
        /\ read' = [read EXCEPT ![w] = {}]
    BY <1>6 DEF LoadJoinOnly, Goto, files
  <2>2. joinOf' \in Whole
    BY <1>t, <2>1 DEF WorkerInv
  <2> QED
    BY <1>t, <1>w, <1>s, <2>1, <2>2 DEF CollectorInv, Types, WorkerInv, File
<1> QED
  BY <1>1, <1>2, <1>3, <1>4, <1>5, <1>6 DEF Rebuild

LEMMA CollectorNext == CollectorInv /\ [Next]_vars => CollectorInv'
<1>1. CollectorInv /\ UNCHANGED vars => CollectorInv'
  BY DEF vars, world, collector, files, tables, workers,
         CollectorInv, Types, SeedInv, WorkerInv, File
<1> QED
  BY <1>1, SeedStepKeeps, FaultKeeps, RebuildKeeps DEF Next

-----------------------------------------------------------------------------

LEMMA TypeInit == Init => TypeOK
<1> SUFFICES ASSUME Init PROVE TypeOK
  OBVIOUS
<1>1. 0 \in 0..MaxFaults
  BY MiqAssumption
<1> QED
  BY <1>1 DEF Init, TypeOK, Seeding

\* One more fault, where there may still be one.
LEMMA FaultType ==
  ASSUME TypeOK, faults < MaxFaults, faults' = faults + 1
  PROVE  faults' \in 0..MaxFaults
<1>1. faults \in 0..MaxFaults /\ MaxFaults \in Nat
  BY MiqAssumption DEF TypeOK
<1> QED
  BY <1>1

LEMMA TypeNext == TypeOK /\ [Next]_vars => TypeOK'
<1> SUFFICES ASSUME TypeOK, [Next]_vars PROVE TypeOK'
  OBVIOUS
<1> USE DEF TypeOK, Seeding, world, collector, files, tables, workers
<1>1. CASE Start
  BY <1>1 DEF Start
<1>2. CASE ListVms
  <2>1. \A r \in SyntheticRows : r.vm \in Synthetic
    BY DEF SyntheticRows
  <2>2. CASE live
    BY <1>2, <2>2 DEF ListVms
  <2>3. CASE ~live
    BY <1>2, <2>1, <2>3 DEF ListVms
  <2> QED
    BY <2>2, <2>3
<1>3. ASSUME NEW v \in LiveVms, Fetch(v) PROVE TypeOK'
  <2>1. \A r \in Usable(v) : r.vm = v
    BY UsableIsOwn
  <2> QED
    BY <1>3, <2>1 DEF Fetch, SkipFetch, FetchRaises, FetchRows
<1>4. CASE OpenVms
  BY <1>4 DEF OpenVms
<1>5. CASE WriteVms
  BY <1>5 DEF WriteVms
<1>6. CASE WriteUtil
  BY <1>6 DEF WriteUtil
<1>7. CASE Load
  BY <1>7 DEF Load
<1>8. CASE LoadRaises
  BY <1>8 DEF LoadRaises
<1>9. CASE SeedOnprem
  BY <1>9 DEF SeedOnprem
<1>10. CASE Restart
  BY <1>10 DEF Restart
<1>11. CASE ListVmsFails
  BY <1>11, FaultType DEF ListVmsFails
<1>12. CASE Crash
  BY <1>12, FaultType DEF Crash
<1>13. CASE FleetChanges
  BY <1>13, FaultType DEF FleetChanges
<1>14. ASSUME NEW w \in Workers, Rebuild(w) PROVE TypeOK'
  <2>1. Home[w] \in {"seed", "web"}
    BY MiqAssumption
  <2>2. CASE CheckFile(w)
    BY <2>2 DEF CheckFile, Goto
  <2>3. CASE OpenSnapshot(w)
    BY <2>1, <2>3 DEF OpenSnapshot, Goto
  <2>4. CASE DumpSnapshot(w)
    BY <2>1, <2>4 DEF DumpSnapshot, Goto
  <2>5. CASE ReadFile(w)
    BY <2>5 DEF ReadFile, Goto
  <2>6. CASE ReadTorn(w)
    BY <2>6 DEF ReadTorn, Goto
  <2>7. CASE LoadJoinOnly(w)
    BY <2>7 DEF LoadJoinOnly, Goto
  <2> QED
    BY <1>14, <2>2, <2>3, <2>4, <2>5, <2>6, <2>7 DEF Rebuild
<1>15. CASE UNCHANGED vars
  BY <1>15 DEF vars
<1> QED
  BY <1>1, <1>2, <1>3, <1>4, <1>5, <1>6, <1>7, <1>8, <1>9, <1>10, <1>11, <1>12, <1>13,
     <1>14, <1>15 DEF Next, SeedStep

-----------------------------------------------------------------------------

\* Types of the model.
THEOREM TypeCorrect == Spec => []TypeOK
BY TypeInit, TypeNext, PTL DEF Spec

\* The inductive invariant: the files that the workers and the loader read.
THEOREM CollectorInvariant == Spec => []CollectorInv
BY CollectorInit, CollectorNext, PTL DEF Spec

\* The join is never of a part of an inventory, with any number of workers that write
\* and read one file without a lock.
THEOREM JoinIsOfWholeInventory == Spec => []JoinOfWholeInventory
<1>1. CollectorInv => JoinOfWholeInventory
  BY DEF CollectorInv, Types, Whole, JoinOfWholeInventory
<1> QED
  BY <1>1, CollectorInvariant, PTL

\* A seed loads samples of the machines that it joins, however many attempts died
\* between the two files and whatever happened to the fleet since.
THEOREM SamplesMatchTheirJoin == Spec => SeededTogether
<1>1. CollectorInv /\ [Next]_vars
        => [pc = "load" /\ pc' = "onprem" => \A r \in util' : r.vm \in joinOf']_vars
  <2> SUFFICES ASSUME CollectorInv, [Next]_vars, pc = "load", pc' = "onprem"
               PROVE  \A r \in util' : r.vm \in joinOf'
    OBVIOUS
  <2>1. joinOf' = vmsFile["seed"] /\ util' = utilFile["seed"]
    BY DEF Next, SeedStep, Start, ListVms, Fetch, OpenVms, WriteVms, WriteUtil, Load, LoadRaises,
           SeedOnprem, Restart, ListVmsFails, Crash, FleetChanges, Rebuild, CheckFile,
           OpenSnapshot, DumpSnapshot, ReadFile, ReadTorn, LoadJoinOnly, vars
  <2> QED
    BY <2>1 DEF CollectorInv, SeedInv
<1> QED
  BY <1>1, CollectorInvariant, PTL DEF Spec, SeededTogether

-----------------------------------------------------------------------------

(***************************************************************************)
(* What a collection has of each machine it has asked.  A machine that has *)
(* ever left answers 404 from then on, and nothing is said of it.          *)
(***************************************************************************)
Collecting == pc \in {"fetch", "vms", "util", "load", "onprem", "seeded"}

\* The samples that there are of a machine, and those that it has answered with.
Have(v) == {r \in rows : r.vm = v}
Due(v)  == IF answer[v] = Failed THEN {} ELSE Usable(v)

\* Of the machines still to be asked there is nothing; of the others there is all.
Asked ==
  live /\ Collecting =>
    /\ vms \subseteq fleet \cup left
    /\ pc # "fetch" => todo = {}
    /\ \A r \in rows : r.vm \notin todo
    /\ \A v \in (vms \ todo) \ left : Have(v) = Due(v)

\* A step that changes nothing of it but the places after the last fetch.
LEMMA AskedStays ==
  ASSUME Asked, UNCHANGED <<live, answer, vms, todo, rows>>,
         left \subseteq left', fleet \ fleet' \subseteq left',
         Collecting' => Collecting, pc' = pc \/ (pc = "fetch" => todo = {})
  PROVE  Asked'
<1>1. \A v : Have(v)' = Have(v) /\ Due(v)' = Due(v)
  BY DEF Have, Due, Usable
<1>2. SUFFICES ASSUME live, Collecting
               PROVE  /\ vms \subseteq fleet' \cup left'
                      /\ pc' # "fetch" => todo = {}
                      /\ \A r \in rows : r.vm \notin todo
                      /\ \A v \in (vms \ todo) \ left' : Have(v) = Due(v)
  BY <1>1 DEF Asked
<1> QED
  BY <1>2 DEF Asked

LEMMA AskedFetch ==
  ASSUME CollectorInv, Asked, NEW v \in LiveVms, Fetch(v)
  PROVE  Asked'
<1>1. /\ pc = "fetch" /\ v \in todo /\ UNCHANGED <<live, fleet, answer, left, vms>>
      /\ SkipFetch(v) \/ FetchRaises(v) \/ FetchRows(v)
  BY DEF Fetch, world
<1>2. CASE FetchRaises(v)
  BY <1>2 DEF FetchRaises, Asked, Collecting
<1>3. CASE ~live
  BY <1>1, <1>3 DEF Asked
<1>4. ASSUME live, SkipFetch(v) \/ FetchRows(v) PROVE Asked'
  <2>1. /\ vms \subseteq fleet \cup left /\ todo \subseteq vms
        /\ \A r \in rows : r.vm \notin todo
        /\ \A u \in (vms \ todo) \ left : Have(u) = Due(u)
    BY <1>1, <1>4 DEF Asked, Collecting, CollectorInv, SeedInv
  <2>2. pc' = "fetch" /\ todo' = todo \ {v}
    BY <1>1, <1>4 DEF SkipFetch, FetchRows
  <2>3. \A u : Due(u)' = Due(u)
    BY <1>1 DEF Due, Usable
  <2>4. \A r \in Usable(v) : r.vm = v
    BY UsableIsOwn
  <2>5. Have(v) = {}
    BY <1>1, <2>1 DEF Have
  <2>6. rows' \in {rows, rows \cup Usable(v)}
    BY <1>4 DEF SkipFetch, FetchRows
  <2>7. \A u : u # v => Have(u)' = Have(u)
    BY <2>4, <2>6 DEF Have
  <2>8. v \notin left => Have(v)' = Due(v)
    <3>1. SUFFICES ASSUME v \notin left PROVE Have(v)' = Due(v)
      OBVIOUS
    <3>2. Answer(v) = answer[v]
      BY <1>1, <2>1, <3>1 DEF Answer
    <3>3. CASE SkipFetch(v)
      BY <2>5, <3>2, <3>3 DEF SkipFetch, Due, Have
    <3>4. CASE FetchRows(v)
      <4>1. rows' = rows \cup Usable(v) /\ Due(v) = Usable(v)
        BY <3>2, <3>4 DEF FetchRows, Due
      <4>2. {r \in rows \cup Usable(v) : r.vm = v} = Usable(v)
        BY <2>4, <2>5 DEF Have
      <4> QED
        BY <4>1, <4>2 DEF Have
    <3> QED
      BY <1>4, <3>3, <3>4
  <2>9. \A r \in rows' : r.vm \notin todo'
    BY <2>1, <2>2, <2>4, <2>6
  <2>10. \A u \in (vms \ todo') \ left : Have(u)' = Due(u)'
    BY <2>1, <2>2, <2>3, <2>7, <2>8
  <2> QED
    BY <1>1, <2>1, <2>2, <2>9, <2>10 DEF Asked
<1> QED
  BY <1>1, <1>2, <1>3, <1>4

LEMMA AskedNext == CollectorInv /\ Asked /\ [Next]_vars => Asked'
<1> SUFFICES ASSUME CollectorInv, Asked, [Next]_vars PROVE Asked'
  OBVIOUS
<1> USE DEF world, collector
<1>1. CASE Start
  BY <1>1 DEF Start, Asked, Collecting
<1>2. CASE ListVms
  <2>1. CASE live
    <3>1. vms' = fleet /\ todo' = fleet /\ rows' = {} /\ pc' = "fetch" /\ UNCHANGED <<fleet, left>>
      BY <1>2, <2>1 DEF ListVms
    <3> QED
      BY <3>1 DEF Asked
  <2>2. CASE ~live
    BY <1>2, <2>2 DEF ListVms, Asked
  <2> QED
    BY <2>1, <2>2
<1>3. ASSUME NEW v \in LiveVms, Fetch(v) PROVE Asked'
  BY <1>3, AskedFetch
<1>4. CASE OpenVms \/ WriteVms \/ WriteUtil \/ Load \/ SeedOnprem
  <2>1. /\ UNCHANGED <<live, fleet, answer, left, vms, todo, rows>>
        /\ Collecting /\ (pc = "fetch" => todo = {})
    BY <1>4 DEF OpenVms, WriteVms, WriteUtil, Load, SeedOnprem, Collecting
  <2> QED
    BY <2>1, AskedStays
<1>5. CASE LoadRaises \/ Restart \/ ListVmsFails \/ Crash
  BY <1>5 DEF LoadRaises, Restart, ListVmsFails, Crash, Asked, Collecting
<1>6. CASE FleetChanges
  <2>1. UNCHANGED <<live, answer, pc, vms, todo, rows>>
    BY <1>6 DEF FleetChanges
  <2>2. left \subseteq left' /\ fleet \ fleet' \subseteq left'
    BY <1>6 DEF FleetChanges
  <2> QED
    BY <2>1, <2>2, AskedStays DEF Collecting
<1>7. ASSUME NEW w \in Workers, Rebuild(w) PROVE Asked'
  <2>1. UNCHANGED <<live, fleet, answer, left, pc, vms, todo, rows>>
    BY <1>7 DEF Rebuild, CheckFile, OpenSnapshot, DumpSnapshot, ReadFile, ReadTorn, LoadJoinOnly
  <2> QED
    BY <2>1, AskedStays DEF Collecting
<1>8. CASE UNCHANGED vars
  <2>1. UNCHANGED <<live, fleet, answer, left, pc, vms, todo, rows>>
    BY <1>8 DEF vars
  <2> QED
    BY <2>1, AskedStays DEF Collecting
<1> QED
  BY <1>1, <1>2, <1>3, <1>4, <1>5, <1>6, <1>7, <1>8 DEF Next, SeedStep

\* Of any fleet that changes while it is collected: what a machine answered is collected
\* to the last usable rollup, and one that cannot be had costs no other its samples.
THEOREM OneBadMachineCostsNoOther == Spec => []CollectsTheRest
<1>1. Init => Asked
  BY DEF Init, Asked, Collecting
<1>2. CollectorInv /\ Asked /\ [Next]_vars => Asked'
  BY AskedNext
<1>3. Asked => CollectsTheRest
  BY DEF Asked, Collecting, Have, Due, CollectsTheRest
<1> QED
  BY <1>1, <1>2, <1>3, CollectorInvariant, PTL DEF Spec

-----------------------------------------------------------------------------

(***************************************************************************)
(* What it takes for the promises that the code does not keep.             *)
(***************************************************************************)

\* Every rebuild is in the container that seeded.
RebuildsAtHome == \A w \in Workers : Home[w] = "seed"

\* A live inventory stays live: the file of the seed is never one of the snapshot.
LiveInv ==
  live =>
    /\ vms \subseteq LiveVms
    /\ vmsFile["seed"] \in {Absent, Torn} \cup SUBSET LiveVms
    /\ pc \in {"onprem", "seeded"} => vmsFile["seed"] \in SUBSET LiveVms
    /\ joinOf \subseteq LiveVms
    /\ \A w \in Workers : /\ wpc[w] \notin {"open", "dump"}
                          /\ wpc[w] = "join" => read[w] \subseteq LiveVms

LEMMA LiveNext ==
  RebuildsAtHome /\ CollectorInv /\ LiveInv /\ [Next]_vars => LiveInv'
<1> SUFFICES ASSUME RebuildsAtHome, CollectorInv, LiveInv, [Next]_vars, live' PROVE LiveInv'
  BY DEF LiveInv
<1>t. Types /\ SeedInv /\ WorkerInv
  BY DEF CollectorInv
<1>l. live
  BY DEF Next, SeedStep, Start, ListVms, Fetch, OpenVms, WriteVms, WriteUtil, Load, LoadRaises,
         SeedOnprem, Restart, ListVmsFails, Crash, FleetChanges, Rebuild, CheckFile,
         OpenSnapshot, DumpSnapshot, ReadFile, ReadTorn, LoadJoinOnly, vars, world
<1>i. /\ vms \subseteq LiveVms
      /\ vmsFile["seed"] \in {Absent, Torn} \cup SUBSET LiveVms
      /\ pc \in {"onprem", "seeded"} => vmsFile["seed"] \in SUBSET LiveVms
      /\ joinOf \subseteq LiveVms
      /\ \A w \in Workers : /\ wpc[w] \notin {"open", "dump"}
                            /\ wpc[w] = "join" => read[w] \subseteq LiveVms
  BY <1>l DEF LiveInv
<1> USE DEF world, collector, files, tables, workers
<1>1. CASE Start
  BY <1>i, <1>1 DEF Start, LiveInv
<1>2. CASE ListVms
  <2>1. vms' = fleet /\ fleet \subseteq LiveVms
    BY <1>l, <1>t, <1>2 DEF ListVms, Types
  <2> QED
    BY <1>i, <1>2, <2>1 DEF ListVms, LiveInv
<1>3. ASSUME NEW v \in LiveVms, Fetch(v) PROVE LiveInv'
  BY <1>i, <1>3 DEF Fetch, SkipFetch, FetchRaises, FetchRows, LiveInv
<1>4. CASE OpenVms
  <2>1. vmsFile'["seed"] = Torn /\ pc' = "vms"
    BY <1>t, <1>4 DEF OpenVms, Types
  <2> QED
    BY <1>i, <1>4, <2>1 DEF OpenVms, LiveInv
<1>5. CASE WriteVms
  <2>1. vmsFile'["seed"] = vms /\ pc' = "util"
    BY <1>t, <1>5 DEF WriteVms, Types
  <2> QED
    BY <1>i, <1>5, <2>1 DEF WriteVms, LiveInv
<1>6. CASE WriteUtil
  BY <1>i, <1>6 DEF WriteUtil, LiveInv
<1>7. CASE Load
  <2>1. joinOf' = vms /\ vmsFile' = vmsFile /\ vmsFile["seed"] = vms
    BY <1>t, <1>7 DEF Load, SeedInv
  <2> QED
    BY <1>i, <1>7, <2>1 DEF Load, LiveInv
<1>8. CASE LoadRaises \/ SeedOnprem \/ Restart \/ ListVmsFails \/ Crash
  BY <1>i, <1>8 DEF LoadRaises, SeedOnprem, Restart, ListVmsFails, Crash, LiveInv
<1>9. CASE FleetChanges
  BY <1>i, <1>9 DEF FleetChanges, LiveInv
<1>10. ASSUME NEW w \in Workers, Rebuild(w) PROVE LiveInv'
  <2>1. Home[w] = "seed" /\ File(w) = vmsFile["seed"]
    BY DEF RebuildsAtHome, File
  <2>2. wpc[w] \notin {"open", "dump"}
    BY <1>i
  <2>3. CASE CheckFile(w)
    <3>1. File(w) # Absent
      BY <1>i, <2>1, <2>3, MiqAssumption DEF CheckFile
    <3>2. wpc' = [wpc EXCEPT ![w] = "read"]
      BY <2>3, <3>1 DEF CheckFile, Goto
    <3> QED
      BY <1>t, <1>i, <2>3, <3>2 DEF CheckFile, LiveInv, Types
  <2>4. CASE ReadFile(w)
    <3>1. pc = "seeded" /\ File(w) \in SUBSET LiveVms
      BY <1>t, <1>i, <2>1, <2>4 DEF ReadFile, Goto, SeedInv
    <3>2. wpc' = [wpc EXCEPT ![w] = "join"] /\ read' = [read EXCEPT ![w] = File(w)]
      BY <2>4 DEF ReadFile, Goto
    <3>3. \A u \in Workers : /\ wpc'[u] \notin {"open", "dump"}
                             /\ wpc'[u] = "join" => read'[u] \subseteq LiveVms
      BY <1>t, <1>i, <3>1, <3>2 DEF Types
    <3> QED
      BY <1>i, <2>4, <3>3 DEF ReadFile, LiveInv
  <2>5. CASE ReadTorn(w)
    BY <1>t, <1>i, <2>5 DEF ReadTorn, Goto, LiveInv, Types
  <2>6. CASE LoadJoinOnly(w)
    <3>1. wpc[w] = "join" /\ joinOf' = read[w]
          /\ wpc' = [wpc EXCEPT ![w] = "idle"] /\ read' = [read EXCEPT ![w] = {}]
      BY <2>6 DEF LoadJoinOnly, Goto
    <3>2. \A u \in Workers : /\ wpc'[u] \notin {"open", "dump"}
                             /\ wpc'[u] = "join" => read'[u] \subseteq LiveVms
      BY <1>t, <1>i, <3>1 DEF Types
    <3> QED
      BY <1>i, <2>6, <3>1, <3>2 DEF LoadJoinOnly, LiveInv
  <2> QED
    BY <1>10, <2>2, <2>3, <2>4, <2>5, <2>6 DEF Rebuild, OpenSnapshot, DumpSnapshot, Goto
<1>11. CASE UNCHANGED vars
  BY <1>i, <1>11 DEF vars, LiveInv
<1> QED
  BY <1>1, <1>2, <1>3, <1>4, <1>5, <1>6, <1>7, <1>8, <1>9, <1>10, <1>11 DEF Next, SeedStep

\* The join of a live mode is never of synthetic machines as long as all workers that
\* rebuild it share the container, and so the file, of the seed.
THEOREM LiveSeedJoinsLive == RebuildsAtHome /\ Spec => []LiveModeJoinsLive
<1>1. RebuildsAtHome /\ Init => RebuildsAtHome /\ LiveInv
  BY DEF Init, LiveInv
<1>2. RebuildsAtHome /\ CollectorInv /\ LiveInv /\ [Next]_vars => RebuildsAtHome' /\ LiveInv'
  BY LiveNext DEF RebuildsAtHome
<1>3. LiveInv => LiveModeJoinsLive
  BY MiqAssumption DEF LiveInv, LiveModeJoinsLive
<1> QED
  BY <1>1, <1>2, <1>3, CollectorInvariant, PTL DEF Spec

\* Without MIQ_URL there is one inventory, in whatever container it is synthesized.
SyntheticInv ==
  ~live =>
    /\ pc \in {"fetch", "vms", "util", "load"} => vms = Synthetic
    /\ \A c \in {"seed", "web"} : vmsFile[c] \in {Absent, Torn, Synthetic}
    /\ pc \in {"onprem", "seeded"} => joinOf = Synthetic
    /\ pc = "seeded" => onprem = OnpremVms
    /\ \A w \in Workers : wpc[w] = "join" => read[w] = Synthetic

LEMMA SyntheticNext == CollectorInv /\ SyntheticInv /\ [Next]_vars => SyntheticInv'
<1> SUFFICES ASSUME CollectorInv, SyntheticInv, [Next]_vars, ~live' PROVE SyntheticInv'
  BY DEF SyntheticInv
<1>t. Types /\ SeedInv /\ WorkerInv
  BY DEF CollectorInv
<1>l. ~live
  BY DEF Next, SeedStep, Start, ListVms, Fetch, OpenVms, WriteVms, WriteUtil, Load, LoadRaises,
         SeedOnprem, Restart, ListVmsFails, Crash, FleetChanges, Rebuild, CheckFile,
         OpenSnapshot, DumpSnapshot, ReadFile, ReadTorn, LoadJoinOnly, vars, world
<1>i. /\ pc \in {"fetch", "vms", "util", "load"} => vms = Synthetic
      /\ \A c \in {"seed", "web"} : vmsFile[c] \in {Absent, Torn, Synthetic}
      /\ pc \in {"onprem", "seeded"} => joinOf = Synthetic
      /\ pc = "seeded" => onprem = OnpremVms
      /\ \A w \in Workers : wpc[w] = "join" => read[w] = Synthetic
  BY <1>l DEF SyntheticInv
<1> USE DEF world, collector, files, tables, workers
<1>1. CASE Start \/ LoadRaises \/ SeedOnprem \/ Restart \/ ListVmsFails \/ Crash
  BY <1>i, <1>1 DEF Start, LoadRaises, SeedOnprem, Restart, ListVmsFails, Crash, SyntheticInv
<1>2. CASE ListVms
  BY <1>l, <1>i, <1>2 DEF ListVms, SyntheticInv
<1>3. ASSUME NEW v \in LiveVms, Fetch(v) PROVE SyntheticInv'
  BY <1>i, <1>3 DEF Fetch, SkipFetch, FetchRaises, FetchRows, SyntheticInv
<1>4. CASE OpenVms
  <2>1. \A c \in {"seed", "web"} : vmsFile'[c] \in {Absent, Torn, Synthetic}
    BY <1>t, <1>i, <1>4 DEF OpenVms, Types
  <2> QED
    BY <1>i, <1>4, <2>1 DEF OpenVms, SyntheticInv
<1>5. CASE WriteVms
  <2>1. \A c \in {"seed", "web"} : vmsFile'[c] \in {Absent, Torn, Synthetic}
    BY <1>t, <1>i, <1>5 DEF WriteVms, Types
  <2> QED
    BY <1>i, <1>5, <2>1 DEF WriteVms, SyntheticInv
<1>6. CASE WriteUtil
  BY <1>i, <1>6 DEF WriteUtil, SyntheticInv
<1>7. CASE Load
  <2>1. joinOf' = vms /\ pc' = "onprem" /\ pc = "load"
    BY <1>t, <1>7 DEF Load, SeedInv
  <2> QED
    BY <1>i, <1>7, <2>1 DEF Load, SyntheticInv
<1>8. CASE FleetChanges
  BY <1>l, <1>8 DEF FleetChanges
<1>9. ASSUME NEW w \in Workers, Rebuild(w) PROVE SyntheticInv'
  <2>1. Home[w] \in {"seed", "web"}
    BY MiqAssumption
  <2>2. File(w) \in {Absent, Torn, Synthetic}
    BY <1>i, <2>1 DEF File
  <2>3. CASE CheckFile(w)
    BY <1>t, <1>i, <2>3 DEF CheckFile, Goto, Types, SyntheticInv
  <2>4. CASE OpenSnapshot(w)
    <3>1. \A c \in {"seed", "web"} : vmsFile'[c] \in {Absent, Torn, Synthetic}
      BY <1>t, <1>i, <2>4 DEF OpenSnapshot, Types
    <3> QED
      BY <1>t, <1>i, <2>4, <3>1 DEF OpenSnapshot, Goto, Types, SyntheticInv
  <2>5. CASE DumpSnapshot(w)
    <3>1. \A c \in {"seed", "web"} : vmsFile'[c] \in {Absent, Torn, Synthetic}
      BY <1>t, <1>i, <2>5 DEF DumpSnapshot, Types
    <3> QED
      BY <1>t, <1>i, <2>5, <3>1 DEF DumpSnapshot, Goto, Types, SyntheticInv
  <2>6. CASE ReadFile(w)
    <3>1. File(w) = Synthetic
      BY <1>t, <2>2, <2>6, MiqAssumption DEF ReadFile, Goto, WorkerInv, Whole
    <3> QED
      BY <1>t, <1>i, <2>6, <3>1 DEF ReadFile, Goto, Types, SyntheticInv
  <2>7. CASE ReadTorn(w)
    BY <1>t, <1>i, <2>7 DEF ReadTorn, Goto, Types, SyntheticInv
  <2>8. CASE LoadJoinOnly(w)
    BY <1>t, <1>i, <2>8 DEF LoadJoinOnly, Goto, Types, SyntheticInv
  <2> QED
    BY <1>9, <2>3, <2>4, <2>5, <2>6, <2>7, <2>8 DEF Rebuild
<1>10. CASE UNCHANGED vars
  BY <1>i, <1>10 DEF vars, SyntheticInv
<1> QED
  BY <1>1, <1>2, <1>3, <1>4, <1>5, <1>6, <1>7, <1>8, <1>9, <1>10 DEF Next, SeedStep

\* The recharge names machines of the join as long as the inventory is synthesized,
\* whichever worker rebuilds it from whichever file.
THEOREM SyntheticOnpremAttaches == Spec => [](~live => OnpremAttaches)
<1>1. Init => SyntheticInv
  BY DEF Init, SyntheticInv
<1>2. SyntheticInv => (~live => OnpremAttaches)
  BY MiqAssumption DEF SyntheticInv, OnpremAttaches
<1> QED
  BY <1>1, <1>2, SyntheticNext, CollectorInvariant, PTL DEF Spec

AnswersWell == \A v \in LiveVms : WellFormed(answer[v])

\* A sample is of the snapshot, or a machine answered with it.
Sampled(r) ==
  \/ r \in SyntheticRows
  \/ \E v \in LiveVms : answer[v] # Failed /\ r \in Usable(v)

SoundInv ==
  AnswersWell =>
    /\ pc = "aborted" => faults > 0
    /\ pc \in {"fetch", "vms", "util", "load"} => \A r \in rows : Sampled(r)

\* No two samples of well-formed answers are of one machine and hour.
LEMMA NoKeyTwice ==
  ASSUME AnswersWell, \A r \in rows : Sampled(r)
  PROVE  ~KeyTwice(rows)
<1> SUFFICES ASSUME NEW x \in rows, NEW y \in rows, x.vm = y.vm, x.hour = y.hour
             PROVE  x = y
  BY DEF KeyTwice
<1>1. \A r \in SyntheticRows : r.vm \in Synthetic
  BY DEF SyntheticRows
<1>2. \A v : \A r \in Usable(v) : r.vm = v
  BY DEF Usable
<1>3. LiveVms \cap Synthetic = {}
  BY MiqAssumption
<1>4. CASE x \in SyntheticRows /\ y \in SyntheticRows
  BY <1>4 DEF SyntheticRows
<1>5. CASE x \notin SyntheticRows \/ y \notin SyntheticRows
  <2>1. x.vm \in LiveVms
    BY <1>2, <1>5 DEF Sampled
  <2>2. x \notin SyntheticRows /\ y \notin SyntheticRows
    BY <1>1, <1>3, <2>1
  <2> DEFINE v == x.vm
  <2>3. v \in LiveVms /\ answer[v] # Failed /\ x \in Usable(v) /\ y \in Usable(v)
    BY <1>2, <2>2 DEF Sampled
  <2>4. \A p, q \in answer[v] : p.kind = "usable" /\ q.kind = "usable" /\ p.hour = q.hour => p = q
    BY <2>3 DEF AnswersWell, WellFormed
  <2>5. PICK p \in answer[v] : p.kind = "usable" /\ x = [vm |-> v, hour |-> p.hour, nth |-> p.nth]
    BY <2>3 DEF Usable
  <2>6. PICK q \in answer[v] : q.kind = "usable" /\ y = [vm |-> v, hour |-> q.hour, nth |-> q.nth]
    BY <2>3 DEF Usable
  <2> QED
    BY <2>4, <2>5, <2>6
<1> QED
  BY <1>4, <1>5

LEMMA SoundNext ==
  TypeOK /\ CollectorInv /\ SoundInv /\ [Next]_vars => SoundInv'
<1> SUFFICES ASSUME TypeOK, CollectorInv, SoundInv, [Next]_vars, AnswersWell'
             PROVE  SoundInv'
  BY DEF SoundInv
<1>f. faults \in Nat
  BY MiqAssumption DEF TypeOK
<1>a. answer' = answer
  BY DEF Next, SeedStep, Start, ListVms, Fetch, OpenVms, WriteVms, WriteUtil, Load, LoadRaises,
         SeedOnprem, Restart, ListVmsFails, Crash, FleetChanges, Rebuild, CheckFile,
         OpenSnapshot, DumpSnapshot, ReadFile, ReadTorn, LoadJoinOnly, vars, world
<1>w. AnswersWell
  BY <1>a DEF AnswersWell
<1>s. \A r : Sampled(r)' <=> Sampled(r)
  BY <1>a DEF Sampled, Usable
<1>i. /\ pc = "aborted" => faults > 0
      /\ pc \in {"fetch", "vms", "util", "load"} => \A r \in rows : Sampled(r)
  BY <1>w DEF SoundInv
<1> SUFFICES /\ pc' = "aborted" => faults' > 0
             /\ pc' \in {"fetch", "vms", "util", "load"} => \A r \in rows' : Sampled(r)
  BY <1>s DEF SoundInv
<1> USE DEF world, collector
<1>1. CASE Start \/ OpenVms \/ WriteVms \/ WriteUtil \/ Load \/ SeedOnprem \/ Restart
  BY <1>i, <1>1 DEF Start, OpenVms, WriteVms, WriteUtil, Load, SeedOnprem, Restart
<1>2. CASE ListVms
  BY <1>2 DEF ListVms, Sampled
<1>3. ASSUME NEW v \in LiveVms, Fetch(v)
      PROVE  pc' = "fetch" /\ \A r \in rows' : Sampled(r)
  <2>1. pc = "fetch" /\ (SkipFetch(v) \/ FetchRaises(v) \/ FetchRows(v))
    BY <1>3 DEF Fetch
  <2>2. ~FetchRaises(v)
    <3> SUFFICES ASSUME FetchRaises(v) PROVE FALSE
      OBVIOUS
    <3>1. answer[v] # Failed /\ \E r \in answer[v] : r.kind = "text"
      BY DEF FetchRaises, Answer
    <3> QED
      BY <1>w, <3>1 DEF AnswersWell, WellFormed
  <2>3. CASE SkipFetch(v)
    BY <1>i, <2>1, <2>3 DEF SkipFetch
  <2>4. CASE FetchRows(v)
    <3>1. answer[v] # Failed /\ rows' = rows \cup Usable(v) /\ pc' = pc
      BY <2>4 DEF FetchRows, Answer
    <3>2. \A r \in Usable(v) : Sampled(r)
      BY <3>1 DEF Sampled
    <3> QED
      BY <1>i, <2>1, <3>1, <3>2
  <2> QED
    BY <2>1, <2>2, <2>3, <2>4
<1>4. ~LoadRaises
  <2> SUFFICES ASSUME LoadRaises PROVE FALSE
    OBVIOUS
  <2>1. pc = "load" /\ KeyTwice(utilFile["seed"]) /\ utilFile["seed"] = rows
    BY DEF LoadRaises, CollectorInv, SeedInv
  <2> QED
    BY <1>w, <1>i, <2>1, NoKeyTwice
<1>5. CASE ListVmsFails \/ Crash
  <2>1. pc' = "aborted" /\ faults' = faults + 1
    BY <1>5 DEF ListVmsFails, Crash
  <2> QED
    BY <1>f, <2>1
<1>6. CASE FleetChanges
  <2>1. UNCHANGED <<pc, rows>> /\ pc # "aborted"
    BY <1>6 DEF FleetChanges, Seeding
  <2> QED
    BY <1>i, <2>1
<1>7. ASSUME NEW w \in Workers, Rebuild(w) PROVE UNCHANGED <<pc, rows, faults>>
  BY <1>7 DEF Rebuild, CheckFile, OpenSnapshot, DumpSnapshot, ReadFile, ReadTorn, LoadJoinOnly
<1>8. CASE UNCHANGED vars
  BY <1>i, <1>8 DEF vars
<1> QED
  BY <1>i, <1>1, <1>2, <1>3, <1>4, <1>5, <1>6, <1>7, <1>8 DEF Next, SeedStep

\* A seed ends early by a fault only, as long as what the machines answer is well formed:
\* one whose metrics cannot be fetched, or that is retired meanwhile, never sinks it.
THEOREM WellFormedAnswersSeed == Spec => [](AnswersWell => OneBadVmNeverSinks)
<1>1. Init => SoundInv
  BY DEF Init, SoundInv
<1>2. SoundInv => (AnswersWell => OneBadVmNeverSinks)
  BY DEF SoundInv, OneBadVmNeverSinks
<1> QED
  BY <1>1, <1>2, SoundNext, TypeCorrect, CollectorInvariant, PTL DEF Spec

-----------------------------------------------------------------------------

(***************************************************************************)
(* The appliance that is collected from, as miq_vmdb_seed.py seeds it: of  *)
(* any lists of workloads, one after the other.                            *)
(***************************************************************************)

\* What holds of zero and of the next of each is true of every number.
LEMMA NatSets ==
  ASSUME NEW I, 0 \in I, \A n \in Nat : n \in I => n + 1 \in I
  PROVE  Nat \subseteq I
<1> SUFFICES ASSUME ~(Nat \subseteq I) PROVE FALSE
  OBVIOUS
<1> DEFINE R == OpToRel(<, Nat)
           T == {n \in Nat : n \notin I}
<1>1. IsWellFoundedOn(R, Nat)
  BY NatLessThanWellFounded
<1>2. T \subseteq Nat /\ T # {}
  OBVIOUS
<1> HIDE DEF R
<1>3. \E n \in T : \A m \in T : <<m, n>> \notin R
  BY <1>1, <1>2, WFMin
<1>4. PICK n \in T : \A m \in T : <<m, n>> \notin R
  BY <1>3
<1>5. n \in Nat /\ n # 0 /\ n \notin I
  BY <1>4
<1>6. n - 1 \in Nat /\ (n - 1) + 1 = n /\ n - 1 < n
  BY <1>5
<1>7. n - 1 \in T
  BY <1>5, <1>6
<1>8. <<n - 1, n>> \in R
  BY <1>5, <1>6 DEF R, OpToRel
<1> QED
  BY <1>4, <1>7, <1>8

\* How far a workload advances the counter.
Width(l, i) == IF CrossCloud(l[i]) THEN 2 ELSE 1

\* A list as WORKLOADS is one: its length is a number, its names are its own.
IsList(l) ==
  /\ Len(l) \in Nat /\ DOMAIN l = 1..Len(l)
  /\ \A i, j \in DOMAIN l : l[i].name = l[j].name => i = j

LEMMA ListsAreLists ==
  ASSUME NEW l \in Lists
  PROVE  IsList(l)
<1> DEFINE W == [name : STRING, on : Estate]
<1>1. l \in Seq(W)
  BY VmdbSeedAssumption
<1>2. \A i, j \in DOMAIN l : l[i].name = l[j].name => i = j
  BY VmdbSeedAssumption
<1> HIDE DEF W
<1>3. Len(l) \in Nat /\ DOMAIN l = 1..Len(l)
  BY <1>1
<1> QED
  BY <1>2, <1>3 DEF IsList

Step(l, g, i) == IF i = 1 THEN FirstVm ELSE g[i - 1] + (IF CrossCloud(l[i - 1]) THEN 2 ELSE 1)

Counter(l, g, n) == g = [i \in 1..n |-> Step(l, g, i)]

\* There is a counter of any length.
LEMMA CounterExists ==
  ASSUME NEW l, NEW n \in Nat
  PROVE  \E g : Counter(l, g, n)
<1> DEFINE I == {m \in Nat : \E g : Counter(l, g, m)}
<1>1. 0 \in I
  <2> DEFINE g == [i \in 1..0 |-> 0]
  <2>1. g = [i \in 1..0 |-> Step(l, g, i)]
    OBVIOUS
  <2>2. Counter(l, g, 0)
    BY <2>1 DEF Counter
  <2> QED
    BY <2>2
<1>2. ASSUME NEW m \in Nat, m \in I PROVE m + 1 \in I
  <2>1. PICK g : Counter(l, g, m)
    BY <1>2
  <2> DEFINE h == [i \in 1..(m + 1) |-> Step(l, g, i)]
  <2>2. g = [i \in 1..m |-> Step(l, g, i)]
    BY <2>1 DEF Counter
  <2>3. \A i \in 1..m : h[i] = g[i]
    BY <2>2
  <2>4. \A i \in 1..(m + 1) : Step(l, g, i) = Step(l, h, i)
    <3> SUFFICES ASSUME NEW i \in 1..(m + 1) PROVE Step(l, g, i) = Step(l, h, i)
      OBVIOUS
    <3>1. CASE i = 1
      BY <3>1 DEF Step
    <3>2. CASE i # 1
      <4>1. i - 1 \in 1..m
        BY <3>2
      <4>2. h[i - 1] = g[i - 1]
        BY <4>1, <2>3
      <4> QED
        BY <4>2 DEF Step
    <3> QED
      BY <3>1, <3>2
  <2>5. h = [i \in 1..(m + 1) |-> Step(l, h, i)]
    BY <2>4
  <2> HIDE DEF h
  <2>6. Counter(l, h, m + 1)
    BY <2>5 DEF Counter
  <2> QED
    BY <2>6
<1> HIDE DEF I
<1>3. Nat \subseteq I
  BY <1>1, <1>2, NatSets
<1> QED
  BY <1>3 DEF I

\* workload_vm_ids is the counter.
LEMMA FirstIdIs ==
  ASSUME NEW l, Len(l) \in Nat
  PROVE  /\ FirstId(l)[1] = FirstVm
         /\ \A i \in 1..Len(l) : FirstId(l)[i + 1] = FirstId(l)[i] + Width(l, i)
<1> DEFINE F == FirstId(l)
           n == Len(l) + 1
<1>1. F = CHOOSE g : Counter(l, g, n)
  BY DEF FirstId, Counter, Step
<1>2. \E g : Counter(l, g, n)
  BY CounterExists
<1> HIDE DEF F
<1>3. Counter(l, F, n)
  BY <1>1, <1>2
<1>4. F = [i \in 1..n |-> Step(l, F, i)]
  BY <1>3 DEF Counter
<1>5. \A i \in 1..n : F[i] = Step(l, F, i)
  BY <1>4
<1>6. F[1] = FirstVm
  BY <1>5 DEF Step
<1>7. ASSUME NEW i \in 1..Len(l) PROVE F[i + 1] = F[i] + Width(l, i)
  <2>1. i + 1 \in 1..n /\ i + 1 # 1 /\ (i + 1) - 1 = i
    OBVIOUS
  <2>2. F[i + 1] = Step(l, F, i + 1)
    BY <1>5, <2>1
  <2> QED
    BY <2>1, <2>2 DEF Step, Width
<1> QED
  BY <1>6, <1>7 DEF F

LEMMA WidthIs ==
  ASSUME NEW l, NEW i
  PROVE  Width(l, i) \in {1, 2}
BY DEF Width

LEMMA IdsAreNumbers ==
  ASSUME NEW l, Len(l) \in Nat, FirstVm \in Nat, NEW i \in 1..(Len(l) + 1)
  PROVE  FirstId(l)[i] \in Nat /\ FirstId(l)[i] >= FirstVm
<1> DEFINE F == FirstId(l)
           I == {n \in Nat : n + 1 <= Len(l) + 1 => F[n + 1] \in Nat /\ F[n + 1] >= FirstVm}
<1>1. 0 \in I
  <2>1. F[1] = FirstVm
    BY FirstIdIs
  <2> HIDE DEF F
  <2>2. F[0 + 1] \in Nat /\ F[0 + 1] >= FirstVm
    BY <2>1
  <2> QED
    BY <2>2
<1>2. ASSUME NEW n \in Nat, n \in I PROVE n + 1 \in I
  <2> SUFFICES ASSUME (n + 1) + 1 <= Len(l) + 1
               PROVE  F[(n + 1) + 1] \in Nat /\ F[(n + 1) + 1] >= FirstVm
    OBVIOUS
  <2>1. n + 1 \in 1..Len(l)
    OBVIOUS
  <2>2. F[(n + 1) + 1] = F[n + 1] + Width(l, n + 1)
    BY <2>1, FirstIdIs
  <2>3. F[n + 1] \in Nat /\ F[n + 1] >= FirstVm
    BY <1>2, <2>1
  <2>4. Width(l, n + 1) \in {1, 2}
    BY WidthIs
  <2> HIDE DEF F
  <2> QED
    BY <2>2, <2>3, <2>4
<1> HIDE DEF I
<1>3. Nat \subseteq I
  BY <1>1, <1>2, NatSets
<1>4. i - 1 \in Nat /\ (i - 1) + 1 = i
  OBVIOUS
<1>5. i - 1 \in I
  BY <1>3, <1>4
<1>6. F[(i - 1) + 1] \in Nat /\ F[(i - 1) + 1] >= FirstVm
  <2> HIDE DEF F
  <2> QED
    BY <1>4, <1>5 DEF I
<1> QED
  BY <1>4, <1>6

\* The counter only grows: the workloads have their ids one after the other.
LEMMA IdsGrow ==
  ASSUME NEW l, Len(l) \in Nat, FirstVm \in Nat,
         NEW i \in 1..Len(l), NEW j \in 1..(Len(l) + 1), i < j
  PROVE  FirstId(l)[i] + Width(l, i) <= FirstId(l)[j]
<1> DEFINE F == FirstId(l)
           I == {n \in Nat : i + 1 + n <= Len(l) + 1 => F[i] + Width(l, i) <= F[i + 1 + n]}
<1>t. /\ \A k \in 1..(Len(l) + 1) : F[k] \in Nat
      /\ \A k : Width(l, k) \in {1, 2}
  BY IdsAreNumbers, WidthIs
<1>s. \A k \in 1..Len(l) : F[k + 1] = F[k] + Width(l, k)
  BY FirstIdIs
<1> HIDE DEF F
<1>1. 0 \in I
  <2>1. i + 1 + 0 = i + 1 /\ i \in 1..(Len(l) + 1)
    OBVIOUS
  <2>2. F[i + 1] = F[i] + Width(l, i) /\ F[i] \in Nat /\ Width(l, i) \in {1, 2}
    BY <1>s, <1>t, <2>1
  <2>3. F[i] + Width(l, i) <= F[i + 1 + 0]
    BY <2>1, <2>2
  <2> QED
    BY <2>3
<1>2. ASSUME NEW n \in Nat, n \in I PROVE n + 1 \in I
  <2> SUFFICES ASSUME i + 1 + (n + 1) <= Len(l) + 1
               PROVE  F[i] + Width(l, i) <= F[i + 1 + (n + 1)]
    OBVIOUS
  <2> DEFINE k == i + 1 + n
  <2>1. k \in 1..Len(l) /\ k \in 1..(Len(l) + 1) /\ i \in 1..(Len(l) + 1) /\ i + 1 + (n + 1) = k + 1
    OBVIOUS
  <2>2. F[i] + Width(l, i) <= F[k]
    BY <1>2, <2>1
  <2> HIDE DEF k
  <2>3. F[k + 1] = F[k] + Width(l, k)
    BY <1>s, <2>1
  <2>4. F[i] \in Nat /\ F[k] \in Nat /\ Width(l, k) \in {1, 2} /\ Width(l, i) \in {1, 2}
    BY <1>t, <2>1
  <2>5. F[i] + Width(l, i) <= F[k + 1]
    BY <2>2, <2>3, <2>4
  <2> QED
    BY <2>1, <2>5
<1> HIDE DEF I
<1>3. Nat \subseteq I
  BY <1>1, <1>2, NatSets
<1>4. j - (i + 1) \in Nat /\ i + 1 + (j - (i + 1)) = j
  OBVIOUS
<1>5. j - (i + 1) \in I
  BY <1>3, <1>4
<1>6. F[i] + Width(l, i) <= F[j]
  BY <1>4, <1>5 DEF I
<1> QED
  BY <1>6 DEF F

LEMMA VmIdsAre ==
  ASSUME NEW l, NEW i
  PROVE  /\ DOMAIN VmIds(l, i) = 1..Width(l, i)
         /\ \A k \in 1..Width(l, i) :
              VmIds(l, i)[k] = IF k = 1 THEN FirstId(l)[i] ELSE FirstId(l)[i] + 1
<1> DEFINE first == FirstId(l)[i]
<1>1. VmIds(l, i) = IF CrossCloud(l[i]) THEN <<first, first + 1>> ELSE <<first>>
  BY DEF VmIds
<1> HIDE DEF first
<1>2. CASE CrossCloud(l[i])
  <2>1. Width(l, i) = 2
    BY <1>2 DEF Width
  <2>2. VmIds(l, i) = <<first, first + 1>>
    BY <1>1, <1>2
  <2>3. DOMAIN VmIds(l, i) = 1..2
    BY <2>2
  <2>4. \A k \in 1..2 : VmIds(l, i)[k] = IF k = 1 THEN first ELSE first + 1
    BY <2>2
  <2> QED
    BY <2>1, <2>3, <2>4 DEF first
<1>3. CASE ~CrossCloud(l[i])
  <2>1. Width(l, i) = 1
    BY <1>3 DEF Width
  <2>2. VmIds(l, i) = <<first>>
    BY <1>1, <1>3
  <2>3. DOMAIN VmIds(l, i) = 1..1
    BY <2>2
  <2>4. \A k \in 1..1 : VmIds(l, i)[k] = IF k = 1 THEN first ELSE first + 1
    BY <2>2
  <2> QED
    BY <2>1, <2>3, <2>4 DEF first
<1> QED
  BY <1>2, <1>3

LEMMA VmIdIs ==
  ASSUME NEW l, Len(l) \in Nat, FirstVm \in Nat,
         NEW i \in 1..Len(l), NEW k \in 1..Width(l, i)
  PROVE  /\ k \in {1, 2} /\ k <= Width(l, i)
         /\ VmIds(l, i)[k] = FirstId(l)[i] + k - 1
<1>1. FirstId(l)[i] \in Nat
  BY IdsAreNumbers
<1>2. VmIds(l, i)[k] = IF k = 1 THEN FirstId(l)[i] ELSE FirstId(l)[i] + 1
  BY VmIdsAre
<1>3. Width(l, i) \in {1, 2}
  BY WidthIs
<1>4. k \in {1, 2} /\ k <= Width(l, i)
  BY <1>3
<1> QED
  BY <1>1, <1>2, <1>4

\* No machine has the id of another.
LEMMA IdsAreDistinct ==
  ASSUME NEW l, Len(l) \in Nat, FirstVm \in Nat,
         NEW i \in 1..Len(l), NEW j \in 1..Len(l),
         NEW k \in 1..Width(l, i), NEW m \in 1..Width(l, j),
         VmIds(l, i)[k] = VmIds(l, j)[m]
  PROVE  i = j /\ k = m
<1> DEFINE F == FirstId(l)
<1>1. F[i] \in Nat /\ F[j] \in Nat
  BY IdsAreNumbers
<1>2. F[i] + k - 1 = F[j] + m - 1
  BY VmIdIs
<1>3. k \in {1, 2} /\ k <= Width(l, i) /\ m \in {1, 2} /\ m <= Width(l, j)
  BY VmIdIs
<1>4. Width(l, i) \in {1, 2} /\ Width(l, j) \in {1, 2}
  BY WidthIs
<1>5. i < j => F[i] + Width(l, i) <= F[j]
  BY IdsGrow
<1>6. j < i => F[j] + Width(l, j) <= F[i]
  BY IdsGrow
<1> HIDE DEF F
<1>7. F[i] + k = F[j] + m
  BY <1>1, <1>2, <1>3
<1>8. ~(i < j)
  <2> SUFFICES ASSUME i < j PROVE FALSE
    OBVIOUS
  <2>1. F[i] + Width(l, i) <= F[j]
    BY <1>5
  <2>2. F[i] + k <= F[j]
    BY <1>1, <1>3, <1>4, <2>1
  <2> QED
    BY <1>1, <1>3, <1>7, <2>2
<1>9. ~(j < i)
  <2> SUFFICES ASSUME j < i PROVE FALSE
    OBVIOUS
  <2>1. F[j] + Width(l, j) <= F[i]
    BY <1>6
  <2>2. F[j] + m <= F[i]
    BY <1>1, <1>3, <1>4, <2>1
  <2> QED
    BY <1>1, <1>3, <1>7, <2>2
<1>10. i = j
  BY <1>8, <1>9
<1> QED
  BY <1>1, <1>3, <1>7, <1>10

LEMMA FirstIsId ==
  ASSUME NEW l, NEW i
  PROVE  1 \in 1..Width(l, i)
BY DEF Width

\* The workload of a machine is the one that has its id.
LEMMA WorkloadIsIts ==
  ASSUME NEW l, IsList(l), FirstVm \in Nat, NEW i \in 1..Len(l), NEW k \in 1..Width(l, i)
  PROVE  WorkloadOf(l, VmIds(l, i)[k]) = {l[i]}
<1> DEFINE vm == VmIds(l, i)[k]
           J == {j \in DOMAIN l : \E m \in DOMAIN VmIds(l, j) : VmIds(l, j)[m] = vm}
<1>1. DOMAIN l = 1..Len(l) /\ Len(l) \in Nat
  BY DEF IsList
<1>2. \A j : DOMAIN VmIds(l, j) = 1..Width(l, j)
  BY VmIdsAre
<1>3. i \in J
  BY <1>1, <1>2
<1>4. ASSUME NEW j \in J PROVE j = i
  <2>1. j \in 1..Len(l)
    BY <1>1
  <2>2. \E m \in 1..Width(l, j) : VmIds(l, j)[m] = vm
    BY <1>2
  <2>3. PICK m \in 1..Width(l, j) : VmIds(l, j)[m] = vm
    BY <2>2
  <2> QED
    BY <1>1, <2>1, <2>3, IdsAreDistinct
<1>5. J = {i}
  BY <1>3, <1>4
<1>6. WorkloadOf(l, vm) = {l[j] : j \in J}
  BY DEF WorkloadOf
<1> HIDE DEF J, vm
<1>7. WorkloadOf(l, vm) = {l[i]}
  BY <1>5, <1>6
<1> QED
  BY <1>7 DEF vm

OnPrem(l) == {j \in DOMAIN l : IsOnPremOnly(l[j])}

Recharge(l, j) == [vm |-> VmIds(l, j)[1], unit |-> l[j].name]

Displayed(l, j) == [unit |-> l[j].name, charged |-> l[j].name]

LEMMA RechargesAre ==
  ASSUME NEW l
  PROVE  Recharges(l) = {Recharge(l, j) : j \in OnPrem(l)}
BY DEF Recharges, Recharge, OnPrem

\* Every row is displayed once, under the name that it was charged to.
LEMMA DisplayedAre ==
  ASSUME NEW l, IsList(l), FirstVm \in Nat
  PROVE  DisplayedRecharges(l, Recharges(l)) = {Displayed(l, j) : j \in OnPrem(l)}
<1>1. ASSUME NEW j \in OnPrem(l)
      PROVE  {[unit |-> w.name, charged |-> Recharge(l, j).unit] :
                w \in WorkloadOf(l, Recharge(l, j).vm)} = {Displayed(l, j)}
  <2>1. j \in 1..Len(l)
    BY DEF OnPrem, IsList
  <2>2. WorkloadOf(l, VmIds(l, j)[1]) = {l[j]}
    BY <2>1, FirstIsId, WorkloadIsIts
  <2>3. Recharge(l, j).vm = VmIds(l, j)[1] /\ Recharge(l, j).unit = l[j].name
    BY DEF Recharge
  <2> QED
    BY <2>2, <2>3 DEF Displayed
<1> DEFINE D(r) == {[unit |-> w.name, charged |-> r.unit] : w \in WorkloadOf(l, r.vm)}
<1>2. DisplayedRecharges(l, Recharges(l)) = UNION {D(r) : r \in Recharges(l)}
  BY DEF DisplayedRecharges
<1>3. \A j \in OnPrem(l) : D(Recharge(l, j)) = {Displayed(l, j)}
  BY <1>1
<1> HIDE DEF D
<1>4. UNION {D(r) : r \in {Recharge(l, j) : j \in OnPrem(l)}} = {Displayed(l, j) : j \in OnPrem(l)}
  BY <1>3
<1> QED
  BY <1>2, <1>4, RechargesAre

\* What is numbered by the positions of a list is as many as they are.
LEMMA AsMany ==
  ASSUME NEW J, NEW n \in Nat, J \subseteq 1..n, NEW c, DOMAIN c = J,
         \A i, j \in J : c[i] = c[j] => i = j
  PROVE  Cardinality({c[j] : j \in J}) = Cardinality(J)
<1> DEFINE T == {c[j] : j \in J}
           d == [j \in J |-> c[j]]
<1>1. IsFiniteSet(J)
  <2>1. n \in Int /\ 1 \in Int
    OBVIOUS
  <2>2. IsFiniteSet(1..n)
    BY <2>1, FS_Interval
  <2> QED
    BY <2>2, FS_Subset
<1>2. d \in Bijection(J, T)
  <2>1. d \in Injection(J, T)
    BY DEF Injection, IsInjective
  <2>2. d \in Surjection(J, T)
    BY DEF Surjection
  <2> QED
    BY <2>1, <2>2 DEF Bijection
<1>3. ExistsBijection(J, T)
  BY <1>2 DEF ExistsBijection
<1> QED
  BY <1>1, <1>3, FS_Bijection

LEMMA RechargesStay ==
  ASSUME list \in Lists
  PROVE  RechargeStaysPut
<1> DEFINE recharges == Recharges(list)
           shown == DisplayedRecharges(list, recharges)
           J == OnPrem(list)
<1>1. IsList(list) /\ FirstVm \in Nat
  BY ListsAreLists, VmdbSeedAssumption
<1>2. recharges = {Recharge(list, j) : j \in J} /\ shown = {Displayed(list, j) : j \in J}
  BY <1>1, RechargesAre, DisplayedAre
<1>3. J \subseteq 1..Len(list) /\ Len(list) \in Nat
  BY <1>1 DEF IsList, OnPrem
<1>4. \A i, j \in J : list[i].name = list[j].name => i = j
  BY <1>1 DEF IsList, OnPrem
<1>5. Cardinality(shown) = Cardinality(recharges)
  <2> DEFINE c == [j \in J |-> Recharge(list, j)]
             d == [j \in J |-> Displayed(list, j)]
  <2>1. \A i, j \in J : c[i] = c[j] => i = j
    BY <1>4 DEF Recharge
  <2>2. \A i, j \in J : d[i] = d[j] => i = j
    BY <1>4 DEF Displayed
  <2>3. recharges = {c[j] : j \in J} /\ shown = {d[j] : j \in J}
    BY <1>2
  <2>4. DOMAIN c = J /\ DOMAIN d = J
    OBVIOUS
  <2> HIDE DEF c, d, J, recharges, shown
  <2>5. Cardinality({c[j] : j \in J}) = Cardinality(J)
    BY <1>3, <2>1, <2>4, AsMany
  <2>6. Cardinality({d[j] : j \in J}) = Cardinality(J)
    BY <1>3, <2>2, <2>4, AsMany
  <2> QED
    BY <2>3, <2>5, <2>6
<1>6. \A d \in shown : d.unit = d.charged
  BY <1>2 DEF Displayed
<1>7. ASSUME NEW j \in J
      PROVE  \E v \in SynthesizedVms(list) :
               v.id = Recharge(list, j).vm /\ v.name = Recharge(list, j).unit /\ v.vendor = "redhat"
  <2> DEFINE v == VmRow(VmIds(list, j)[1], list[j], FirstRow(list[j]))
  <2>1. v \in SynthesizedVms(list)
    BY DEF SynthesizedVms, OnPrem
  <2>2. list[j].on = {}
    BY DEF OnPrem, IsOnPremOnly
  <2>3. FirstRow(list[j]).vendor = "redhat"
    BY <2>2 DEF FirstRow
  <2>4. v.id = Recharge(list, j).vm /\ v.name = Recharge(list, j).unit
    BY DEF VmRow, Recharge
  <2>5. v.vendor = "redhat"
    BY <2>3 DEF VmRow
  <2> HIDE DEF v
  <2> QED
    BY <2>1, <2>4, <2>5
<1>8. \A r \in recharges : \E v \in SynthesizedVms(list) :
         v.id = r.vm /\ v.name = r.unit /\ v.vendor = "redhat"
  BY <1>2, <1>7
<1> QED
  BY <1>5, <1>6, <1>8 DEF RechargeStaysPut

-----------------------------------------------------------------------------

\* The samples of a machine, at most one for each hour.
Samples == Cardinality(Hours)

LEMMA HoursAre == Samples \in Nat /\ Hours = 0..(Samples - 1)
<1>1. IsFiniteSet(Hours) /\ Hours = 0..(Samples - 1)
  BY VmdbSeedAssumption DEF Samples
<1>2. Samples = Cardinality(Hours)
  BY DEF Samples
<1> QED
  BY <1>1, <1>2, FS_CardinalityType

LEMMA Blocks ==
  ASSUME NEW a \in Nat, NEW b \in Nat, a < b, NEW n \in Nat
  PROVE  a * n + n <= b * n
<1> DEFINE c == b - (a + 1)
<1>1. c \in Nat /\ b = a + 1 + c
  OBVIOUS
<1> HIDE DEF c
<1>2. b * n = (a + 1 + c) * n
  BY <1>1
<1>3. (a + 1 + c) * n = a * n + n + c * n
  BY <1>1
<1>4. c * n \in Nat /\ a * n \in Nat
  BY <1>1
<1> QED
  BY <1>2, <1>3, <1>4

\* The number of a sample tells its machine and its hour.
LEMMA SampleIdsAreDistinct ==
  ASSUME NEW v \in Nat, NEW u \in Nat, v >= FirstVm, u >= FirstVm,
         NEW h \in Hours, NEW g \in Hours, SampleId(v, h) = SampleId(u, g)
  PROVE  v = u /\ h = g
<1>1. Samples \in Nat /\ h \in 0..(Samples - 1) /\ g \in 0..(Samples - 1)
  BY HoursAre
<1>2. FirstVm \in Nat /\ FirstMetric \in Nat
  BY VmdbSeedAssumption
<1> DEFINE a == v - FirstVm
           b == u - FirstVm
<1>3. a \in Nat /\ b \in Nat
  BY <1>2
<1>4. FirstMetric + a * Samples + h = FirstMetric + b * Samples + g
  BY DEF SampleId, Samples
<1> HIDE DEF a, b
<1>5. a * Samples \in Nat /\ b * Samples \in Nat
  BY <1>1, <1>3
<1> DEFINE an == a * Samples
           bn == b * Samples
<1>6. an + h = bn + g
  <2>1. FirstMetric + an + h = FirstMetric + bn + g
    BY <1>4
  <2>2. an \in Nat /\ bn \in Nat
    BY <1>5
  <2> HIDE DEF an, bn
  <2> QED
    BY <1>1, <1>2, <2>1, <2>2
<1>7. an \in Nat /\ bn \in Nat
  BY <1>5
<1>8. a < b => an + Samples <= bn
  BY <1>1, <1>3, Blocks
<1>9. b < a => bn + Samples <= an
  BY <1>1, <1>3, Blocks
<1> HIDE DEF an, bn
<1>10. ~(a < b)
  BY <1>1, <1>6, <1>7, <1>8
<1>11. ~(b < a)
  BY <1>1, <1>6, <1>7, <1>9
<1>12. a = b
  BY <1>3, <1>10, <1>11
<1>13. v = u
  BY <1>2, <1>12 DEF a, b
<1>14. an = bn
  BY <1>12 DEF an, bn
<1> QED
  BY <1>1, <1>6, <1>7, <1>13, <1>14

LEMMA SampleIdIs ==
  ASSUME NEW v \in Nat, v >= FirstVm, NEW h \in Nat
  PROVE  /\ SampleId(v, h) \in Nat /\ SampleId(v, h) >= FirstMetric
         /\ SampleId(v, h) = SampleId(v, 0) + h
         /\ SampleId(v + 1, h) = SampleId(v, 0) + Samples + h
<1>1. Samples \in Nat /\ FirstVm \in Nat /\ FirstMetric \in Nat
  BY HoursAre, VmdbSeedAssumption
<1> DEFINE a == v - FirstVm
<1>2. a \in Nat /\ (v + 1) - FirstVm = a + 1
  BY <1>1
<1>3. \A g : SampleId(v, g) = FirstMetric + a * Samples + g
  BY DEF SampleId, Samples
<1>4. SampleId(v + 1, h) = FirstMetric + (a + 1) * Samples + h
  BY <1>2 DEF SampleId, Samples
<1> HIDE DEF a
<1>5. a * Samples \in Nat /\ (a + 1) * Samples = a * Samples + Samples
  BY <1>1, <1>2
<1> DEFINE an == a * Samples
<1>6. an \in Nat
  BY <1>5
<1>7. \A g : SampleId(v, g) = FirstMetric + an + g
  BY <1>3
<1>8. SampleId(v + 1, h) = FirstMetric + (an + Samples) + h
  BY <1>4, <1>5
<1> HIDE DEF an
<1>9. SampleId(v, h) = FirstMetric + an + h /\ SampleId(v, 0) = FirstMetric + an + 0
  BY <1>7
<1> QED
  BY <1>1, <1>6, <1>8, <1>9

LEMMA FirstSampleId == SampleId(FirstVm, 0) = FirstMetric
<1>1. FirstVm \in Nat /\ FirstMetric \in Nat /\ Samples \in Nat
  BY HoursAre, VmdbSeedAssumption
<1>2. FirstVm - FirstVm = 0 /\ 0 * Samples = 0
  BY <1>1
<1>3. SampleId(FirstVm, 0) = FirstMetric + (FirstVm - FirstVm) * Samples + 0
  BY DEF SampleId, Samples
<1> QED
  BY <1>1, <1>2, <1>3

LEMMA InvScriptInit == ScriptInit => ScriptInv
<1> SUFFICES ASSUME ScriptInit PROVE ScriptInv
  OBVIOUS
<1>1. /\ list \in Lists /\ at = 0 /\ vmId = FirstVm /\ hwId = FirstVm /\ metricId = FirstMetric
      /\ script = Empty
      /\ vmdb = [Empty EXCEPT !.vms = {RealVm(v) : v \in RealVms}]
  BY DEF ScriptInit
<1>2. IsList(list) /\ FirstVm \in Nat /\ FirstMetric \in Nat /\ Samples \in Nat
  BY <1>1, ListsAreLists, HoursAre, VmdbSeedAssumption
<1>3. FirstId(list)[1] = FirstVm
  BY <1>2, FirstIdIs DEF IsList
<1>4. SampleId(FirstVm, 0) = FirstMetric
  BY FirstSampleId
<1>5. Numbered
  <2>1. at + 1 = 1 /\ at \in 0..Len(list)
    BY <1>1, <1>2 DEF IsList
  <2> QED
    BY <1>1, <1>3, <1>4, <2>1 DEF Numbered
<1>6. Scripted
  <2>1. 1..at = {}
    BY <1>1
  <2> QED
    BY <1>1, <2>1 DEF Scripted, Empty
<1>7. Cleared
  BY <1>1 DEF Cleared, Kept, Empty
<1> QED
  BY <1>5, <1>6, <1>7 DEF ScriptInv

\* The counters of build_sql, and those of workload_vm_ids, give a machine the same number.
LEMMA MachineIs ==
  ASSUME Numbered, at + 1 \in 1..Len(list), NEW n \in {0, 1}, NEW row
  PROVE  /\ vmId \in Nat /\ vmId >= FirstVm
         /\ Machine(n, list[at + 1], row) =
              [vms      |-> {VmRow(vmId + n, list[at + 1], row)},
               hardware |-> {[id |-> vmId + n, vm |-> vmId + n]},
               metrics  |-> {[id |-> SampleId(vmId + n, h), vm |-> vmId + n,
                              hour |-> h, load |-> list[at + 1].name] : h \in Hours}]
<1>1. IsList(list) /\ FirstVm \in Nat
  BY ListsAreLists, VmdbSeedAssumption DEF Numbered
<1>2. vmId \in Nat /\ vmId >= FirstVm
  <2>1. vmId = FirstId(list)[at + 1] /\ at + 1 \in 1..(Len(list) + 1)
    BY <1>1 DEF Numbered, IsList
  <2> QED
    BY <1>1, <2>1, IdsAreNumbers DEF IsList
<1>3. hwId = vmId /\ metricId = SampleId(vmId, 0)
  BY DEF Numbered
<1>4. ASSUME NEW h \in Hours PROVE metricId + n * Samples + h = SampleId(vmId + n, h)
  <2>1. Samples \in Nat /\ h \in Nat
    BY HoursAre
  <2>2. /\ SampleId(vmId, h) = SampleId(vmId, 0) + h
        /\ SampleId(vmId + 1, h) = SampleId(vmId, 0) + Samples + h
    BY <1>2, <2>1, SampleIdIs
  <2>3. SampleId(vmId, 0) \in Nat
    BY <1>2, SampleIdIs
  <2>4. CASE n = 0
    <3>1. vmId + n = vmId /\ n * Samples = 0
      BY <1>2, <2>1, <2>4
    <3> QED
      BY <1>3, <2>1, <2>2, <2>3, <3>1
  <2>5. CASE n = 1
    <3>1. vmId + n = vmId + 1 /\ n * Samples = Samples
      BY <1>2, <2>1, <2>5
    <3> QED
      BY <1>3, <2>1, <2>2, <2>3, <3>1
  <2> QED
    BY <2>4, <2>5
<1>5. {[id |-> metricId + n * Samples + h, vm |-> vmId + n, hour |-> h,
        load |-> list[at + 1].name] : h \in Hours}
        = {[id |-> SampleId(vmId + n, h), vm |-> vmId + n, hour |-> h,
             load |-> list[at + 1].name] : h \in Hours}
  BY <1>4
<1>6. Machine(n, list[at + 1], row) =
              [vms      |-> {VmRow(vmId + n, list[at + 1], row)},
               hardware |-> {[id |-> hwId + n, vm |-> vmId + n]},
               metrics  |-> {[id |-> metricId + n * Samples + h, vm |-> vmId + n,
                              hour |-> h, load |-> list[at + 1].name] : h \in Hours}]
  BY DEF Machine, Samples
<1> QED
  BY <1>2, <1>3, <1>5, <1>6

\* The rows of the two tables are one entry for each id of the workload.
LEMMA RowsOfOne ==
  ASSUME NEW l, NEW i
  PROVE  /\ ~CrossCloud(l[i]) =>
              LET v == FirstId(l)[i] IN
              /\ MachinesOf(l, i) = {VmRow(v, l[i], FirstRow(l[i]))}
              /\ HardwareOf(l, i) = {[id |-> v, vm |-> v]}
              /\ SamplesOf(l, i) = {[id |-> SampleId(v, h), vm |-> v, hour |-> h,
                                          load |-> l[i].name] : h \in Hours}
         /\ CrossCloud(l[i]) =>
              LET v == FirstId(l)[i] IN
              /\ MachinesOf(l, i) = {VmRow(v, l[i], FirstRow(l[i])),
                                          VmRow(v + 1, l[i], AzureRow(l[i]))}
              /\ HardwareOf(l, i) = {[id |-> v, vm |-> v], [id |-> v + 1, vm |-> v + 1]}
              /\ SamplesOf(l, i) =
                   {[id |-> SampleId(v, h), vm |-> v, hour |-> h, load |-> l[i].name] : h \in Hours}
                   \cup {[id |-> SampleId(v + 1, h), vm |-> v + 1, hour |-> h,
                          load |-> l[i].name] : h \in Hours}
<1> DEFINE v == FirstId(l)[i]
           ids == VmIds(l, i)
           S(u) == {[id |-> SampleId(u, h), vm |-> u, hour |-> h, load |-> l[i].name] : h \in Hours}
<1>0. SamplesOf(l, i) = UNION {S(ids[k]) : k \in DOMAIN ids}
  BY DEF SamplesOf
<1>1. CASE ~CrossCloud(l[i])
  <2>1. Width(l, i) = 1
    BY <1>1 DEF Width
  <2>2. DOMAIN ids = 1..1 /\ ids[1] = v
    <3> HIDE DEF S
    <3>1. 1 \in 1..1
      OBVIOUS
    <3> QED
      BY <2>1, <3>1, VmIdsAre
  <2>3. DOMAIN ids = {1}
    BY <2>2
  <2>4. MachinesOf(l, i) = {VmRow(v, l[i], FirstRow(l[i]))}
    BY <1>1, <2>2 DEF MachinesOf
  <2>5. HardwareOf(l, i) = {[id |-> v, vm |-> v]}
    BY <2>2, <2>3 DEF HardwareOf
  <2> HIDE DEF S, ids, v
  <2>6. SamplesOf(l, i) = S(v)
    BY <1>0, <2>2, <2>3
  <2> QED
    BY <1>1, <2>4, <2>5, <2>6 DEF S, v
<1>2. CASE CrossCloud(l[i])
  <2>1. Width(l, i) = 2
    BY <1>2 DEF Width
  <2>2. DOMAIN ids = 1..2 /\ ids[1] = v /\ ids[2] = v + 1
    <3> HIDE DEF S
    <3>1. DOMAIN ids = 1..2
      BY <2>1, VmIdsAre
    <3>2. 1 \in 1..2 /\ 2 \in 1..2 /\ 2 # 1
      OBVIOUS
    <3>3. ids[1] = v
      BY <2>1, <3>2, VmIdsAre
    <3>4. ids[2] = v + 1
      BY <2>1, <3>2, VmIdsAre
    <3> QED
      BY <3>1, <3>3, <3>4
  <2>3. DOMAIN ids = {1, 2}
    BY <2>2
  <2>4. MachinesOf(l, i) = {VmRow(v, l[i], FirstRow(l[i])),
                                 VmRow(v + 1, l[i], AzureRow(l[i]))}
    BY <1>2, <2>2 DEF MachinesOf
  <2>5. HardwareOf(l, i) = {[id |-> v, vm |-> v], [id |-> v + 1, vm |-> v + 1]}
    BY <2>2, <2>3 DEF HardwareOf
  <2> HIDE DEF S, ids, v
  <2>6. SamplesOf(l, i) = S(v) \cup S(v + 1)
    BY <1>0, <2>2, <2>3
  <2> QED
    BY <1>2, <2>4, <2>5, <2>6 DEF S, v
<1> QED
  BY <1>1, <1>2

LEMMA PlusIs ==
  ASSUME NEW a, NEW b, DOMAIN a = DOMAIN Empty
  PROVE  /\ DOMAIN Plus(a, b) = DOMAIN Empty
         /\ Plus(a, b).vms = a.vms \cup b.vms
         /\ Plus(a, b).hardware = a.hardware \cup b.hardware
         /\ Plus(a, b).metrics = a.metrics \cup b.metrics
<1>1. DOMAIN a = {"vms", "hardware", "metrics"}
  BY DEF Empty
<1>2. Plus(a, b) = [t \in DOMAIN a |-> a[t] \cup b[t]]
  BY DEF Plus
<1> QED
  BY <1>1, <1>2

LEMMA InvEmit ==
  ASSUME ScriptInv, Emit
  PROVE  ScriptInv'
<1> DEFINE w == list[at + 1]
           n == Width(list, at + 1)
           one == Machine(0, w, FirstRow(w))
           two == IF CrossCloud(w) THEN Machine(1, w, AzureRow(w)) ELSE Empty
           S(u) == {[id |-> SampleId(u, h), vm |-> u, hour |-> h, load |-> w.name] : h \in Hours}
<1>1. Numbered /\ Scripted /\ Cleared
  BY DEF ScriptInv
<1>2. /\ at < Len(list) /\ at' = at + 1
      /\ script' = Plus(Plus(script, one), two)
      /\ vmId' = vmId + n /\ hwId' = hwId + n /\ metricId' = metricId + n * Samples
      /\ UNCHANGED <<list, vmdb, applied>>
  BY DEF Emit, Width, Samples
<1>3. IsList(list) /\ FirstVm \in Nat /\ Samples \in Nat
  BY <1>1, ListsAreLists, HoursAre, VmdbSeedAssumption DEF Numbered
<1>4. at \in Nat /\ at + 1 \in 1..Len(list) /\ Len(list) \in Nat
  BY <1>1, <1>2, <1>3 DEF Numbered, IsList
<1>5. vmId = FirstId(list)[at + 1] /\ hwId = vmId /\ metricId = SampleId(vmId, 0)
  BY <1>1 DEF Numbered
<1>6. vmId \in Nat /\ vmId >= FirstVm /\ vmId + 0 = vmId
  <2>1. at + 1 \in 1..(Len(list) + 1)
    BY <1>4
  <2>2. vmId \in Nat /\ vmId >= FirstVm
    BY <1>3, <1>4, <1>5, <2>1, IdsAreNumbers
  <2> QED
    BY <2>2
<1>7. Numbered'
  <2>1. n \in {1, 2}
    BY WidthIs
  <2>2. FirstId(list)[(at + 1) + 1] = vmId + n
    BY <1>4, <1>5, FirstIdIs
  <2>3. metricId' = SampleId(vmId', 0)
    <3>1. SampleId(vmId + 1, 0) = metricId + Samples
      BY <1>3, <1>5, <1>6, SampleIdIs
    <3>2. SampleId((vmId + 1) + 1, 0) = SampleId(vmId + 1, 0) + Samples
      <4>1. vmId + 1 \in Nat /\ vmId + 1 >= FirstVm
        BY <1>3, <1>6
      <4>2. SampleId(vmId + 1, 0) \in Nat
        BY <4>1, SampleIdIs
      <4> QED
        BY <1>3, <4>1, <4>2, SampleIdIs
    <3>3. metricId \in Nat
      BY <1>5, <1>6, SampleIdIs
    <3>4. CASE n = 1
      <4>1. n * Samples = Samples
        BY <1>3, <3>4
      <4> QED
        BY <1>2, <3>1, <3>4, <4>1
    <3>5. CASE n = 2
      <4>1. n * Samples = Samples + Samples /\ vmId + n = (vmId + 1) + 1
        BY <1>3, <1>6, <3>5
      <4>2. metricId + (Samples + Samples) = (metricId + Samples) + Samples
        BY <1>3, <3>3
      <4> QED
        BY <1>2, <3>1, <3>2, <4>1, <4>2
    <3> QED
      BY <2>1, <3>4, <3>5
  <2>4. at' \in 0..Len(list')
    BY <1>2, <1>4
  <2>5. list' \in Lists
    BY <1>1, <1>2 DEF Numbered
  <2> HIDE DEF n
  <2>6. vmId' = FirstId(list')[at' + 1] /\ hwId' = vmId'
    BY <1>2, <1>5, <2>2
  <2> QED
    BY <2>3, <2>4, <2>5, <2>6 DEF Numbered
<1>8. Scripted'
  <2>1. 1..at' = 1..at \cup {at + 1}
    BY <1>2, <1>4
  <2>2. /\ DOMAIN script = DOMAIN Empty
        /\ script.vms = UNION {MachinesOf(list, i) : i \in 1..at}
        /\ script.hardware = UNION {HardwareOf(list, i) : i \in 1..at}
        /\ script.metrics = UNION {SamplesOf(list, i) : i \in 1..at}
    BY <1>1 DEF Scripted
  <2>3. one = [vms      |-> {VmRow(vmId, w, FirstRow(w))},
               hardware |-> {[id |-> vmId, vm |-> vmId]},
               metrics  |-> S(vmId)]
    BY <1>1, <1>4, <1>6, MachineIs
  <2>4. two = IF CrossCloud(w)
              THEN [vms      |-> {VmRow(vmId + 1, w, AzureRow(w))},
                    hardware |-> {[id |-> vmId + 1, vm |-> vmId + 1]},
                    metrics  |-> S(vmId + 1)]
              ELSE [vms |-> {}, hardware |-> {}, metrics |-> {}]
    BY <1>1, <1>4, MachineIs DEF Empty
  <2>5. /\ MachinesOf(list, at + 1) = one.vms \cup two.vms
        /\ HardwareOf(list, at + 1) = one.hardware \cup two.hardware
        /\ SamplesOf(list, at + 1) = one.metrics \cup two.metrics
    <3> HIDE DEF one, two
    <3>1. CASE ~CrossCloud(w)
      BY <1>5, <2>3, <2>4, <3>1, RowsOfOne
    <3>2. CASE CrossCloud(w)
      BY <1>5, <2>3, <2>4, <3>2, RowsOfOne
    <3> QED
      BY <3>1, <3>2
  <2> HIDE DEF one, two, S
  <2>6. LET p == Plus(script, one) IN
        /\ DOMAIN p = DOMAIN Empty
        /\ p.vms = script.vms \cup one.vms
        /\ p.hardware = script.hardware \cup one.hardware
        /\ p.metrics = script.metrics \cup one.metrics
    BY <2>2, PlusIs
  <2>7. /\ DOMAIN script' = DOMAIN Empty
        /\ script'.vms = script.vms \cup MachinesOf(list, at + 1)
        /\ script'.hardware = script.hardware \cup HardwareOf(list, at + 1)
        /\ script'.metrics = script.metrics \cup SamplesOf(list, at + 1)
    <3> DEFINE p == Plus(script, one)
    <3>1. script' = Plus(p, two)
      BY <1>2
    <3>2. DOMAIN p = DOMAIN Empty
      BY <2>6
    <3>3. /\ p.vms = script.vms \cup one.vms
          /\ p.hardware = script.hardware \cup one.hardware
          /\ p.metrics = script.metrics \cup one.metrics
      BY <2>6
    <3> HIDE DEF p
    <3>4. /\ DOMAIN script' = DOMAIN Empty
          /\ script'.vms = p.vms \cup two.vms
          /\ script'.hardware = p.hardware \cup two.hardware
          /\ script'.metrics = p.metrics \cup two.metrics
      BY <3>1, <3>2, PlusIs
    <3> QED
      BY <2>5, <3>3, <3>4
  <2>8. /\ script'.vms = UNION {MachinesOf(list, i) : i \in 1..at'}
        /\ script'.hardware = UNION {HardwareOf(list, i) : i \in 1..at'}
        /\ script'.metrics = UNION {SamplesOf(list, i) : i \in 1..at'}
    BY <2>1, <2>2, <2>7
  <2> QED
    BY <1>2, <2>7, <2>8 DEF Scripted, Empty
<1>9. Cleared'
  BY <1>1, <1>2 DEF Cleared, Kept
<1> QED
  BY <1>7, <1>8, <1>9 DEF ScriptInv

\* The ids that a list gives are in the range that the next script clears.
LEMMA IdsAreDemo ==
  ASSUME NEW l, IsList(l), NEW i \in 1..Len(l), NEW k \in 1..Width(l, i)
  PROVE  /\ VmIds(l, i)[k] \in Nat /\ VmIds(l, i)[k] >= FirstVm
         /\ ~(VmIds(l, i)[k] < DemoRange)
<1>1. FirstVm \in Nat /\ DemoRange \in Nat /\ DemoRange <= FirstVm
  BY VmdbSeedAssumption
<1>2. i \in 1..(Len(l) + 1) /\ Len(l) \in Nat
  BY DEF IsList
<1> DEFINE f == FirstId(l)[i]
           v == VmIds(l, i)[k]
<1>3. f \in Nat /\ f >= FirstVm
  BY <1>1, <1>2, IdsAreNumbers
<1>4. k \in {1, 2} /\ v = f + k - 1
  BY <1>1, <1>2, VmIdIs
<1> HIDE DEF f, v
<1>5. v \in Nat /\ v >= FirstVm /\ ~(v < DemoRange)
  BY <1>1, <1>3, <1>4
<1> QED
  BY <1>5 DEF v

RowOf(l, i, k) ==
  IF k = 1 THEN VmRow(VmIds(l, i)[1], l[i], FirstRow(l[i]))
           ELSE VmRow(VmIds(l, i)[2], l[i], AzureRow(l[i]))

SampleOf(l, i, k, h) ==
  [id |-> SampleId(VmIds(l, i)[k], h), vm |-> VmIds(l, i)[k], hour |-> h,
   load |-> l[i].name]

LEMMA MachineRows ==
  ASSUME NEW l, NEW i, NEW x \in MachinesOf(l, i)
  PROVE  \E k \in 1..Width(l, i) : x = RowOf(l, i, k) /\ x.id = VmIds(l, i)[k]
<1>1. CASE x = VmRow(VmIds(l, i)[1], l[i], FirstRow(l[i]))
  <2>1. x = RowOf(l, i, 1) /\ x.id = VmIds(l, i)[1]
    BY <1>1 DEF RowOf, VmRow
  <2> QED
    BY <2>1, FirstIsId
<1>2. CASE /\ CrossCloud(l[i])
           /\ x = VmRow(VmIds(l, i)[2], l[i], AzureRow(l[i]))
  <2>1. x = RowOf(l, i, 2) /\ x.id = VmIds(l, i)[2]
    BY <1>2 DEF RowOf, VmRow
  <2>2. 2 \in 1..Width(l, i)
    BY <1>2 DEF Width
  <2> QED
    BY <2>1, <2>2
<1> QED
  BY <1>1, <1>2 DEF MachinesOf

LEMMA HardwareRows ==
  ASSUME NEW l, NEW i, NEW x \in HardwareOf(l, i)
  PROVE  \E k \in 1..Width(l, i) : x = [id |-> VmIds(l, i)[k], vm |-> VmIds(l, i)[k]]
<1>1. \E k \in DOMAIN VmIds(l, i) : x = [id |-> VmIds(l, i)[k], vm |-> VmIds(l, i)[k]]
  BY DEF HardwareOf
<1>2. DOMAIN VmIds(l, i) = 1..Width(l, i)
  BY VmIdsAre
<1> QED
  BY <1>1, <1>2

LEMMA SampleRows ==
  ASSUME NEW l, NEW i, NEW x \in SamplesOf(l, i)
  PROVE  \E k \in 1..Width(l, i) : \E h \in Hours : x = SampleOf(l, i, k, h)
<1>1. \E k \in DOMAIN VmIds(l, i) : \E h \in Hours : x = SampleOf(l, i, k, h)
  BY DEF SamplesOf, SampleOf
<1>2. DOMAIN VmIds(l, i) = 1..Width(l, i)
  BY VmIdsAre
<1> QED
  BY <1>1, <1>2

\* What the script inserts has keys of its own, none of them below its range.
LEMMA ScriptKeys ==
  ASSUME Numbered, Scripted
  PROVE  /\ UniqueIds(script.vms) /\ UniqueIds(script.hardware)
         /\ UniqueIds(script.metrics)
         /\ \A x \in script.vms \cup script.hardware :
               x.id \in Nat /\ x.id >= FirstVm /\ ~(x.id < DemoRange)
         /\ \A x \in script.metrics : x.id \in Nat /\ ~(x.id < FirstMetric)
<1>1. IsList(list) /\ FirstVm \in Nat /\ FirstMetric \in Nat
  BY ListsAreLists, VmdbSeedAssumption DEF Numbered
<1>2. Len(list) \in Nat
  BY <1>1 DEF IsList
<1>3. 1..at \subseteq 1..Len(list)
  BY <1>2 DEF Numbered
<1>4. /\ script.vms = UNION {MachinesOf(list, i) : i \in 1..at}
      /\ script.hardware = UNION {HardwareOf(list, i) : i \in 1..at}
      /\ script.metrics = UNION {SamplesOf(list, i) : i \in 1..at}
  BY DEF Scripted
<1>5. ASSUME NEW x \in script.vms
      PROVE  \E i \in 1..Len(list) : \E k \in 1..Width(list, i) :
               x = RowOf(list, i, k) /\ x.id = VmIds(list, i)[k]
  <2>1. PICK i \in 1..at : x \in MachinesOf(list, i)
    BY <1>4
  <2> QED
    BY <1>3, <2>1, MachineRows
<1>6. ASSUME NEW x \in script.hardware
      PROVE  \E i \in 1..Len(list) : \E k \in 1..Width(list, i) :
               x = [id |-> VmIds(list, i)[k], vm |-> VmIds(list, i)[k]]
  <2>1. PICK i \in 1..at : x \in HardwareOf(list, i)
    BY <1>4
  <2> QED
    BY <1>3, <2>1, HardwareRows
<1>7. ASSUME NEW x \in script.metrics
      PROVE  \E i \in 1..Len(list) : \E k \in 1..Width(list, i) :
               \E h \in Hours : x = SampleOf(list, i, k, h)
  <2>1. PICK i \in 1..at : x \in SamplesOf(list, i)
    BY <1>4
  <2> QED
    BY <1>3, <2>1, SampleRows
<1>8. UniqueIds(script.vms)
  <2> SUFFICES ASSUME NEW x \in script.vms, NEW y \in script.vms, x.id = y.id PROVE x = y
    BY DEF UniqueIds
  <2>1. PICK i \in 1..Len(list) : \E k \in 1..Width(list, i) :
          x = RowOf(list, i, k) /\ x.id = VmIds(list, i)[k]
    BY <1>5
  <2>2. PICK k \in 1..Width(list, i) : x = RowOf(list, i, k) /\ x.id = VmIds(list, i)[k]
    BY <2>1
  <2>3. PICK j \in 1..Len(list) : \E m \in 1..Width(list, j) :
          y = RowOf(list, j, m) /\ y.id = VmIds(list, j)[m]
    BY <1>5
  <2>4. PICK m \in 1..Width(list, j) : y = RowOf(list, j, m) /\ y.id = VmIds(list, j)[m]
    BY <2>3
  <2>5. VmIds(list, i)[k] = VmIds(list, j)[m]
    BY <2>2, <2>4
  <2>6. i = j /\ k = m
    BY <1>1, <1>2, <2>5, IdsAreDistinct
  <2> QED
    BY <2>2, <2>4, <2>6
<1>9. UniqueIds(script.hardware)
  <2> SUFFICES ASSUME NEW x \in script.hardware, NEW y \in script.hardware, x.id = y.id
               PROVE  x = y
    BY DEF UniqueIds
  <2>1. \E v : x = [id |-> v, vm |-> v]
    BY <1>6
  <2>2. \E v : y = [id |-> v, vm |-> v]
    BY <1>6
  <2> QED
    BY <2>1, <2>2
<1>10. ASSUME NEW i \in 1..Len(list), NEW k \in 1..Width(list, i)
       PROVE  /\ VmIds(list, i)[k] \in Nat /\ VmIds(list, i)[k] >= FirstVm
              /\ ~(VmIds(list, i)[k] < DemoRange)
  BY <1>1, IdsAreDemo
<1>11. UniqueIds(script.metrics)
  <2> SUFFICES ASSUME NEW x \in script.metrics, NEW y \in script.metrics, x.id = y.id
               PROVE  x = y
    BY DEF UniqueIds
  <2>1. PICK i \in 1..Len(list) : \E k \in 1..Width(list, i) :
          \E h \in Hours : x = SampleOf(list, i, k, h)
    BY <1>7
  <2>2. PICK k \in 1..Width(list, i) : \E h \in Hours : x = SampleOf(list, i, k, h)
    BY <2>1
  <2>3. PICK h \in Hours : x = SampleOf(list, i, k, h)
    BY <2>2
  <2>4. PICK j \in 1..Len(list) : \E m \in 1..Width(list, j) :
          \E g \in Hours : y = SampleOf(list, j, m, g)
    BY <1>7
  <2>5. PICK m \in 1..Width(list, j) : \E g \in Hours : y = SampleOf(list, j, m, g)
    BY <2>4
  <2>6. PICK g \in Hours : y = SampleOf(list, j, m, g)
    BY <2>5
  <2> DEFINE v == VmIds(list, i)[k]
             u == VmIds(list, j)[m]
  <2>7. SampleId(v, h) = SampleId(u, g)
    BY <2>3, <2>6 DEF SampleOf
  <2>8. v \in Nat /\ v >= FirstVm /\ u \in Nat /\ u >= FirstVm
    BY <1>10
  <2> HIDE DEF v, u
  <2>9. v = u /\ h = g
    BY <2>7, <2>8, SampleIdsAreDistinct
  <2>10. i = j /\ k = m
    BY <1>1, <1>2, <2>9, IdsAreDistinct DEF v, u
  <2> QED
    BY <2>3, <2>6, <2>9, <2>10
<1>12. \A x \in script.vms \cup script.hardware :
         x.id \in Nat /\ x.id >= FirstVm /\ ~(x.id < DemoRange)
  <2>1. ASSUME NEW x \in script.vms \cup script.hardware
        PROVE  \E i \in 1..Len(list) : \E k \in 1..Width(list, i) : x.id = VmIds(list, i)[k]
    <3>1. CASE x \in script.vms
      BY <1>5, <3>1
    <3>2. CASE x \in script.hardware
      BY <1>6, <3>2
    <3> QED
      BY <3>1, <3>2
  <2> QED
    BY <1>10, <2>1
<1>13. \A x \in script.metrics : x.id \in Nat /\ ~(x.id < FirstMetric)
  <2> SUFFICES ASSUME NEW x \in script.metrics PROVE x.id \in Nat /\ ~(x.id < FirstMetric)
    OBVIOUS
  <2>1. PICK i \in 1..Len(list) : \E k \in 1..Width(list, i) :
          \E h \in Hours : x = SampleOf(list, i, k, h)
    BY <1>7
  <2>2. PICK k \in 1..Width(list, i) : \E h \in Hours : x = SampleOf(list, i, k, h)
    BY <2>1
  <2>3. PICK h \in Hours : x = SampleOf(list, i, k, h)
    BY <2>2
  <2>4. x.id = SampleId(VmIds(list, i)[k], h)
    BY <2>3 DEF SampleOf
  <2>5. h \in Nat
    BY HoursAre
  <2>6. x.id \in Nat /\ x.id >= FirstMetric
    BY <1>10, <2>4, <2>5, SampleIdIs
  <2> QED
    BY <1>1, <2>6
<1> QED
  BY <1>8, <1>9, <1>11, <1>12, <1>13

\* The transaction goes through: what was kept and what is inserted share no key.
LEMMA ApplyGoesThrough ==
  ASSUME ScriptInv, Apply
  PROVE  /\ DOMAIN vmdb' = DOMAIN Empty
         /\ vmdb'.vms = Kept.vms \cup script.vms
         /\ vmdb'.hardware = script.hardware
         /\ vmdb'.metrics = script.metrics
<1> DEFINE after == Plus(Kept, script)
<1>1. Numbered /\ Scripted /\ Cleared
  BY DEF ScriptInv
<1>2. /\ UniqueIds(script.vms) /\ UniqueIds(script.hardware)
      /\ UniqueIds(script.metrics)
      /\ \A x \in script.vms \cup script.hardware :
            x.id \in Nat /\ x.id >= FirstVm /\ ~(x.id < DemoRange)
  BY <1>1, ScriptKeys
<1>3. /\ Kept.vms \subseteq {RealVm(v) : v \in RealVms}
      /\ Kept.hardware = {} /\ Kept.metrics = {}
  BY <1>1 DEF Cleared
<1>4. \A x \in Kept.vms : x.id < DemoRange
  BY DEF Kept
<1>5. DOMAIN Kept = DOMAIN Empty
  BY DEF Kept, Empty
<1>6. /\ DOMAIN after = DOMAIN Empty
      /\ after.vms = Kept.vms \cup script.vms
      /\ after.hardware = script.hardware /\ after.metrics = script.metrics
  <2>1. /\ DOMAIN after = DOMAIN Empty
        /\ after.vms = Kept.vms \cup script.vms
        /\ after.hardware = Kept.hardware \cup script.hardware
        /\ after.metrics = Kept.metrics \cup script.metrics
    BY <1>5, PlusIs
  <2> HIDE DEF after
  <2> QED
    BY <1>3, <2>1
<1>7. UniqueIds(Kept.vms \cup script.vms)
  <2> SUFFICES ASSUME NEW x \in Kept.vms \cup script.vms,
                      NEW y \in Kept.vms \cup script.vms, x.id = y.id
               PROVE  x = y
    BY DEF UniqueIds
  <2>1. CASE x \in script.vms /\ y \in script.vms
    BY <1>2, <2>1 DEF UniqueIds
  <2>2. CASE x \in Kept.vms /\ y \in Kept.vms
    BY <1>3, <2>2 DEF RealVm
  <2>3. CASE x \in Kept.vms /\ y \in script.vms
    BY <1>2, <1>4, <2>3
  <2>4. CASE x \in script.vms /\ y \in Kept.vms
    BY <1>2, <1>4, <2>4
  <2> QED
    BY <2>1, <2>2, <2>3, <2>4
<1>8. vmdb' = IF \A t \in DOMAIN after : UniqueIds(after[t]) THEN after ELSE vmdb
  BY DEF Apply
<1> HIDE DEF after
<1>9. \A t \in DOMAIN after : UniqueIds(after[t])
  <2>1. \A t \in DOMAIN after : t = "vms" \/ t = "hardware" \/ t = "metrics"
    BY <1>6 DEF Empty
  <2>2. /\ UniqueIds(after.vms) /\ UniqueIds(after.hardware)
        /\ UniqueIds(after.metrics)
    BY <1>2, <1>6, <1>7
  <2> QED
    BY <2>1, <2>2
<1>10. vmdb' = after
  BY <1>8, <1>9
<1> QED
  BY <1>6, <1>10

LEMMA InvApply ==
  ASSUME ScriptInv, Apply
  PROVE  ScriptInv'
<1>1. Numbered /\ Scripted /\ Cleared
  BY DEF ScriptInv
<1>2. UNCHANGED <<list, at, vmId, hwId, metricId, script>>
  BY DEF Apply
<1>3. Numbered'
  BY <1>1, <1>2 DEF Numbered, SampleId
<1>4. Scripted'
  BY <1>1, <1>2 DEF Scripted, Empty
<1>5. Cleared'
  <2>1. /\ DOMAIN vmdb' = DOMAIN Empty
        /\ vmdb'.vms = Kept.vms \cup script.vms
        /\ vmdb'.hardware = script.hardware
        /\ vmdb'.metrics = script.metrics
    BY ApplyGoesThrough
  <2>2. /\ \A x \in script.vms \cup script.hardware : ~(x.id < DemoRange)
        /\ \A x \in script.metrics : ~(x.id < FirstMetric)
    BY <1>1, ScriptKeys
  <2>3. Kept.vms \subseteq {RealVm(v) : v \in RealVms}
    BY <1>1 DEF Cleared
  <2>4. /\ Kept'.vms = {v \in vmdb'.vms : v.id < DemoRange}
        /\ Kept'.hardware = {x \in vmdb'.hardware : x.id < DemoRange}
        /\ Kept'.metrics = {m \in vmdb'.metrics : m.id < FirstMetric}
    BY DEF Kept
  <2>5. Kept'.vms \subseteq {RealVm(v) : v \in RealVms}
    BY <2>1, <2>2, <2>3, <2>4
  <2>6. Kept'.hardware = {} /\ Kept'.metrics = {}
    BY <2>1, <2>2, <2>4
  <2> QED
    BY <2>1, <2>5, <2>6 DEF Cleared, Empty, RealVm, NoKey
<1> QED
  BY <1>3, <1>4, <1>5 DEF ScriptInv

LEMMA InvEdit ==
  ASSUME ScriptInv, NEW l \in Lists, Edit(l)
  PROVE  ScriptInv'
<1>1. /\ list' = l /\ at' = 0 /\ vmId' = FirstVm /\ hwId' = FirstVm /\ metricId' = FirstMetric
      /\ script' = Empty /\ vmdb' = vmdb
  BY DEF Edit
<1>2. IsList(l) /\ FirstVm \in Nat /\ FirstMetric \in Nat
  BY ListsAreLists, VmdbSeedAssumption
<1>3. FirstId(l)[1] = FirstVm
  BY <1>2, FirstIdIs DEF IsList
<1>4. SampleId(FirstVm, 0) = FirstMetric
  BY FirstSampleId
<1>5. Numbered'
  <2>1. at' + 1 = 1 /\ at' \in 0..Len(l)
    BY <1>1, <1>2 DEF IsList
  <2> QED
    BY <1>1, <1>3, <1>4, <2>1 DEF Numbered
<1>6. Scripted'
  <2>1. 1..at' = {}
    BY <1>1
  <2> QED
    BY <1>1, <2>1 DEF Scripted, Empty
<1>7. Cleared'
  BY <1>1 DEF ScriptInv, Cleared, Kept
<1> QED
  BY <1>5, <1>6, <1>7 DEF ScriptInv

LEMMA InvScriptNext == ScriptInv /\ [ScriptNext]_scriptVars => ScriptInv'
<1> SUFFICES ASSUME ScriptInv, [ScriptNext]_scriptVars PROVE ScriptInv'
  OBVIOUS
<1>1. CASE Emit
  BY <1>1, InvEmit
<1>2. CASE Apply
  BY <1>2, InvApply
<1>3. CASE \E l \in Lists : Edit(l)
  BY <1>3, InvEdit
<1>4. CASE UNCHANGED scriptVars
  <2>1. UNCHANGED <<list, at, vmId, hwId, metricId, script, vmdb>>
    BY <1>4 DEF scriptVars
  <2> QED
    BY <2>1 DEF ScriptInv, Numbered, Scripted, Cleared, Kept
<1> QED
  BY <1>1, <1>2, <1>3, <1>4 DEF ScriptNext

LEMMA ScriptInvariant == ScriptSpec => []ScriptInv
BY InvScriptInit, InvScriptNext, PTL DEF ScriptSpec

\* Whatever WORKLOADS is edited into, a recharge is filed under the machine that the
\* snapshot has for its workload and displayed under its name.
THEOREM RechargesStayPut == ScriptSpec => []RechargeStaysPut
<1>1. ScriptInv => RechargeStaysPut
  BY RechargesStay DEF ScriptInv, Numbered
<1> QED
  BY <1>1, ScriptInvariant, PTL

\* When all workloads are emitted, the script holds what miq_snapshot synthesizes.
LEMMA WholeScript ==
  ASSUME Scripted, IsList(list), at = Len(list)
  PROVE  /\ script.vms = SynthesizedVms(list)
         /\ {[vm |-> m.vm, hour |-> m.hour, load |-> m.load] : m \in script.metrics}
              = SynthesizedUtil(list)
<1>1. DOMAIN list = 1..at
  BY DEF IsList
<1>2. /\ script.vms = UNION {MachinesOf(list, i) : i \in 1..at}
      /\ script.metrics = UNION {SamplesOf(list, i) : i \in 1..at}
  BY DEF Scripted
<1>3. script.vms = SynthesizedVms(list)
  BY <1>1, <1>2 DEF SynthesizedVms, MachinesOf
<1> DEFINE P(m) == [vm |-> m.vm, hour |-> m.hour, load |-> m.load]
           U(i) == {[vm |-> VmIds(list, i)[k], hour |-> h, load |-> list[i].name] :
                      k \in DOMAIN VmIds(list, i), h \in Hours}
<1>4. \A i : {P(m) : m \in SamplesOf(list, i)} = U(i)
  <2> SUFFICES ASSUME NEW i PROVE {P(m) : m \in SamplesOf(list, i)} = U(i)
    OBVIOUS
  <2> DEFINE K == DOMAIN VmIds(list, i)
             Q(k, h) == [vm |-> VmIds(list, i)[k], hour |-> h, load |-> list[i].name]
  <2>1. SamplesOf(list, i) = {SampleOf(list, i, k, h) : k \in K, h \in Hours}
    BY DEF SamplesOf, SampleOf
  <2>2. \A k, h : P(SampleOf(list, i, k, h)) = Q(k, h)
    BY DEF SampleOf
  <2>3. U(i) = {Q(k, h) : k \in K, h \in Hours}
    OBVIOUS
  <2> HIDE DEF P, U, K, Q
  <2> QED
    BY <2>1, <2>2, <2>3
<1>5. SynthesizedUtil(list) = UNION {U(i) : i \in 1..at}
  BY <1>1 DEF SynthesizedUtil
<1> HIDE DEF P, U
<1>6. {P(m) : m \in script.metrics} = UNION {U(i) : i \in 1..at}
  <2>1. ASSUME NEW x PROVE x \in {P(m) : m \in script.metrics} => \E i \in 1..at : x \in U(i)
    BY <1>2, <1>4
  <2>2. ASSUME NEW x, NEW i \in 1..at, x \in U(i) PROVE x \in {P(m) : m \in script.metrics}
    <3>1. PICK m \in SamplesOf(list, i) : x = P(m)
      BY <1>4, <2>2
    <3>2. m \in script.metrics
      BY <1>2
    <3> QED
      BY <3>1, <3>2
  <2>3. \A x : x \in {P(m) : m \in script.metrics} <=> x \in UNION {U(i) : i \in 1..at}
    BY <2>1, <2>2
  <2> QED
    BY <2>3
<1> QED
  BY <1>3, <1>5, <1>6 DEF P

\* The appliance that the script was applied to shows the machines and the samples that
\* the snapshot synthesizes, for any lists, after any earlier scripts, and whatever
\* machines of its own it has; and the script is never refused.
THEOREM SeedIsSnapshot == ScriptSpec => SeedMatchesSnapshot
<1>1. ScriptInv /\ [ScriptNext]_scriptVars =>
        [applied' # applied =>
           /\ Demo(vmdb'.vms) = SynthesizedVms(list)
           /\ {[vm |-> m.vm, hour |-> m.hour, load |-> m.load] : m \in vmdb'.metrics}
                = SynthesizedUtil(list)]_scriptVars
  <2> SUFFICES ASSUME ScriptInv, [ScriptNext]_scriptVars, applied' # applied
               PROVE  /\ Demo(vmdb'.vms) = SynthesizedVms(list)
                      /\ {[vm |-> m.vm, hour |-> m.hour, load |-> m.load] : m \in vmdb'.metrics}
                           = SynthesizedUtil(list)
    OBVIOUS
  <2>1. Numbered /\ Scripted
    BY DEF ScriptInv
  <2>2. Apply
    BY DEF ScriptNext, Emit, Edit, scriptVars
  <2>3. vmdb'.vms = Kept.vms \cup script.vms /\ vmdb'.metrics = script.metrics
    BY <2>1, <2>2, ApplyGoesThrough
  <2>4. IsList(list) /\ at = Len(list)
    BY <2>1, <2>2, ListsAreLists DEF Numbered, Apply
  <2>5. /\ script.vms = SynthesizedVms(list)
        /\ {[vm |-> m.vm, hour |-> m.hour, load |-> m.load] : m \in script.metrics}
             = SynthesizedUtil(list)
    BY <2>1, <2>4, WholeScript
  <2>6. Demo(vmdb'.vms) = script.vms
    <3>1. \A x \in script.vms : x.id >= FirstVm
      BY <2>1, ScriptKeys
    <3>2. Kept.vms \subseteq {RealVm(v) : v \in RealVms}
      BY <2>1 DEF ScriptInv, Cleared
    <3>3. \A x \in Kept.vms : x.id \in Nat /\ x.id < DemoRange
      BY <2>1, <3>2, VmdbSeedAssumption DEF Kept, RealVm
    <3>4. \A x \in Kept.vms : ~(x.id >= FirstVm)
      BY <2>1, <3>3, VmdbSeedAssumption
    <3> QED
      BY <2>3, <3>1, <3>4 DEF Demo
  <2> QED
    BY <2>3, <2>5, <2>6
<1> QED
  BY <1>1, ScriptInvariant, PTL DEF ScriptSpec, SeedMatchesSnapshot

\* No machine of the appliance is in the range that the script clears.
RealBelowDemo == \A v \in RealVms : v < DemoRange

\* The script spares every machine that the appliance has of its own, as long as none
\* of them has an id in the demo range.
THEOREM RealMachinesAreSpared == RealBelowDemo /\ ScriptSpec => []RealMachinesSurvive
<1>1. RealBelowDemo /\ ScriptInit => RealBelowDemo /\ RealMachinesSurvive
  BY DEF ScriptInit, RealMachinesSurvive, Empty
<1>2. ScriptInv /\ RealBelowDemo /\ RealMachinesSurvive /\ [ScriptNext]_scriptVars
      => RealBelowDemo' /\ RealMachinesSurvive'
  <2> SUFFICES ASSUME ScriptInv, RealBelowDemo, RealMachinesSurvive,
                      [ScriptNext]_scriptVars
               PROVE  RealMachinesSurvive'
    BY DEF RealBelowDemo
  <2>1. CASE Apply
    <3>1. vmdb'.vms = Kept.vms \cup script.vms
      BY <2>1, ApplyGoesThrough DEF ScriptInv
    <3>2. \A v \in RealVms : RealVm(v) \in Kept.vms
      BY DEF Kept, RealMachinesSurvive, RealBelowDemo, RealVm
    <3> QED
      BY <3>1, <3>2 DEF RealMachinesSurvive, RealVm, NoKey
  <2>2. CASE vmdb' = vmdb
    BY <2>2 DEF RealMachinesSurvive, RealVm, NoKey
  <2>3. Emit \/ (\E l \in Lists : Edit(l)) \/ UNCHANGED scriptVars => vmdb' = vmdb
    BY DEF Emit, Edit, scriptVars
  <2> QED
    BY <2>1, <2>2, <2>3 DEF ScriptNext
<1> QED
  BY <1>1, <1>2, ScriptInvariant, PTL DEF ScriptSpec
==============================================================================
