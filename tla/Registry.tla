------------------------------- MODULE Registry -------------------------------
(***************************************************************************)
(* connectors/registry.py: the JSON file of connected sources, which every *)
(* request handler and dispatcher run of every worker process shares.      *)
(* Writers serialize on a flock; load() takes none, and on a file that is  *)
(* not there it saves the shipped sources before it returns them.          *)
(***************************************************************************)
EXTENDS Naturals

CONSTANTS
  Procs, Ids, Configs, Absent,
  PocSeed,      \* POC_SEED: the table a fresh registry is given
  Missing,      \* there is no registry file
  Boot,         \* the file as the processes find it
  NoOne,        \* nobody holds the registry lock
  SeedOnStart,  \* the entrypoint runs docker.seed before it starts the workers
  Seeder,       \* the process that does
  MaxCalls      \* bound: calls made over a behaviour

Tables == [Ids -> Configs \cup {Absent}]
Calls  == [kind : {"load"}]
       \cup [kind : {"add"}, id : Ids, cfg : Configs]
       \cup [kind : {"remove"}, id : Ids]

ASSUME RegistryAssumption ==
  /\ PocSeed \in Tables
  /\ Missing \notin Tables
  /\ Boot \in Tables \cup {Missing}
  /\ NoOne \notin Procs
  /\ SeedOnStart \in BOOLEAN /\ Seeder \in Procs
  /\ MaxCalls \in Nat

VARIABLES
  file,         \* REGISTRY_PATH: os.replace makes each save one step
  lock,         \* holder of REGISTRY_PATH.lock
  pc, call,     \* where each caller is, and what it asked
  current,      \* the list that its load() built
  made          \* calls made so far

vars == <<file, lock, pc, call, current, made>>

Writes(p) == call[p].kind # "load"

\* What a load() that finds no file reports.
Contents == IF file = Missing THEN PocSeed ELSE file

\* The list that add_source or remove_source saves.
Edited(t, c) ==
  CASE c.kind = "add"    -> [t EXCEPT ![c.id] = c.cfg]
    [] c.kind = "remove" -> [t EXCEPT ![c.id] = Absent]
    [] OTHER             -> t

Places == {"idle", "lock", "probe", "seed", "read", "save", "return"}

TypeOK ==
  /\ file \in Tables \cup {Missing}
  /\ lock \in Procs \cup {NoOne}
  /\ pc \in [Procs -> Places]
  /\ call \in [Procs -> Calls]
  /\ current \in [Procs -> Tables]
  /\ made \in 0..MaxCalls
  /\ \A p \in Procs :
       /\ pc[p] \in {"lock", "save"} => Writes(p)
       /\ pc[p] = "read" => file # Missing
       /\ lock = p => pc[p] \notin {"idle", "lock"} /\ Writes(p)

Init ==
  /\ file = Boot
  /\ lock = NoOne
  /\ pc = [p \in Procs |-> "idle"]
  /\ call = [p \in Procs |-> [kind |-> "load"]]
  /\ current = [p \in Procs |-> IF Boot = Missing THEN PocSeed ELSE Boot]
  /\ made = 0

-----------------------------------------------------------------------------

\* On a fresh volume docker.seed's dispatcher is the first to load the registry.
MayCall(p, c) ==
  (SeedOnStart /\ file = Missing) => (p = Seeder /\ c.kind = "load")

Call(p, c) ==
  /\ pc[p] = "idle"
  /\ MayCall(p, c)
  /\ made < MaxCalls
  /\ made' = made + 1
  /\ call' = [call EXCEPT ![p] = c]
  /\ pc' = [pc EXCEPT ![p] = IF c.kind = "load" THEN "probe" ELSE "lock"]
  /\ UNCHANGED <<file, lock, current>>

\* A mutant: a read-modify-write without the lock.
EnterUnlocked(p) ==
  /\ pc[p] = "lock"
  /\ pc' = [pc EXCEPT ![p] = "probe"]
  /\ UNCHANGED <<file, lock, call, current, made>>

TakeLock(p) ==
  /\ pc[p] = "lock"
  /\ lock = NoOne
  /\ lock' = p
  /\ pc' = [pc EXCEPT ![p] = "probe"]
  /\ UNCHANGED <<file, call, current, made>>

\* os.path.exists, before the file is opened or saved.
Probe(p) ==
  /\ pc[p] = "probe"
  /\ pc' = [pc EXCEPT ![p] = IF file = Missing THEN "seed" ELSE "read"]
  /\ UNCHANGED <<file, lock, call, current, made>>

\* Where load() hands its list to.
Loaded(p) == pc' = [pc EXCEPT ![p] = IF Writes(p) THEN "save" ELSE "return"]

SeedFile(p) ==
  /\ pc[p] = "seed"
  /\ file' = PocSeed
  /\ current' = [current EXCEPT ![p] = PocSeed]
  /\ Loaded(p)
  /\ UNCHANGED <<lock, call, made>>

Read(p) ==
  /\ pc[p] = "read"
  /\ current' = [current EXCEPT ![p] = file]
  /\ Loaded(p)
  /\ UNCHANGED <<file, lock, call, made>>

Save(p) ==
  /\ pc[p] = "save"
  /\ file' = Edited(current[p], call[p])
  /\ pc' = [pc EXCEPT ![p] = "return"]
  /\ UNCHANGED <<lock, call, current, made>>

\* A mutant: the sidecar is left locked.
LeaveLocked(p) ==
  /\ pc' = [pc EXCEPT ![p] = "idle"]
  /\ UNCHANGED <<file, lock, call, current, made>>

\* The caller is gone: closing the sidecar releases the flock.
Leave(p) ==
  /\ pc' = [pc EXCEPT ![p] = "idle"]
  /\ lock' = IF lock = p THEN NoOne ELSE lock
  /\ UNCHANGED <<file, call, current, made>>

Return(p) == pc[p] = "return" /\ Leave(p)

\* The worker is killed, or the save raises: the old file is still whole.
Die(p) == pc[p] # "idle" /\ Leave(p)

Step(p) ==
  TakeLock(p) \/ Probe(p) \/ SeedFile(p) \/ Read(p) \/ Save(p) \/ Return(p)

Next == \E p \in Procs : (\E c \in Calls : Call(p, c)) \/ Step(p) \/ Die(p)

Spec     == Init /\ [][Next]_vars
FairSpec == Spec /\ \A p \in Procs : WF_vars(Step(p))

-----------------------------------------------------------------------------

(***************************************************************************)
(* Properties.                                                             *)
(***************************************************************************)

\* The promise of RegistryStore, refined.  Its table is what load() would report; a
\* call is served when its save replaces the file, and a load when it has read it.
First   == IF Boot = Missing THEN PocSeed ELSE Boot
Stage   == [p \in Procs |-> CASE pc[p] = "idle"   -> "idle"
                              [] pc[p] = "return" -> "served"
                              [] OTHER            -> "called"]
Answer  == [p \in Procs |->
             IF pc[p] = "return" /\ ~Writes(p) THEN current[p] ELSE Missing]
Promise == INSTANCE RegistryStore WITH
             Nothing <- Missing, table <- Contents, stage <- Stage, answer <- Answer

\* Every call is one atomic access to one table (add_source: "concurrent
\* registrations don't lose each other").
Linearizable == Promise!Spec

\* A step changes no source's row but the one that its caller was asked about, so a
\* registration is only ever lost to a call that names it.
OthersKept ==
  [][\A i \in Ids : Contents[i] # Contents'[i]
        => \E p \in Procs : pc[p] = "save" /\ pc'[p] = "return" /\ call[p].id = i]_vars

\* Every call returns: the registry lock is never left held.
Returned == \A p \in Procs : pc[p] # "idle" ~> pc[p] = "idle"

\* What makes the refinement inductive: a writer past the lock holds it, and the list
\* it is about to save is still the table.
LockHeld ==
  \A p \in Procs :
    Writes(p) /\ pc[p] \in {"probe", "seed", "read", "save", "return"} => lock = p

CurrentIsFresh == \A p \in Procs : pc[p] = "save" => current[p] = file

\* While there is no file the seeder is alone, so it seeds nothing but nothing.
SeederAlone ==
  /\ file = Missing => \A p \in Procs : pc[p] = "idle" \/ (p = Seeder /\ ~Writes(p))
  /\ \A p \in Procs : pc[p] = "seed" => file = Missing

RegistryInv == TypeOK /\ LockHeld /\ CurrentIsFresh /\ SeederAlone
==============================================================================
