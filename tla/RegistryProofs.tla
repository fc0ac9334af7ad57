---------------------------- MODULE RegistryProofs ----------------------------
(***************************************************************************)
(* For every set of processes, sources and rows: Registry keeps its types, *)
(* and, when the file exists or the entrypoint seeds before the workers    *)
(* start, implements RegistryStore.                                        *)
(***************************************************************************)
EXTENDS Registry, TLAPS

LEMMA EditedType ==
  ASSUME NEW t \in Tables, NEW c \in Calls
  PROVE  Edited(t, c) \in Tables
BY DEF Edited, Tables, Calls

LEMMA TypeInit == Init => TypeOK
BY RegistryAssumption DEF Init, TypeOK, Writes, Calls, Places, Tables

LEMMA TypeNext == TypeOK /\ [Next]_vars => TypeOK'
<1> SUFFICES ASSUME TypeOK, [Next]_vars PROVE TypeOK'
  OBVIOUS
<1> USE RegistryAssumption DEF TypeOK, Places, Writes, Leave, Loaded
<1>1. ASSUME NEW p \in Procs, NEW c \in Calls, Call(p, c) PROVE TypeOK'
  BY <1>1 DEF Call
<1>2. ASSUME NEW p \in Procs, TakeLock(p) PROVE TypeOK'
  BY <1>2 DEF TakeLock
<1>3. ASSUME NEW p \in Procs, Probe(p) PROVE TypeOK'
  BY <1>3 DEF Probe
<1>4. ASSUME NEW p \in Procs, SeedFile(p) PROVE TypeOK'
  BY <1>4 DEF SeedFile
<1>5. ASSUME NEW p \in Procs, Read(p) PROVE TypeOK'
  BY <1>5 DEF Read
<1>6. ASSUME NEW p \in Procs, Save(p) PROVE TypeOK'
  BY <1>6, EditedType DEF Save
<1>7. ASSUME NEW p \in Procs, Return(p) PROVE TypeOK'
  BY <1>7 DEF Return
<1>8. ASSUME NEW p \in Procs, Die(p) PROVE TypeOK'
  BY <1>8 DEF Die
<1>9. ASSUME UNCHANGED vars PROVE TypeOK'
  BY <1>9 DEF vars
<1> QED
  BY <1>1, <1>2, <1>3, <1>4, <1>5, <1>6, <1>7, <1>8, <1>9 DEF Next, Step

\* Type correctness of the registry, seeded or not: among others, no caller opens a
\* file that is not there, and only a writer inside its call holds the lock.
THEOREM TypeCorrect == Spec => []TypeOK
<1> QED
  BY TypeInit, TypeNext, PTL DEF Spec

-----------------------------------------------------------------------------

LEMMA RegistryInit == Init => RegistryInv
BY TypeInit, RegistryAssumption
DEF Init, RegistryInv, LockHeld, CurrentIsFresh, SeederAlone, Writes

\* The file is there, or the entrypoint has it made before any worker starts.
Prepared == SeedOnStart \/ file # Missing

\* Only the lock's holder saves, and only the seeder, alone, seeds.
LEMMA RegistryNext ==
  ASSUME Prepared, RegistryInv, [Next]_vars
  PROVE  RegistryInv'
<1>0. TypeOK'
  BY TypeNext DEF RegistryInv
<1> USE RegistryAssumption
    DEF RegistryInv, TypeOK, LockHeld, CurrentIsFresh, SeederAlone, Prepared, Writes,
        Leave, Loaded
<1>1. ASSUME NEW p \in Procs, NEW c \in Calls, Call(p, c) PROVE RegistryInv'
  BY <1>0, <1>1 DEF Call, MayCall
<1>2. ASSUME NEW p \in Procs, TakeLock(p) PROVE RegistryInv'
  BY <1>0, <1>2 DEF TakeLock
<1>3. ASSUME NEW p \in Procs, Probe(p) PROVE RegistryInv'
  BY <1>0, <1>3 DEF Probe
<1>4. ASSUME NEW p \in Procs, SeedFile(p) PROVE RegistryInv'
  BY <1>0, <1>4 DEF SeedFile, Tables
<1>5. ASSUME NEW p \in Procs, Read(p) PROVE RegistryInv'
  BY <1>0, <1>5 DEF Read
<1>6. ASSUME NEW p \in Procs, Save(p) PROVE RegistryInv'
  BY <1>0, <1>6, EditedType DEF Save
<1>7. ASSUME NEW p \in Procs, Return(p) PROVE RegistryInv'
  BY <1>0, <1>7 DEF Return
<1>8. ASSUME NEW p \in Procs, Die(p) PROVE RegistryInv'
  BY <1>0, <1>8 DEF Die
<1>9. ASSUME UNCHANGED vars PROVE RegistryInv'
  BY <1>0, <1>9 DEF vars
<1> QED
  BY <1>1, <1>2, <1>3, <1>4, <1>5, <1>6, <1>7, <1>8, <1>9 DEF Next, Step

\* A file that is there stays: every step that writes it writes a table.
LEMMA PreparedNext ==
  ASSUME Prepared, RegistryInv, [Next]_vars
  PROVE  Prepared'
<1> USE RegistryAssumption DEF Prepared, RegistryInv, TypeOK, Leave
<1>1. ASSUME NEW p \in Procs, SeedFile(p) \/ Save(p) PROVE file' # Missing
  BY <1>1, EditedType DEF SeedFile, Save
<1>2. ASSUME NEW p \in Procs, NEW c \in Calls, Call(p, c) PROVE file' = file
  BY <1>2 DEF Call
<1>3. ASSUME NEW p \in Procs,
             TakeLock(p) \/ Probe(p) \/ Read(p) \/ Return(p) \/ Die(p)
      PROVE  file' = file
  BY <1>3 DEF TakeLock, Probe, Read, Return, Die
<1> QED
  BY <1>1, <1>2, <1>3 DEF Next, Step, vars

\* The table that load() reports before the first call is the abstract First.
LEMMA StoreInit == Init => Promise!Init
BY DEF Init, Promise!Init, Contents, First, Stage, Answer

\* Save is the instant a write is served, Read or SeedFile the one a load is; the
\* other steps ask, finish, or are invisible.
LEMMA StoreNext ==
  ASSUME RegistryInv, [Next]_vars
  PROVE  [Promise!Next]_(Promise!vars)
<1> USE RegistryAssumption
    DEF RegistryInv, TypeOK, Writes, Leave, Loaded, Contents, Stage, Answer,
        Promise!vars
<1>1. ASSUME NEW p \in Procs, NEW c \in Calls, Call(p, c) PROVE Promise!Ask(p, c)
  BY <1>1 DEF Call, Promise!Ask
<1>2. ASSUME NEW p \in Procs, TakeLock(p) \/ Probe(p) PROVE UNCHANGED Promise!vars
  BY <1>2 DEF TakeLock, Probe
<1>3. ASSUME NEW p \in Procs, SeedFile(p)
      PROVE  Promise!Serve(p) \/ UNCHANGED Promise!vars
  BY <1>3 DEF SeedFile, SeederAlone, Promise!Serve, Promise!Effect
<1>4. ASSUME NEW p \in Procs, Read(p)
      PROVE  Promise!Serve(p) \/ UNCHANGED Promise!vars
  BY <1>4 DEF Read, Promise!Serve, Promise!Effect
<1>5. ASSUME NEW p \in Procs, Save(p) PROVE Promise!Serve(p)
  <2>1. file # Missing /\ current[p] = file
    BY <1>5 DEF Save, CurrentIsFresh
  <2>2. Edited(current[p], call[p]) # Missing
    BY EditedType
  <2> QED
    BY <1>5, <2>1, <2>2 DEF Save, Edited, Promise!Serve, Promise!Effect
<1>6. ASSUME NEW p \in Procs, Return(p) \/ Die(p) PROVE Promise!Finish(p)
  BY <1>6 DEF Return, Die, Promise!Finish
<1>7. ASSUME UNCHANGED vars PROVE UNCHANGED Promise!vars
  BY <1>7 DEF vars
<1>8. Calls = Promise!Calls
  BY DEF Calls, Promise!Calls
<1> QED
  BY <1>1, <1>2, <1>3, <1>4, <1>5, <1>6, <1>7, <1>8 DEF Next, Step, Promise!Next

\* What the two theorems below rest on.
LEMMA RegistryInvariant ==
  ASSUME SeedOnStart \/ Boot # Missing
  PROVE  Spec => [](RegistryInv /\ Prepared)
<1>1. Init => RegistryInv /\ Prepared
  BY RegistryInit DEF Init, Prepared
<1>2. RegistryInv /\ Prepared /\ [Next]_vars => (RegistryInv /\ Prepared)'
  BY RegistryNext, PreparedNext
<1> QED
  BY <1>1, <1>2, PTL DEF Spec

\* When docker.seed runs before the workers start, or the file is there, every
\* add_source, remove_source and load is one atomic access to one table, whatever
\* the number of processes and wherever they are killed: no registration is lost.
THEOREM RegistryIsLinearizable ==
  ASSUME SeedOnStart \/ Boot # Missing
  PROVE  Spec => Linearizable
<1>1. RegistryInv /\ [Next]_vars => [Promise!Next]_(Promise!vars)
  BY StoreNext
<1> QED
  BY RegistryInvariant, StoreInit, <1>1, PTL DEF Spec, Linearizable, Promise!Spec

-----------------------------------------------------------------------------

\* Only a save changes what load() reports, and only in the row of its call.
LEMMA OthersKeptNext ==
  ASSUME RegistryInv, [Next]_vars, NEW i \in Ids, Contents[i] # Contents'[i]
  PROVE  \E p \in Procs : pc[p] = "save" /\ pc'[p] = "return" /\ call[p].id = i
<1> USE RegistryAssumption DEF RegistryInv, TypeOK, Writes, Leave, Contents
<1>1. ASSUME NEW p \in Procs, NEW c \in Calls, Call(p, c) PROVE FALSE
  BY <1>1 DEF Call
<1>2. ASSUME NEW p \in Procs,
             TakeLock(p) \/ Probe(p) \/ Read(p) \/ Return(p) \/ Die(p)
      PROVE  FALSE
  BY <1>2 DEF TakeLock, Probe, Read, Return, Die
<1>3. ASSUME NEW p \in Procs, SeedFile(p) PROVE FALSE
  BY <1>3 DEF SeedFile, SeederAlone
<1>4. ASSUME NEW p \in Procs, Save(p)
      PROVE  pc[p] = "save" /\ pc'[p] = "return" /\ call[p].id = i
  <2>1. file \in Tables /\ current[p] = file
    BY <1>4 DEF Save, CurrentIsFresh
  <2>2. file' = Edited(file, call[p]) /\ file' \in Tables
    BY <1>4, <2>1, EditedType DEF Save
  <2>3. file[i] # Edited(file, call[p])[i]
    BY <2>1, <2>2
  <2>4. call[p].id = i
    BY <2>1, <2>3 DEF Edited, Calls, Tables
  <2> QED
    BY <1>4, <2>4 DEF Save
<1>5. ASSUME UNCHANGED vars PROVE FALSE
  BY <1>5 DEF vars
<1> QED
  BY <1>1, <1>2, <1>3, <1>4, <1>5 DEF Next, Step

\* Under the same condition no step of any caller changes the row of a source that
\* this caller was not asked about.
THEOREM OthersAreKept ==
  ASSUME SeedOnStart \/ Boot # Missing
  PROVE  Spec => OthersKept
<1>1. RegistryInv /\ [Next]_vars =>
        [\A i \in Ids : Contents[i] # Contents'[i]
           => \E p \in Procs :
                pc[p] = "save" /\ pc'[p] = "return" /\ call[p].id = i]_vars
  BY OthersKeptNext
<1> QED
  BY RegistryInvariant, <1>1, PTL DEF Spec, OthersKept

==============================================================================
