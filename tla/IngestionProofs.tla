--------------------------- MODULE IngestionProofs ---------------------------
(***************************************************************************)
(* The safety of Ingestion, for every set of sources, files, bodies and    *)
(* requests: type correctness, then the inductive invariant IngestInv one  *)
(* conjunct at a time, the refinement of Warehouse, and what holds at rest.*)
(* Each <part>Next lemma has a step per action, and each <step>KeepsRest   *)
(* lemma is about one action and the partition of a plain source.          *)
(***************************************************************************)
EXTENDS Ingestion, TLAPS

\* What a dispatch yields is a set of rows.
LEMMA DispatchType ==
  ASSUME TypeOK, NEW s \in Sources
  PROVE  DispatchRows(s) \in SUBSET RowSet
BY DEF TypeOK, DispatchRows, InboxRows, RowSet

LEMMA FullDispatchType == TypeOK => FullDispatch \in [Sources -> SUBSET RowSet]
BY DispatchType DEF FullDispatch

-----------------------------------------------------------------------------

\* The state a first boot leaves is well typed.
LEMMA TypeInit == Init => TypeOK
BY IngestionAssumption
DEF Init, TypeOK, JobFits, Places, NoJob, Job, NoRows, RowSet,
    UploadPlaces, RoutePlaces, Routes

\* Every step keeps the types, and keeps a handler on the places of its route.
LEMMA TypeNext == TypeOK /\ [Next]_vars => TypeOK'
<1> SUFFICES ASSUME TypeOK, [Next]_vars PROVE TypeOK'
  OBVIOUS
<1> USE IngestionAssumption, DispatchType, FullDispatchType
    DEF TypeOK, JobFits, Places, UploadPlaces, RoutePlaces, Rebuilding,
        Routes, NoJob, Job, IsUpload, disk, db, reqs, Goto, Leave, NoRows
<1>1. ASSUME NEW r \in Requests, Upload(r) PROVE TypeOK'
  BY <1>1 DEF Upload, Accept, Given
<1>2. ASSUME NEW r \in Requests, LoadSample(r) PROVE TypeOK'
  BY <1>2 DEF LoadSample, Accept, Given
<1>3. ASSUME NEW r \in Requests, Remove(r) PROVE TypeOK'
  BY <1>3 DEF Remove, Accept, Asked
<1>4. ASSUME NEW r \in Requests, Add(r) PROVE TypeOK'
  BY <1>4 DEF Add, Accept, Asked
<1>5. ASSUME NEW r \in Requests, CheckRegistered(r) PROVE TypeOK'
  BY <1>5 DEF CheckRegistered
<1>6. ASSUME NEW r \in Requests, Register(r) PROVE TypeOK'
  BY <1>6 DEF Register
<1>7. ASSUME NEW r \in Requests, TakeIngestLock(r) PROVE TypeOK'
  BY <1>7 DEF TakeIngestLock
<1>8. ASSUME NEW r \in Requests, OpenInboxFile(r) PROVE TypeOK'
  BY <1>8 DEF OpenInboxFile
<1>9. ASSUME NEW r \in Requests, WriteInboxFile(r) PROVE TypeOK'
  BY <1>9 DEF WriteInboxFile
<1>10. ASSUME NEW r \in Requests, DispatchSource(r) PROVE TypeOK'
  BY <1>10 DEF DispatchSource
<1>11. ASSUME NEW r \in Requests, LoadPartition(r) PROVE TypeOK'
  BY <1>11 DEF LoadPartition, Replaced
<1>12. ASSUME NEW r \in Requests, RejectUpload(r) PROVE TypeOK'
  BY <1>12 DEF RejectUpload, Rejected
<1>13. ASSUME NEW r \in Requests, LoadRaises(r) PROVE TypeOK'
  BY <1>13 DEF LoadRaises
<1>14. ASSUME NEW r \in Requests, Acknowledge(r) PROVE TypeOK'
  BY <1>14 DEF Acknowledge
<1>15. ASSUME NEW r \in Requests, QueryCosts(r) PROVE TypeOK'
  BY <1>15 DEF QueryCosts
<1>16. ASSUME NEW r \in Requests, OpenCombined(r) PROVE TypeOK'
  <2>1. CASE Goto(r, "openComb", "writeComb")
    BY <1>16, <2>1 DEF OpenCombined
  <2>2. CASE Goto(r, "openFull", "writeFull")
    BY <1>16, <2>2 DEF OpenCombined
  <2> QED
    BY <1>16, <2>1, <2>2 DEF OpenCombined
<1>17. ASSUME NEW r \in Requests, ExportCombined(r) PROVE TypeOK'
  BY <1>17 DEF ExportCombined
<1>18. ASSUME NEW r \in Requests, BuildJoin(r) PROVE TypeOK'
  BY <1>18 DEF BuildJoin
<1>19. ASSUME NEW r \in Requests, OpenJoinCsv(r) PROVE TypeOK'
  BY <1>19 DEF OpenJoinCsv
<1>20. ASSUME NEW r \in Requests, WriteJoinCsv(r) PROVE TypeOK'
  BY <1>20 DEF WriteJoinCsv
<1>21. ASSUME NEW r \in Requests, StageJoin(r) PROVE TypeOK'
  BY <1>21 DEF StageJoin
<1>22. ASSUME NEW r \in Requests, CommitJoin(r) PROVE TypeOK'
  BY <1>22 DEF CommitJoin
<1>23. ASSUME NEW r \in Requests, Deregister(r) PROVE TypeOK'
  BY <1>23 DEF Deregister
<1>24. ASSUME NEW r \in Requests, DeletePartition(r) PROVE TypeOK'
  BY <1>24 DEF DeletePartition
<1>25. ASSUME NEW r \in Requests, UpsertSource(r) PROVE TypeOK'
  BY <1>25 DEF UpsertSource
<1>26. ASSUME NEW r \in Requests, Redispatch(r) PROVE TypeOK'
  BY <1>26 DEF Redispatch
<1>27. ASSUME NEW r \in Requests, WriteDispatch(r) PROVE TypeOK'
  BY <1>27 DEF WriteDispatch
<1>28. ASSUME NEW r \in Requests, DatabaseFails(r) PROVE TypeOK'
  BY <1>28 DEF DatabaseFails
<1>29. ASSUME NEW r \in Requests, WorkerDies(r) PROVE TypeOK'
  BY <1>29 DEF WorkerDies
<1>30. ASSUME Crash PROVE TypeOK'
  BY <1>30 DEF Crash
<1>31. ASSUME ApplySchema PROVE TypeOK'
  BY <1>31 DEF ApplySchema
<1>32. ASSUME Seed PROVE TypeOK'
  BY <1>32 DEF Seed, SeedLoads, SeedFails
<1>33. ASSUME UNCHANGED vars PROVE TypeOK'
  BY <1>33 DEF vars
<1> QED
  BY <1>1, <1>2, <1>3, <1>4, <1>5, <1>6, <1>7, <1>8, <1>9, <1>10, <1>11, <1>12, <1>13,
     <1>14, <1>15, <1>16, <1>17, <1>18, <1>19, <1>20, <1>21, <1>22, <1>23, <1>24,
     <1>25, <1>26, <1>27, <1>28, <1>29, <1>30, <1>31, <1>32, <1>33
  DEF Next, Arrive, Handle, Restart

\* Type correctness: registry, inboxes, tables, files and every handler's locals
\* keep their types, and a handler is only at places of the route it serves.
THEOREM TypeCorrect == Spec => []TypeOK
<1> QED
  BY TypeInit, TypeNext, PTL DEF Spec

-----------------------------------------------------------------------------

\* The lock is taken on entry, kept inside, and released by whatever ends a handler.
LEMMA LockHeldNext ==
  ASSUME TypeOK, LockHeld, [Next]_vars
  PROVE  LockHeld'
<1> USE IngestionAssumption
    DEF TypeOK, JobFits, UploadPlaces, RoutePlaces, Rebuilding, Loaded, Dispatched, Locked,
        Routes, NoJob, Job, IsUpload, Ingesting, disk, db, reqs,
        Goto, Leave, LockHeld
<1>1. ASSUME NEW r \in Requests, Upload(r) PROVE LockHeld'
  BY <1>1 DEF Upload, Accept, Given
<1>2. ASSUME NEW r \in Requests, LoadSample(r) PROVE LockHeld'
  BY <1>2 DEF LoadSample, Accept, Given
<1>3. ASSUME NEW r \in Requests, Remove(r) PROVE LockHeld'
  BY <1>3 DEF Remove, Accept, Asked
<1>4. ASSUME NEW r \in Requests, Add(r) PROVE LockHeld'
  BY <1>4 DEF Add, Accept, Asked
<1>5. ASSUME NEW r \in Requests, CheckRegistered(r) PROVE LockHeld'
  BY <1>5 DEF CheckRegistered
<1>6. ASSUME NEW r \in Requests, Register(r) PROVE LockHeld'
  BY <1>6 DEF Register
<1>7. ASSUME NEW r \in Requests, TakeIngestLock(r) PROVE LockHeld'
  BY <1>7 DEF TakeIngestLock
<1>8. ASSUME NEW r \in Requests, OpenInboxFile(r) PROVE LockHeld'
  BY <1>8 DEF OpenInboxFile
<1>9. ASSUME NEW r \in Requests, WriteInboxFile(r) PROVE LockHeld'
  BY <1>9 DEF WriteInboxFile
<1>10. ASSUME NEW r \in Requests, DispatchSource(r) PROVE LockHeld'
  BY <1>10 DEF DispatchSource
<1>11. ASSUME NEW r \in Requests, LoadPartition(r) PROVE LockHeld'
  BY <1>11 DEF LoadPartition, Replaced
<1>12. ASSUME NEW r \in Requests, RejectUpload(r) PROVE LockHeld'
  BY <1>12 DEF RejectUpload, Rejected
<1>13. ASSUME NEW r \in Requests, LoadRaises(r) PROVE LockHeld'
  BY <1>13 DEF LoadRaises
<1>14. ASSUME NEW r \in Requests, Acknowledge(r) PROVE LockHeld'
  BY <1>14 DEF Acknowledge
<1>15. ASSUME NEW r \in Requests, QueryCosts(r) PROVE LockHeld'
  BY <1>15 DEF QueryCosts
<1>16. ASSUME NEW r \in Requests, OpenCombined(r) PROVE LockHeld'
  <2>1. CASE Goto(r, "openComb", "writeComb")
    BY <1>16, <2>1 DEF OpenCombined
  <2>2. CASE Goto(r, "openFull", "writeFull")
    BY <1>16, <2>2 DEF OpenCombined
  <2> QED
    BY <1>16, <2>1, <2>2 DEF OpenCombined
<1>17. ASSUME NEW r \in Requests, ExportCombined(r) PROVE LockHeld'
  BY <1>17 DEF ExportCombined
<1>18. ASSUME NEW r \in Requests, BuildJoin(r) PROVE LockHeld'
  BY <1>18 DEF BuildJoin
<1>19. ASSUME NEW r \in Requests, OpenJoinCsv(r) PROVE LockHeld'
  BY <1>19 DEF OpenJoinCsv
<1>20. ASSUME NEW r \in Requests, WriteJoinCsv(r) PROVE LockHeld'
  BY <1>20 DEF WriteJoinCsv
<1>21. ASSUME NEW r \in Requests, StageJoin(r) PROVE LockHeld'
  BY <1>21 DEF StageJoin
<1>22. ASSUME NEW r \in Requests, CommitJoin(r) PROVE LockHeld'
  BY <1>22 DEF CommitJoin
<1>23. ASSUME NEW r \in Requests, Deregister(r) PROVE LockHeld'
  BY <1>23 DEF Deregister
<1>24. ASSUME NEW r \in Requests, DeletePartition(r) PROVE LockHeld'
  BY <1>24 DEF DeletePartition
<1>25. ASSUME NEW r \in Requests, UpsertSource(r) PROVE LockHeld'
  BY <1>25 DEF UpsertSource
<1>26. ASSUME NEW r \in Requests, Redispatch(r) PROVE LockHeld'
  BY <1>26 DEF Redispatch
<1>27. ASSUME NEW r \in Requests, WriteDispatch(r) PROVE LockHeld'
  BY <1>27 DEF WriteDispatch
<1>28. ASSUME NEW r \in Requests, DatabaseFails(r) PROVE LockHeld'
  BY <1>28 DEF DatabaseFails
<1>29. ASSUME NEW r \in Requests, WorkerDies(r) PROVE LockHeld'
  BY <1>29 DEF WorkerDies
<1>30. ASSUME Crash PROVE LockHeld'
  BY <1>30 DEF Crash
<1>31. ASSUME ApplySchema PROVE LockHeld'
  BY <1>31 DEF ApplySchema
<1>32. ASSUME Seed PROVE LockHeld'
  BY <1>32 DEF Seed, SeedLoads, SeedFails
<1>33. ASSUME UNCHANGED vars PROVE LockHeld'
  BY <1>33 DEF vars
<1> QED
  BY <1>1, <1>2, <1>3, <1>4, <1>5, <1>6, <1>7, <1>8, <1>9, <1>10, <1>11, <1>12, <1>13,
     <1>14, <1>15, <1>16, <1>17, <1>18, <1>19, <1>20, <1>21, <1>22, <1>23, <1>24,
     <1>25, <1>26, <1>27, <1>28, <1>29, <1>30, <1>31, <1>32, <1>33
  DEF Next, Arrive, Handle, Restart

\* Only the entrypoint runs between a crash and the end of the re-seed.
LEMMA RestartIsQuietNext ==
  ASSUME TypeOK, RestartIsQuiet, [Next]_vars
  PROVE  RestartIsQuiet'
<1> USE IngestionAssumption
    DEF TypeOK, RestartIsQuiet, disk, db, reqs, Goto, Leave
<1>1. ASSUME NEW r \in Requests, Upload(r) PROVE RestartIsQuiet'
  BY <1>1 DEF Upload, Accept, Given
<1>2. ASSUME NEW r \in Requests, LoadSample(r) PROVE RestartIsQuiet'
  BY <1>2 DEF LoadSample, Accept, Given
<1>3. ASSUME NEW r \in Requests, Remove(r) PROVE RestartIsQuiet'
  BY <1>3 DEF Remove, Accept, Asked
<1>4. ASSUME NEW r \in Requests, Add(r) PROVE RestartIsQuiet'
  BY <1>4 DEF Add, Accept, Asked
<1>5. ASSUME NEW r \in Requests, CheckRegistered(r) PROVE RestartIsQuiet'
  BY <1>5 DEF CheckRegistered
<1>6. ASSUME NEW r \in Requests, Register(r) PROVE RestartIsQuiet'
  BY <1>6 DEF Register
<1>7. ASSUME NEW r \in Requests, TakeIngestLock(r) PROVE RestartIsQuiet'
  BY <1>7 DEF TakeIngestLock
<1>8. ASSUME NEW r \in Requests, OpenInboxFile(r) PROVE RestartIsQuiet'
  BY <1>8 DEF OpenInboxFile
<1>9. ASSUME NEW r \in Requests, WriteInboxFile(r) PROVE RestartIsQuiet'
  BY <1>9 DEF WriteInboxFile
<1>10. ASSUME NEW r \in Requests, DispatchSource(r) PROVE RestartIsQuiet'
  BY <1>10 DEF DispatchSource
<1>11. ASSUME NEW r \in Requests, LoadPartition(r) PROVE RestartIsQuiet'
  BY <1>11 DEF LoadPartition, Replaced
<1>12. ASSUME NEW r \in Requests, RejectUpload(r) PROVE RestartIsQuiet'
  BY <1>12 DEF RejectUpload, Rejected
<1>13. ASSUME NEW r \in Requests, LoadRaises(r) PROVE RestartIsQuiet'
  BY <1>13 DEF LoadRaises
<1>14. ASSUME NEW r \in Requests, Acknowledge(r) PROVE RestartIsQuiet'
  BY <1>14 DEF Acknowledge
<1>15. ASSUME NEW r \in Requests, QueryCosts(r) PROVE RestartIsQuiet'
  BY <1>15 DEF QueryCosts
<1>16. ASSUME NEW r \in Requests, OpenCombined(r) PROVE RestartIsQuiet'
  <2>1. CASE Goto(r, "openComb", "writeComb")
    BY <1>16, <2>1 DEF OpenCombined
  <2>2. CASE Goto(r, "openFull", "writeFull")
    BY <1>16, <2>2 DEF OpenCombined
  <2> QED
    BY <1>16, <2>1, <2>2 DEF OpenCombined
<1>17. ASSUME NEW r \in Requests, ExportCombined(r) PROVE RestartIsQuiet'
  BY <1>17 DEF ExportCombined
<1>18. ASSUME NEW r \in Requests, BuildJoin(r) PROVE RestartIsQuiet'
  BY <1>18 DEF BuildJoin
<1>19. ASSUME NEW r \in Requests, OpenJoinCsv(r) PROVE RestartIsQuiet'
  BY <1>19 DEF OpenJoinCsv
<1>20. ASSUME NEW r \in Requests, WriteJoinCsv(r) PROVE RestartIsQuiet'
  BY <1>20 DEF WriteJoinCsv
<1>21. ASSUME NEW r \in Requests, StageJoin(r) PROVE RestartIsQuiet'
  BY <1>21 DEF StageJoin
<1>22. ASSUME NEW r \in Requests, CommitJoin(r) PROVE RestartIsQuiet'
  BY <1>22 DEF CommitJoin
<1>23. ASSUME NEW r \in Requests, Deregister(r) PROVE RestartIsQuiet'
  BY <1>23 DEF Deregister
<1>24. ASSUME NEW r \in Requests, DeletePartition(r) PROVE RestartIsQuiet'
  BY <1>24 DEF DeletePartition
<1>25. ASSUME NEW r \in Requests, UpsertSource(r) PROVE RestartIsQuiet'
  BY <1>25 DEF UpsertSource
<1>26. ASSUME NEW r \in Requests, Redispatch(r) PROVE RestartIsQuiet'
  BY <1>26 DEF Redispatch
<1>27. ASSUME NEW r \in Requests, WriteDispatch(r) PROVE RestartIsQuiet'
  BY <1>27 DEF WriteDispatch
<1>28. ASSUME NEW r \in Requests, DatabaseFails(r) PROVE RestartIsQuiet'
  BY <1>28 DEF DatabaseFails
<1>29. ASSUME NEW r \in Requests, WorkerDies(r) PROVE RestartIsQuiet'
  BY <1>29 DEF WorkerDies
<1>30. ASSUME Crash PROVE RestartIsQuiet'
  BY <1>30 DEF Crash
<1>31. ASSUME ApplySchema PROVE RestartIsQuiet'
  BY <1>31 DEF ApplySchema
<1>32. ASSUME Seed PROVE RestartIsQuiet'
  BY <1>32 DEF Seed, SeedLoads, SeedFails
<1>33. ASSUME UNCHANGED vars PROVE RestartIsQuiet'
  BY <1>33 DEF vars
<1> QED
  BY <1>1, <1>2, <1>3, <1>4, <1>5, <1>6, <1>7, <1>8, <1>9, <1>10, <1>11, <1>12, <1>13,
     <1>14, <1>15, <1>16, <1>17, <1>18, <1>19, <1>20, <1>21, <1>22, <1>23, <1>24,
     <1>25, <1>26, <1>27, <1>28, <1>29, <1>30, <1>31, <1>32, <1>33
  DEF Next, Arrive, Handle, Restart

\* Nobody else can touch a file of this inbox while the lock is held.
LEMMA OwnFileInInboxNext ==
  ASSUME TypeOK, LockHeld, OwnFileInInbox, [Next]_vars
  PROVE  OwnFileInInbox'
<1> USE IngestionAssumption
    DEF TypeOK, JobFits, UploadPlaces, RoutePlaces, Rebuilding, Loaded, Dispatched, Locked,
        Routes, NoJob, Job, IsUpload, Ingesting, disk, db, reqs,
        Goto, Leave, LockHeld, OwnFileInInbox
<1>1. ASSUME NEW r \in Requests, Upload(r) PROVE OwnFileInInbox'
  BY <1>1 DEF Upload, Accept, Given
<1>2. ASSUME NEW r \in Requests, LoadSample(r) PROVE OwnFileInInbox'
  BY <1>2 DEF LoadSample, Accept, Given
<1>3. ASSUME NEW r \in Requests, Remove(r) PROVE OwnFileInInbox'
  BY <1>3 DEF Remove, Accept, Asked
<1>4. ASSUME NEW r \in Requests, Add(r) PROVE OwnFileInInbox'
  BY <1>4 DEF Add, Accept, Asked
<1>5. ASSUME NEW r \in Requests, CheckRegistered(r) PROVE OwnFileInInbox'
  BY <1>5 DEF CheckRegistered
<1>6. ASSUME NEW r \in Requests, Register(r) PROVE OwnFileInInbox'
  BY <1>6 DEF Register
<1>7. ASSUME NEW r \in Requests, TakeIngestLock(r) PROVE OwnFileInInbox'
  BY <1>7 DEF TakeIngestLock
<1>8. ASSUME NEW r \in Requests, OpenInboxFile(r) PROVE OwnFileInInbox'
  BY <1>8 DEF OpenInboxFile
<1>9. ASSUME NEW r \in Requests, WriteInboxFile(r) PROVE OwnFileInInbox'
  BY <1>9 DEF WriteInboxFile
<1>10. ASSUME NEW r \in Requests, DispatchSource(r) PROVE OwnFileInInbox'
  BY <1>10 DEF DispatchSource
<1>11. ASSUME NEW r \in Requests, LoadPartition(r) PROVE OwnFileInInbox'
  BY <1>11 DEF LoadPartition, Replaced
<1>12. ASSUME NEW r \in Requests, RejectUpload(r) PROVE OwnFileInInbox'
  BY <1>12 DEF RejectUpload, Rejected
<1>13. ASSUME NEW r \in Requests, LoadRaises(r) PROVE OwnFileInInbox'
  BY <1>13 DEF LoadRaises
<1>14. ASSUME NEW r \in Requests, Acknowledge(r) PROVE OwnFileInInbox'
  BY <1>14 DEF Acknowledge
<1>15. ASSUME NEW r \in Requests, QueryCosts(r) PROVE OwnFileInInbox'
  BY <1>15 DEF QueryCosts
<1>16. ASSUME NEW r \in Requests, OpenCombined(r) PROVE OwnFileInInbox'
  <2>1. CASE Goto(r, "openComb", "writeComb")
    BY <1>16, <2>1 DEF OpenCombined
  <2>2. CASE Goto(r, "openFull", "writeFull")
    BY <1>16, <2>2 DEF OpenCombined
  <2> QED
    BY <1>16, <2>1, <2>2 DEF OpenCombined
<1>17. ASSUME NEW r \in Requests, ExportCombined(r) PROVE OwnFileInInbox'
  BY <1>17 DEF ExportCombined
<1>18. ASSUME NEW r \in Requests, BuildJoin(r) PROVE OwnFileInInbox'
  BY <1>18 DEF BuildJoin
<1>19. ASSUME NEW r \in Requests, OpenJoinCsv(r) PROVE OwnFileInInbox'
  BY <1>19 DEF OpenJoinCsv
<1>20. ASSUME NEW r \in Requests, WriteJoinCsv(r) PROVE OwnFileInInbox'
  BY <1>20 DEF WriteJoinCsv
<1>21. ASSUME NEW r \in Requests, StageJoin(r) PROVE OwnFileInInbox'
  BY <1>21 DEF StageJoin
<1>22. ASSUME NEW r \in Requests, CommitJoin(r) PROVE OwnFileInInbox'
  BY <1>22 DEF CommitJoin
<1>23. ASSUME NEW r \in Requests, Deregister(r) PROVE OwnFileInInbox'
  BY <1>23 DEF Deregister
<1>24. ASSUME NEW r \in Requests, DeletePartition(r) PROVE OwnFileInInbox'
  BY <1>24 DEF DeletePartition
<1>25. ASSUME NEW r \in Requests, UpsertSource(r) PROVE OwnFileInInbox'
  BY <1>25 DEF UpsertSource
<1>26. ASSUME NEW r \in Requests, Redispatch(r) PROVE OwnFileInInbox'
  BY <1>26 DEF Redispatch
<1>27. ASSUME NEW r \in Requests, WriteDispatch(r) PROVE OwnFileInInbox'
  BY <1>27 DEF WriteDispatch
<1>28. ASSUME NEW r \in Requests, DatabaseFails(r) PROVE OwnFileInInbox'
  BY <1>28 DEF DatabaseFails
<1>29. ASSUME NEW r \in Requests, WorkerDies(r) PROVE OwnFileInInbox'
  BY <1>29 DEF WorkerDies
<1>30. ASSUME Crash PROVE OwnFileInInbox'
  BY <1>30 DEF Crash
<1>31. ASSUME ApplySchema PROVE OwnFileInInbox'
  BY <1>31 DEF ApplySchema
<1>32. ASSUME Seed PROVE OwnFileInInbox'
  BY <1>32 DEF Seed, SeedLoads, SeedFails
<1>33. ASSUME UNCHANGED vars PROVE OwnFileInInbox'
  BY <1>33 DEF vars
<1> QED
  BY <1>1, <1>2, <1>3, <1>4, <1>5, <1>6, <1>7, <1>8, <1>9, <1>10, <1>11, <1>12, <1>13,
     <1>14, <1>15, <1>16, <1>17, <1>18, <1>19, <1>20, <1>21, <1>22, <1>23, <1>24,
     <1>25, <1>26, <1>27, <1>28, <1>29, <1>30, <1>31, <1>32, <1>33
  DEF Next, Arrive, Handle, Restart

\* No route turns a plain source into anything but an upload source.
LEMMA PlainRegisteredNext ==
  ASSUME TypeOK, RestartIsQuiet, PlainRegistered, [Next]_vars
  PROVE  PlainRegistered'
<1> USE IngestionAssumption
    DEF TypeOK, JobFits, UploadPlaces, RoutePlaces, Rebuilding, Loaded, Dispatched, Locked,
        Routes, NoJob, Job, IsUpload, Ingesting, disk, db, reqs,
        Goto, Leave, RestartIsQuiet, PlainRegistered, Plain
<1>1. ASSUME NEW r \in Requests, Upload(r) PROVE PlainRegistered'
  BY <1>1 DEF Upload, Accept, Given
<1>2. ASSUME NEW r \in Requests, LoadSample(r) PROVE PlainRegistered'
  BY <1>2 DEF LoadSample, Accept, Given
<1>3. ASSUME NEW r \in Requests, Remove(r) PROVE PlainRegistered'
  BY <1>3 DEF Remove, Accept, Asked
<1>4. ASSUME NEW r \in Requests, Add(r) PROVE PlainRegistered'
  BY <1>4 DEF Add, Accept, Asked
<1>5. ASSUME NEW r \in Requests, CheckRegistered(r) PROVE PlainRegistered'
  BY <1>5 DEF CheckRegistered
<1>6. ASSUME NEW r \in Requests, Register(r) PROVE PlainRegistered'
  BY <1>6 DEF Register
<1>7. ASSUME NEW r \in Requests, TakeIngestLock(r) PROVE PlainRegistered'
  BY <1>7 DEF TakeIngestLock
<1>8. ASSUME NEW r \in Requests, OpenInboxFile(r) PROVE PlainRegistered'
  BY <1>8 DEF OpenInboxFile
<1>9. ASSUME NEW r \in Requests, WriteInboxFile(r) PROVE PlainRegistered'
  BY <1>9 DEF WriteInboxFile
<1>10. ASSUME NEW r \in Requests, DispatchSource(r) PROVE PlainRegistered'
  BY <1>10 DEF DispatchSource
<1>11. ASSUME NEW r \in Requests, LoadPartition(r) PROVE PlainRegistered'
  BY <1>11 DEF LoadPartition, Replaced
<1>12. ASSUME NEW r \in Requests, RejectUpload(r) PROVE PlainRegistered'
  BY <1>12 DEF RejectUpload, Rejected
<1>13. ASSUME NEW r \in Requests, LoadRaises(r) PROVE PlainRegistered'
  BY <1>13 DEF LoadRaises
<1>14. ASSUME NEW r \in Requests, Acknowledge(r) PROVE PlainRegistered'
  BY <1>14 DEF Acknowledge
<1>15. ASSUME NEW r \in Requests, QueryCosts(r) PROVE PlainRegistered'
  BY <1>15 DEF QueryCosts
<1>16. ASSUME NEW r \in Requests, OpenCombined(r) PROVE PlainRegistered'
  <2>1. CASE Goto(r, "openComb", "writeComb")
    BY <1>16, <2>1 DEF OpenCombined
  <2>2. CASE Goto(r, "openFull", "writeFull")
    BY <1>16, <2>2 DEF OpenCombined
  <2> QED
    BY <1>16, <2>1, <2>2 DEF OpenCombined
<1>17. ASSUME NEW r \in Requests, ExportCombined(r) PROVE PlainRegistered'
  BY <1>17 DEF ExportCombined
<1>18. ASSUME NEW r \in Requests, BuildJoin(r) PROVE PlainRegistered'
  BY <1>18 DEF BuildJoin
<1>19. ASSUME NEW r \in Requests, OpenJoinCsv(r) PROVE PlainRegistered'
  BY <1>19 DEF OpenJoinCsv
<1>20. ASSUME NEW r \in Requests, WriteJoinCsv(r) PROVE PlainRegistered'
  BY <1>20 DEF WriteJoinCsv
<1>21. ASSUME NEW r \in Requests, StageJoin(r) PROVE PlainRegistered'
  BY <1>21 DEF StageJoin
<1>22. ASSUME NEW r \in Requests, CommitJoin(r) PROVE PlainRegistered'
  BY <1>22 DEF CommitJoin
<1>23. ASSUME NEW r \in Requests, Deregister(r) PROVE PlainRegistered'
  BY <1>23 DEF Deregister
<1>24. ASSUME NEW r \in Requests, DeletePartition(r) PROVE PlainRegistered'
  BY <1>24 DEF DeletePartition
<1>25. ASSUME NEW r \in Requests, UpsertSource(r) PROVE PlainRegistered'
  BY <1>25 DEF UpsertSource
<1>26. ASSUME NEW r \in Requests, Redispatch(r) PROVE PlainRegistered'
  BY <1>26 DEF Redispatch
<1>27. ASSUME NEW r \in Requests, WriteDispatch(r) PROVE PlainRegistered'
  BY <1>27 DEF WriteDispatch
<1>28. ASSUME NEW r \in Requests, DatabaseFails(r) PROVE PlainRegistered'
  BY <1>28 DEF DatabaseFails
<1>29. ASSUME NEW r \in Requests, WorkerDies(r) PROVE PlainRegistered'
  BY <1>29 DEF WorkerDies
<1>30. ASSUME Crash PROVE PlainRegistered'
  BY <1>30 DEF Crash
<1>31. ASSUME ApplySchema PROVE PlainRegistered'
  BY <1>31 DEF ApplySchema
<1>32. ASSUME Seed PROVE PlainRegistered'
  BY <1>32 DEF Seed, SeedLoads, SeedFails
<1>33. ASSUME UNCHANGED vars PROVE PlainRegistered'
  BY <1>33 DEF vars
<1> QED
  BY <1>1, <1>2, <1>3, <1>4, <1>5, <1>6, <1>7, <1>8, <1>9, <1>10, <1>11, <1>12, <1>13,
     <1>14, <1>15, <1>16, <1>17, <1>18, <1>19, <1>20, <1>21, <1>22, <1>23, <1>24,
     <1>25, <1>26, <1>27, <1>28, <1>29, <1>30, <1>31, <1>32, <1>33
  DEF Next, Arrive, Handle, Restart

\* Two handlers that each hold the lock of one source are one handler.
LEMMA LockIsMutual == TypeOK /\ LockHeld => IngestMutex
BY IngestionAssumption DEF LockHeld, IngestMutex, TypeOK, Ingesting

\* The dispatch reads the whole inbox, and the lock keeps the inbox as it was read.
LEMMA WholeInboxNext ==
  ASSUME TypeOK, LockHeld, WholeInbox, [Next]_vars
  PROVE  WholeInbox'
<1> USE IngestionAssumption
    DEF TypeOK, JobFits, UploadPlaces, RoutePlaces, Rebuilding, Loaded, Dispatched, Locked,
        Routes, NoJob, Job, IsUpload, Ingesting, disk, db, reqs,
        Goto, Leave, LockHeld, WholeInbox
<1>1. ASSUME NEW r \in Requests, Upload(r) PROVE WholeInbox'
  BY <1>1 DEF Upload, Accept, Given, InboxRows, Exports, DispatchRows
<1>2. ASSUME NEW r \in Requests, LoadSample(r) PROVE WholeInbox'
  BY <1>2 DEF LoadSample, Accept, Given, InboxRows, Exports, DispatchRows
<1>3. ASSUME NEW r \in Requests, Remove(r) PROVE WholeInbox'
  BY <1>3 DEF Remove, Accept, Asked, InboxRows, Exports, DispatchRows
<1>4. ASSUME NEW r \in Requests, Add(r) PROVE WholeInbox'
  BY <1>4 DEF Add, Accept, Asked, InboxRows, Exports, DispatchRows
<1>5. ASSUME NEW r \in Requests, CheckRegistered(r) PROVE WholeInbox'
  BY <1>5 DEF CheckRegistered, InboxRows, Exports, DispatchRows
<1>6. ASSUME NEW r \in Requests, Register(r) PROVE WholeInbox'
  BY <1>6 DEF Register, InboxRows, Exports, DispatchRows
<1>7. ASSUME NEW r \in Requests, TakeIngestLock(r) PROVE WholeInbox'
  BY <1>7 DEF TakeIngestLock, InboxRows, Exports, DispatchRows
<1>8. ASSUME NEW r \in Requests, OpenInboxFile(r) PROVE WholeInbox'
  <2>1. /\ Ingesting(r)
        /\ \A s \in Sources : s # job[r].src => inbox'[s] = inbox[s]
    BY <1>8 DEF OpenInboxFile
  <2>2. ASSUME NEW q \in Requests, Ingesting(q), q # r
        PROVE  job[q].src # job[r].src
    BY <2>1, <2>2
  <2>3. \A s \in Sources : s # job[r].src => InboxRows(s)' = InboxRows(s)
    BY <2>1 DEF InboxRows, Exports
  <2> QED
    BY <1>8, <2>2, <2>3 DEF OpenInboxFile
<1>9. ASSUME NEW r \in Requests, WriteInboxFile(r) PROVE WholeInbox'
  <2>1. /\ Ingesting(r)
        /\ \A s \in Sources : s # job[r].src => inbox'[s] = inbox[s]
    BY <1>9 DEF WriteInboxFile
  <2>2. ASSUME NEW q \in Requests, Ingesting(q), q # r
        PROVE  job[q].src # job[r].src
    BY <2>1, <2>2
  <2>3. \A s \in Sources : s # job[r].src => InboxRows(s)' = InboxRows(s)
    BY <2>1 DEF InboxRows, Exports
  <2> QED
    BY <1>9, <2>1, <2>2, <2>3, SMTT(40) DEF WriteInboxFile
<1>10. ASSUME NEW r \in Requests, DispatchSource(r) PROVE WholeInbox'
  BY <1>10 DEF DispatchSource, InboxRows, Exports, DispatchRows
<1>11. ASSUME NEW r \in Requests, LoadPartition(r) PROVE WholeInbox'
  BY <1>11 DEF LoadPartition, Replaced, InboxRows, Exports, DispatchRows
<1>12. ASSUME NEW r \in Requests, RejectUpload(r) PROVE WholeInbox'
  BY <1>12 DEF RejectUpload, Rejected, InboxRows, Exports, DispatchRows
<1>13. ASSUME NEW r \in Requests, LoadRaises(r) PROVE WholeInbox'
  BY <1>13 DEF LoadRaises, InboxRows, Exports, DispatchRows
<1>14. ASSUME NEW r \in Requests, Acknowledge(r) PROVE WholeInbox'
  BY <1>14 DEF Acknowledge, InboxRows, Exports, DispatchRows
<1>15. ASSUME NEW r \in Requests, QueryCosts(r) PROVE WholeInbox'
  BY <1>15 DEF QueryCosts, InboxRows, Exports, DispatchRows
<1>16. ASSUME NEW r \in Requests, OpenCombined(r) PROVE WholeInbox'
  <2>1. CASE Goto(r, "openComb", "writeComb")
    BY <1>16, <2>1 DEF OpenCombined, InboxRows, Exports
  <2>2. CASE Goto(r, "openFull", "writeFull")
    BY <1>16, <2>2 DEF OpenCombined, InboxRows, Exports
  <2> QED
    BY <1>16, <2>1, <2>2 DEF OpenCombined
<1>17. ASSUME NEW r \in Requests, ExportCombined(r) PROVE WholeInbox'
  BY <1>17 DEF ExportCombined, InboxRows, Exports, DispatchRows
<1>18. ASSUME NEW r \in Requests, BuildJoin(r) PROVE WholeInbox'
  BY <1>18 DEF BuildJoin, InboxRows, Exports, DispatchRows
<1>19. ASSUME NEW r \in Requests, OpenJoinCsv(r) PROVE WholeInbox'
  BY <1>19 DEF OpenJoinCsv, InboxRows, Exports, DispatchRows
<1>20. ASSUME NEW r \in Requests, WriteJoinCsv(r) PROVE WholeInbox'
  BY <1>20 DEF WriteJoinCsv, InboxRows, Exports, DispatchRows
<1>21. ASSUME NEW r \in Requests, StageJoin(r) PROVE WholeInbox'
  BY <1>21 DEF StageJoin, InboxRows, Exports, DispatchRows
<1>22. ASSUME NEW r \in Requests, CommitJoin(r) PROVE WholeInbox'
  BY <1>22 DEF CommitJoin, InboxRows, Exports, DispatchRows
<1>23. ASSUME NEW r \in Requests, Deregister(r) PROVE WholeInbox'
  BY <1>23 DEF Deregister, InboxRows, Exports, DispatchRows
<1>24. ASSUME NEW r \in Requests, DeletePartition(r) PROVE WholeInbox'
  BY <1>24 DEF DeletePartition, InboxRows, Exports, DispatchRows
<1>25. ASSUME NEW r \in Requests, UpsertSource(r) PROVE WholeInbox'
  BY <1>25 DEF UpsertSource, InboxRows, Exports, DispatchRows
<1>26. ASSUME NEW r \in Requests, Redispatch(r) PROVE WholeInbox'
  BY <1>26 DEF Redispatch, InboxRows, Exports, DispatchRows
<1>27. ASSUME NEW r \in Requests, WriteDispatch(r) PROVE WholeInbox'
  BY <1>27 DEF WriteDispatch, InboxRows, Exports, DispatchRows
<1>28. ASSUME NEW r \in Requests, DatabaseFails(r) PROVE WholeInbox'
  BY <1>28 DEF DatabaseFails, InboxRows, Exports, DispatchRows
<1>29. ASSUME NEW r \in Requests, WorkerDies(r) PROVE WholeInbox'
  BY <1>29 DEF WorkerDies, InboxRows, Exports, DispatchRows
<1>30. ASSUME Crash PROVE WholeInbox'
  BY <1>30 DEF Crash, InboxRows, Exports, DispatchRows
<1>31. ASSUME ApplySchema PROVE WholeInbox'
  BY <1>31 DEF ApplySchema, InboxRows, Exports, DispatchRows
<1>32. ASSUME Seed PROVE WholeInbox'
  BY <1>32 DEF Seed, SeedLoads, SeedFails, InboxRows, Exports, DispatchRows
<1>33. ASSUME UNCHANGED vars PROVE WholeInbox'
  BY <1>33 DEF vars, InboxRows, Exports
<1> HIDE DEF TypeOK, LockHeld, WholeInbox
<1> QED
  BY <1>1, <1>2, <1>3, <1>4, <1>5, <1>6, <1>7, <1>8, <1>9, <1>10, <1>11, <1>12, <1>13,
     <1>14, <1>15, <1>16, <1>17, <1>18, <1>19, <1>20, <1>21, <1>22, <1>23, <1>24,
     <1>25, <1>26, <1>27, <1>28, <1>29, <1>30, <1>31, <1>32, <1>33
  DEF Next, Arrive, Handle, Restart

\* The load commits that dispatch, and the lock keeps the partition as it was loaded.
LEMMA NoLostUploadNext ==
  ASSUME TypeOK, LockHeld, RestartIsQuiet, PlainRegistered, WholeInbox, NoLostUpload, [Next]_vars
  PROVE  NoLostUpload'
<1> USE IngestionAssumption
    DEF TypeOK, JobFits, UploadPlaces, RoutePlaces, Rebuilding, Loaded, Dispatched, Locked,
        Routes, NoJob, Job, IsUpload, Ingesting, disk, db, reqs,
        Goto, Leave, LockHeld, RestartIsQuiet, WholeInbox,
        PlainRegistered, NoLostUpload, Plain
<1>1. ASSUME NEW r \in Requests, Upload(r) PROVE NoLostUpload'
  BY <1>1 DEF Upload, Accept, Given, InboxRows, Exports
<1>2. ASSUME NEW r \in Requests, LoadSample(r) PROVE NoLostUpload'
  BY <1>2 DEF LoadSample, Accept, Given, InboxRows, Exports
<1>3. ASSUME NEW r \in Requests, Remove(r) PROVE NoLostUpload'
  BY <1>3 DEF Remove, Accept, Asked, InboxRows, Exports
<1>4. ASSUME NEW r \in Requests, Add(r) PROVE NoLostUpload'
  BY <1>4 DEF Add, Accept, Asked, InboxRows, Exports
<1>5. ASSUME NEW r \in Requests, CheckRegistered(r) PROVE NoLostUpload'
  BY <1>5 DEF CheckRegistered, InboxRows, Exports
<1>6. ASSUME NEW r \in Requests, Register(r) PROVE NoLostUpload'
  BY <1>6 DEF Register, InboxRows, Exports
<1>7. ASSUME NEW r \in Requests, TakeIngestLock(r) PROVE NoLostUpload'
  BY <1>7 DEF TakeIngestLock, InboxRows, Exports
<1>8. ASSUME NEW r \in Requests, OpenInboxFile(r) PROVE NoLostUpload'
  <2>1. /\ Ingesting(r)
        /\ \A s \in Sources : s # job[r].src => inbox'[s] = inbox[s]
    BY <1>8 DEF OpenInboxFile
  <2>2. ASSUME NEW q \in Requests, Ingesting(q), q # r
        PROVE  job[q].src # job[r].src
    BY <2>1, <2>2
  <2>3. \A s \in Sources : s # job[r].src => InboxRows(s)' = InboxRows(s)
    BY <2>1 DEF InboxRows, Exports
  <2> QED
    BY <1>8, <2>2, <2>3 DEF OpenInboxFile
<1>9. ASSUME NEW r \in Requests, WriteInboxFile(r) PROVE NoLostUpload'
  <2>1. /\ Ingesting(r)
        /\ \A s \in Sources : s # job[r].src => inbox'[s] = inbox[s]
    BY <1>9 DEF WriteInboxFile
  <2>2. ASSUME NEW q \in Requests, Ingesting(q), q # r
        PROVE  job[q].src # job[r].src
    BY <2>1, <2>2
  <2>3. \A s \in Sources : s # job[r].src => InboxRows(s)' = InboxRows(s)
    BY <2>1 DEF InboxRows, Exports
  <2> QED
    BY <1>9, <2>1, <2>2, <2>3, SMTT(40) DEF WriteInboxFile
<1>10. ASSUME NEW r \in Requests, DispatchSource(r) PROVE NoLostUpload'
  BY <1>10 DEF DispatchSource, InboxRows, Exports
<1>11. ASSUME NEW r \in Requests, LoadPartition(r) PROVE NoLostUpload'
  BY <1>11 DEF LoadPartition, Replaced, InboxRows, Exports
<1>12. ASSUME NEW r \in Requests, RejectUpload(r) PROVE NoLostUpload'
  BY <1>12 DEF RejectUpload, Rejected, InboxRows, Exports
<1>13. ASSUME NEW r \in Requests, LoadRaises(r) PROVE NoLostUpload'
  BY <1>13 DEF LoadRaises, InboxRows, Exports
<1>14. ASSUME NEW r \in Requests, Acknowledge(r) PROVE NoLostUpload'
  BY <1>14 DEF Acknowledge, InboxRows, Exports
<1>15. ASSUME NEW r \in Requests, QueryCosts(r) PROVE NoLostUpload'
  BY <1>15 DEF QueryCosts, InboxRows, Exports
<1>16. ASSUME NEW r \in Requests, OpenCombined(r) PROVE NoLostUpload'
  <2>1. CASE Goto(r, "openComb", "writeComb")
    BY <1>16, <2>1 DEF OpenCombined, InboxRows, Exports
  <2>2. CASE Goto(r, "openFull", "writeFull")
    BY <1>16, <2>2 DEF OpenCombined, InboxRows, Exports
  <2> QED
    BY <1>16, <2>1, <2>2 DEF OpenCombined
<1>17. ASSUME NEW r \in Requests, ExportCombined(r) PROVE NoLostUpload'
  BY <1>17 DEF ExportCombined, InboxRows, Exports
<1>18. ASSUME NEW r \in Requests, BuildJoin(r) PROVE NoLostUpload'
  BY <1>18 DEF BuildJoin, InboxRows, Exports
<1>19. ASSUME NEW r \in Requests, OpenJoinCsv(r) PROVE NoLostUpload'
  BY <1>19 DEF OpenJoinCsv, InboxRows, Exports
<1>20. ASSUME NEW r \in Requests, WriteJoinCsv(r) PROVE NoLostUpload'
  BY <1>20 DEF WriteJoinCsv, InboxRows, Exports
<1>21. ASSUME NEW r \in Requests, StageJoin(r) PROVE NoLostUpload'
  BY <1>21 DEF StageJoin, InboxRows, Exports
<1>22. ASSUME NEW r \in Requests, CommitJoin(r) PROVE NoLostUpload'
  BY <1>22 DEF CommitJoin, InboxRows, Exports
<1>23. ASSUME NEW r \in Requests, Deregister(r) PROVE NoLostUpload'
  BY <1>23 DEF Deregister, InboxRows, Exports
<1>24. ASSUME NEW r \in Requests, DeletePartition(r) PROVE NoLostUpload'
  BY <1>24 DEF DeletePartition, InboxRows, Exports
<1>25. ASSUME NEW r \in Requests, UpsertSource(r) PROVE NoLostUpload'
  BY <1>25 DEF UpsertSource, InboxRows, Exports
<1>26. ASSUME NEW r \in Requests, Redispatch(r) PROVE NoLostUpload'
  BY <1>26 DEF Redispatch, InboxRows, Exports
<1>27. ASSUME NEW r \in Requests, WriteDispatch(r) PROVE NoLostUpload'
  BY <1>27 DEF WriteDispatch, InboxRows, Exports
<1>28. ASSUME NEW r \in Requests, DatabaseFails(r) PROVE NoLostUpload'
  BY <1>28 DEF DatabaseFails, InboxRows, Exports
<1>29. ASSUME NEW r \in Requests, WorkerDies(r) PROVE NoLostUpload'
  BY <1>29 DEF WorkerDies, InboxRows, Exports
<1>30. ASSUME Crash PROVE NoLostUpload'
  BY <1>30 DEF Crash, InboxRows, Exports
<1>31. ASSUME ApplySchema PROVE NoLostUpload'
  BY <1>31 DEF ApplySchema, InboxRows, Exports
<1>32. ASSUME Seed PROVE NoLostUpload'
  BY <1>32 DEF Seed, SeedLoads, SeedFails, InboxRows, Exports
<1>33. ASSUME UNCHANGED vars PROVE NoLostUpload'
  BY <1>33 DEF vars, InboxRows, Exports
<1> HIDE DEF TypeOK, LockHeld, RestartIsQuiet, PlainRegistered, WholeInbox, NoLostUpload
<1> QED
  BY <1>1, <1>2, <1>3, <1>4, <1>5, <1>6, <1>7, <1>8, <1>9, <1>10, <1>11, <1>12, <1>13,
     <1>14, <1>15, <1>16, <1>17, <1>18, <1>19, <1>20, <1>21, <1>22, <1>23, <1>24,
     <1>25, <1>26, <1>27, <1>28, <1>29, <1>30, <1>31, <1>32, <1>33
  DEF Next, Arrive, Handle, Restart

\* COPY and the gate stand before each of the two commits that add rows.
LEMMA WarehouseConformantNext ==
  ASSUME TypeOK, WarehouseConformant, [Next]_vars
  PROVE  WarehouseConformant'
<1> USE IngestionAssumption, FullDispatchType
    DEF TypeOK, WarehouseConformant, Copyable, Conformant, GatePasses,
        disk, db, reqs, Goto, Leave, NoRows
<1>1. ASSUME NEW r \in Requests, Upload(r) PROVE WarehouseConformant'
  BY <1>1 DEF Upload, Accept, Given
<1>2. ASSUME NEW r \in Requests, LoadSample(r) PROVE WarehouseConformant'
  BY <1>2 DEF LoadSample, Accept, Given
<1>3. ASSUME NEW r \in Requests, Remove(r) PROVE WarehouseConformant'
  BY <1>3 DEF Remove, Accept, Asked
<1>4. ASSUME NEW r \in Requests, Add(r) PROVE WarehouseConformant'
  BY <1>4 DEF Add, Accept, Asked
<1>5. ASSUME NEW r \in Requests, CheckRegistered(r) PROVE WarehouseConformant'
  BY <1>5 DEF CheckRegistered
<1>6. ASSUME NEW r \in Requests, Register(r) PROVE WarehouseConformant'
  BY <1>6 DEF Register
<1>7. ASSUME NEW r \in Requests, TakeIngestLock(r) PROVE WarehouseConformant'
  BY <1>7 DEF TakeIngestLock
<1>8. ASSUME NEW r \in Requests, OpenInboxFile(r) PROVE WarehouseConformant'
  BY <1>8 DEF OpenInboxFile
<1>9. ASSUME NEW r \in Requests, WriteInboxFile(r) PROVE WarehouseConformant'
  BY <1>9 DEF WriteInboxFile
<1>10. ASSUME NEW r \in Requests, DispatchSource(r) PROVE WarehouseConformant'
  BY <1>10 DEF DispatchSource
<1>11. ASSUME NEW r \in Requests, LoadPartition(r) PROVE WarehouseConformant'
  BY <1>11 DEF LoadPartition, Replaced
<1>12. ASSUME NEW r \in Requests, RejectUpload(r) PROVE WarehouseConformant'
  BY <1>12 DEF RejectUpload, Rejected
<1>13. ASSUME NEW r \in Requests, LoadRaises(r) PROVE WarehouseConformant'
  BY <1>13 DEF LoadRaises
<1>14. ASSUME NEW r \in Requests, Acknowledge(r) PROVE WarehouseConformant'
  BY <1>14 DEF Acknowledge
<1>15. ASSUME NEW r \in Requests, QueryCosts(r) PROVE WarehouseConformant'
  BY <1>15 DEF QueryCosts
<1>16. ASSUME NEW r \in Requests, OpenCombined(r) PROVE WarehouseConformant'
  <2>1. CASE Goto(r, "openComb", "writeComb")
    BY <1>16, <2>1 DEF OpenCombined
  <2>2. CASE Goto(r, "openFull", "writeFull")
    BY <1>16, <2>2 DEF OpenCombined
  <2> QED
    BY <1>16, <2>1, <2>2 DEF OpenCombined
<1>17. ASSUME NEW r \in Requests, ExportCombined(r) PROVE WarehouseConformant'
  BY <1>17 DEF ExportCombined
<1>18. ASSUME NEW r \in Requests, BuildJoin(r) PROVE WarehouseConformant'
  BY <1>18 DEF BuildJoin
<1>19. ASSUME NEW r \in Requests, OpenJoinCsv(r) PROVE WarehouseConformant'
  BY <1>19 DEF OpenJoinCsv
<1>20. ASSUME NEW r \in Requests, WriteJoinCsv(r) PROVE WarehouseConformant'
  BY <1>20 DEF WriteJoinCsv
<1>21. ASSUME NEW r \in Requests, StageJoin(r) PROVE WarehouseConformant'
  BY <1>21 DEF StageJoin
<1>22. ASSUME NEW r \in Requests, CommitJoin(r) PROVE WarehouseConformant'
  BY <1>22 DEF CommitJoin
<1>23. ASSUME NEW r \in Requests, Deregister(r) PROVE WarehouseConformant'
  BY <1>23 DEF Deregister
<1>24. ASSUME NEW r \in Requests, DeletePartition(r) PROVE WarehouseConformant'
  BY <1>24 DEF DeletePartition
<1>25. ASSUME NEW r \in Requests, UpsertSource(r) PROVE WarehouseConformant'
  BY <1>25 DEF UpsertSource
<1>26. ASSUME NEW r \in Requests, Redispatch(r) PROVE WarehouseConformant'
  BY <1>26 DEF Redispatch
<1>27. ASSUME NEW r \in Requests, WriteDispatch(r) PROVE WarehouseConformant'
  BY <1>27 DEF WriteDispatch
<1>28. ASSUME NEW r \in Requests, DatabaseFails(r) PROVE WarehouseConformant'
  BY <1>28 DEF DatabaseFails
<1>29. ASSUME NEW r \in Requests, WorkerDies(r) PROVE WarehouseConformant'
  BY <1>29 DEF WorkerDies
<1>30. ASSUME Crash PROVE WarehouseConformant'
  BY <1>30 DEF Crash
<1>31. ASSUME ApplySchema PROVE WarehouseConformant'
  BY <1>31 DEF ApplySchema
<1>32. ASSUME Seed PROVE WarehouseConformant'
  BY <1>32 DEF Seed, SeedLoads, SeedFails
<1>33. ASSUME UNCHANGED vars PROVE WarehouseConformant'
  BY <1>33 DEF vars
<1> QED
  BY <1>1, <1>2, <1>3, <1>4, <1>5, <1>6, <1>7, <1>8, <1>9, <1>10, <1>11, <1>12, <1>13,
     <1>14, <1>15, <1>16, <1>17, <1>18, <1>19, <1>20, <1>21, <1>22, <1>23, <1>24,
     <1>25, <1>26, <1>27, <1>28, <1>29, <1>30, <1>31, <1>32, <1>33
  DEF Next, Arrive, Handle, Restart

-----------------------------------------------------------------------------

\* The first boot leaves no handler, and no rows but those of the shipped exports.
LEMMA IngestInit == Init => IngestInv
<1> SUFFICES ASSUME Init PROVE IngestInv
  OBVIOUS
<1>1. TypeOK
  BY TypeInit
<1>2. \A r \in Requests : pc[r] = "idle" /\ job[r].op # "upload"
  BY DEF Init, NoJob
<1>3. LockHeld /\ RestartIsQuiet /\ OwnFileInInbox /\ WholeInbox /\ NoLostUpload
  BY <1>2 DEF Init, LockHeld, RestartIsQuiet, OwnFileInInbox, WholeInbox, NoLostUpload,
              IsUpload, Ingesting
<1>4. PlainRegistered
  BY <1>2 DEF Init, PlainRegistered, Plain, IsUpload
<1>5. WarehouseConformant
  BY IngestionAssumption DEF Init, WarehouseConformant, Copyable, Conformant
<1> QED
  BY <1>1, <1>3, <1>4, <1>5 DEF IngestInv

LEMMA IngestNext == IngestInv /\ [Next]_vars => IngestInv'
BY TypeNext, LockHeldNext, RestartIsQuietNext, OwnFileInInboxNext, PlainRegisteredNext,
   WholeInboxNext, NoLostUploadNext, WarehouseConformantNext
DEF IngestInv

\* IngestInv is inductive: it holds in every state of every behaviour.
THEOREM IngestInvariant == Spec => []IngestInv
<1> QED
  BY IngestInit, IngestNext, PTL DEF Spec

\* Two uploads of one source are never both inside the critical section that
\* _source_ingest_lock guards, for any number of requests, faults and restarts.
THEOREM MutualExclusion == Spec => []IngestMutex
<1>1. IngestInv => IngestMutex
  BY LockIsMutual DEF IngestInv
<1> QED
  BY <1>1, IngestInvariant, PTL

\* Between its dispatch and its answer an upload's rows are the whole inbox of its
\* source: _ingest_upload never loads a slice that another upload has outdated.
THEOREM UploadSeesWholeInbox == Spec => []WholeInbox
<1>1. IngestInv => WholeInbox
  BY DEF IngestInv
<1> QED
  BY <1>1, IngestInvariant, PTL

\* What load_source committed for a plain source stays its partition until the
\* request is answered: no concurrent upload's load is lost.
THEOREM UploadsAreKept == Spec => []NoLostUpload
<1>1. IngestInv => NoLostUpload
  BY DEF IngestInv
<1> QED
  BY <1>1, IngestInvariant, PTL

\* No interleaving of loads, rejections, crashes and re-seeds commits a row that
\* COPY refuses or the conformance gate condemns.
THEOREM GateHolds == Spec => []WarehouseConformant
<1>1. IngestInv => WarehouseConformant
  BY DEF IngestInv
<1> QED
  BY <1>1, IngestInvariant, PTL

\* If discover() listed every name the router accepts, an upload of a plain source
\* that is answered ok would always have its rows in the partition: the difference
\* in letter case between the two is the only way to lose them.
THEOREM AcknowledgedLoaded ==
  ASSUME HiddenNames = {}
  PROVE  Spec => []AcknowledgedIsLoaded
<1>1. ASSUME IngestInv, NEW r \in Requests, pc[r] = "ack", job[r].src \in Plain
      PROVE  RowsOf(job[r].body) \subseteq costs[job[r].src]
  <2>1. IsUpload(r)
    BY <1>1 DEF IngestInv, TypeOK, JobFits, UploadPlaces
  <2>2. costs[job[r].src] = InboxRows(job[r].src)
    BY <1>1, <2>1 DEF IngestInv, NoLostUpload, Loaded
  <2>3. inbox[job[r].src][job[r].name] = job[r].body
    BY <1>1, <2>1 DEF IngestInv, OwnFileInInbox, Dispatched, Loaded
  <2>4. job[r].name \in Names /\ job[r].body \in Bodies
    BY <1>1, <2>1 DEF IngestInv, TypeOK, Job, NoJob, IsUpload, Routes
  <2>5. job[r].body \in Exports(job[r].src)
    BY <2>3, <2>4, IngestionAssumption, HiddenNames = {} DEF Exports
  <2> QED
    BY <2>2, <2>5 DEF RowsOf, InboxRows
<1>2. IngestInv => AcknowledgedIsLoaded
  BY <1>1 DEF AcknowledgedIsLoaded
<1> QED
  BY <1>2, IngestInvariant, PTL

-----------------------------------------------------------------------------

\* An upload to an id registered otherwise dispatches the export, or nothing.
DispFits ==
  \A r \in Requests :
    IsUpload(r) /\ pc[r] \in Dispatched /\ seen[r] # "upload" => disp[r] \in {{Export}, {}}

\* One handler moves: to where it holds no rows, on with the rows it has, or from a
\* dispatch that fits.
LEMMA HandlerKeepsDisp ==
  ASSUME DispFits, NEW r \in Requests,
         \A q \in Requests \ {r} : /\ pc'[q] = pc[q] /\ job'[q] = job[q]
                                   /\ seen'[q] = seen[q] /\ disp'[q] = disp[q],
         \/ pc'[r] \notin Dispatched
         \/ /\ pc[r] \in Dispatched
            /\ job'[r] = job[r] /\ seen'[r] = seen[r] /\ disp'[r] = disp[r]
         \/ seen'[r] # "upload" => disp'[r] \in {{Export}, {}}
  PROVE  DispFits'
BY DEF DispFits, IsUpload

LEMMA DispFitsNext ==
  ASSUME TypeOK, DispFits, [Next]_vars
  PROVE  DispFits'
<1>t. /\ DOMAIN pc = Requests /\ DOMAIN job = Requests
      /\ DOMAIN seen = Requests /\ DOMAIN disp = Requests
      /\ \A r \in Requests : pc[r] # "idle" => job[r].src \in Sources
  <2>1. \A r \in Requests : job[r] \in Job /\ JobFits(r)
    BY DEF TypeOK
  <2>2. \A r \in Requests : pc[r] # "idle" => job[r].src \in Sources
    BY <2>1 DEF Job, JobFits
  <2> QED
    BY <2>2 DEF TypeOK
<1>d. Dispatched = {"query", "openComb", "writeComb", "build", "openJoin", "writeJoin",
                    "stage", "commit", "ack", "load"}
  BY DEF Dispatched, Loaded, Rebuilding
<1> USE DEF disk, db, reqs, Goto
<1>1. ASSUME NEW r \in Requests, Arrive(r) PROVE DispFits'
  <2>1. ASSUME NEW j, NEW place \in {"check", "deregister", "upsert"}, Accept(r, j, place)
        PROVE  DispFits'
    <3>1. /\ pc' = [pc EXCEPT ![r] = place] /\ job' = [job EXCEPT ![r] = j]
          /\ UNCHANGED <<seen, disp>>
      BY <2>1 DEF Accept
    <3> QED
      BY <1>t, <1>d, <3>1, HandlerKeepsDisp
  <2> QED
    BY <1>1, <2>1 DEF Arrive, Upload, LoadSample, Remove, Add
<1>2. ASSUME NEW r \in Requests, DispatchSource(r) PROVE DispFits'
  <2>1. /\ pc[r] = "dispatch" /\ pc' = [pc EXCEPT ![r] = "load"] /\ UNCHANGED job
        /\ seen' = [seen EXCEPT ![r] = registry[job[r].src]]
        /\ disp' = [disp EXCEPT ![r] = DispatchRows(job[r].src)]
    BY <1>2 DEF DispatchSource
  <2>2. registry[job[r].src] \in {"absent", "upload", "file"}
    BY <1>t, <2>1 DEF TypeOK
  <2>3. registry[job[r].src] # "upload" => DispatchRows(job[r].src) \in {{Export}, {}}
    BY <2>2 DEF DispatchRows, DispatchErrors
  <2> QED
    BY <1>t, <2>1, <2>3, HandlerKeepsDisp
<1>3. ASSUME NEW r \in Requests,
             \/ CheckRegistered(r) \/ Register(r) \/ TakeIngestLock(r)
             \/ OpenInboxFile(r) \/ WriteInboxFile(r)
             \/ Deregister(r) \/ DeletePartition(r) \/ UpsertSource(r) \/ Redispatch(r)
             \/ OpenCombined(r) /\ pc[r] = "openFull"
      PROVE  DispFits'
  <2>1. /\ pc[r] \notin Dispatched /\ UNCHANGED <<job, seen, disp>>
        /\ \E place \in Places : pc' = [pc EXCEPT ![r] = place]
                                   /\ (place \in Dispatched => pc[r] = "delete")
    BY <1>3, <1>d DEF CheckRegistered, Register, TakeIngestLock, OpenInboxFile, WriteInboxFile,
       Deregister, DeletePartition, UpsertSource, Redispatch, OpenCombined,
       Places, UploadPlaces, Rebuilding, RoutePlaces
  <2>2. CASE pc'[r] \notin Dispatched
    BY <1>t, <2>1, <2>2, HandlerKeepsDisp
  <2>3. CASE pc[r] = "delete"
    <3>1. ~IsUpload(r)
      BY <2>3 DEF TypeOK, JobFits, IsUpload
    <3>2. ~IsUpload(r)' /\ \A q \in Requests \ {r} : pc'[q] = pc[q]
      BY <1>t, <2>1, <3>1 DEF IsUpload
    <3> QED
      BY <2>1, <3>2 DEF DispFits, IsUpload
  <2> QED
    BY <1>t, <2>1, <2>2, <2>3
<1>4. ASSUME NEW r \in Requests, Leave(r) PROVE DispFits'
  <2>1. /\ pc' = [pc EXCEPT ![r] = "idle"] /\ job' = [job EXCEPT ![r] = NoJob]
        /\ seen' = [seen EXCEPT ![r] = "absent"] /\ disp' = [disp EXCEPT ![r] = {}]
    BY <1>4 DEF Leave
  <2> QED
    BY <1>t, <2>1, HandlerKeepsDisp
<1>5. ASSUME NEW r \in Requests,
             \/ RejectUpload(r) \/ LoadRaises(r) \/ Acknowledge(r) \/ WriteDispatch(r)
             \/ DatabaseFails(r) \/ WorkerDies(r)
      PROVE  Leave(r)
  BY <1>5 DEF RejectUpload, LoadRaises, Acknowledge, WriteDispatch, DatabaseFails, WorkerDies
<1>6. ASSUME NEW r \in Requests,
             \/ LoadPartition(r) \/ QueryCosts(r) \/ ExportCombined(r) \/ BuildJoin(r)
             \/ OpenJoinCsv(r) \/ WriteJoinCsv(r) \/ StageJoin(r) \/ CommitJoin(r)
             \/ OpenCombined(r) /\ pc[r] # "openFull"
      PROVE  DispFits'
  <2>1. /\ pc[r] \in Dispatched /\ UNCHANGED <<job, seen, disp>>
        /\ \E place : pc' = [pc EXCEPT ![r] = place]
    BY <1>6, <1>d DEF LoadPartition, QueryCosts, OpenCombined, ExportCombined, BuildJoin,
       OpenJoinCsv, WriteJoinCsv, StageJoin, CommitJoin
  <2> QED
    BY <1>t, <2>1, HandlerKeepsDisp
<1>7. CASE Crash
  BY <1>7, <1>d DEF Crash, DispFits
<1>8. CASE Restart \/ UNCHANGED vars
  <2>1. UNCHANGED <<pc, job, seen, disp>>
    BY <1>8 DEF Restart, ApplySchema, Seed, vars
  <2> QED
    BY <2>1 DEF DispFits, IsUpload
<1> QED
  BY <1>1, <1>2, <1>3, <1>4, <1>5, <1>6, <1>7, <1>8 DEF Next, Handle

\* What the two specifications say of an inbox and of what may be loaded is one thing.
LEMMA AbstractWhole ==
  ASSUME NEW s \in Sources
  PROVE  W!Whole(s) = {InboxRows(s), {Export}, {}}
BY IngestionAssumption DEF W!Whole, W!InboxOf, InboxRows, Exports

LEMMA AbstractLoadable ==
  ASSUME NEW rows \in SUBSET RowSet, Copyable(rows), Conformant(rows)
  PROVE  rows \subseteq RowSet \ (DbRejected \cup NonConformant)
BY DEF Copyable, Conformant

\* A commit of one partition.
LEMMA ReplaceImplements ==
  ASSUME NEW s \in Sources, NEW rows \in SUBSET RowSet,
         rows \in {InboxRows(s), {Export}, {}}, Copyable(rows), Conformant(rows),
         costs' = [costs EXCEPT ![s] = rows], inbox' = inbox
  PROVE  W!Next
<1>1. W!Replace(s)
  BY AbstractWhole, AbstractLoadable DEF W!Replace
<1> QED
  BY <1>1 DEF W!Next

\* Each step of the pipeline is a step of the abstract warehouse, or none.
LEMMA StepImplements ==
  ASSUME IngestInv, DispFits, [Next]_vars
  PROVE  [W!Next]_(W!vars)
<1> USE DEF disk, db, reqs
<1>t. /\ TypeOK /\ WholeInbox
      /\ \A r \in Requests : pc[r] # "idle" => job[r].src \in Sources
  <2>1. TypeOK /\ WholeInbox
    BY DEF IngestInv
  <2>2. \A r \in Requests : job[r] \in Job /\ JobFits(r)
    BY <2>1 DEF TypeOK
  <2> QED
    BY <2>1, <2>2 DEF Job, JobFits
<1>w. UNCHANGED <<inbox, costs>> => UNCHANGED W!vars
  BY DEF W!vars
<1>1. ASSUME NEW r \in Requests, LoadPartition(r) PROVE W!Next
  <2> DEFINE s == job[r].src
  <2>1. pc[r] = "load" /\ Copyable(disp[r]) /\ GatePasses(Replaced(r))
        /\ costs' = Replaced(r) /\ inbox' = inbox
    BY <1>1 DEF LoadPartition, Goto
  <2>2. s \in Sources /\ IsUpload(r) /\ disp[r] \in SUBSET RowSet
    BY <1>t, <2>1 DEF TypeOK, JobFits, UploadPlaces
  <2>3. Conformant(disp[r])
    BY <1>t, <2>1, <2>2 DEF GatePasses, Replaced, TypeOK
  <2>4. disp[r] \in {InboxRows(s), {Export}, {}}
    BY <1>t, <2>1, <2>2 DEF WholeInbox, DispFits, Dispatched
  <2> QED
    BY <2>1, <2>2, <2>3, <2>4, ReplaceImplements DEF Replaced
<1>2. ASSUME NEW r \in Requests, DeletePartition(r) PROVE W!Next
  <2>1. pc[r] = "delete" /\ costs' = [costs EXCEPT ![job[r].src] = {}] /\ inbox' = inbox
    BY <1>2 DEF DeletePartition, Goto
  <2>2. job[r].src \in Sources
    BY <1>t, <2>1
  <2>3. Copyable({}) /\ Conformant({}) /\ {} \in SUBSET RowSet
    BY DEF Copyable, Conformant
  <2> QED
    BY <2>1, <2>2, <2>3, ReplaceImplements
<1>3. ASSUME NEW r \in Requests, OpenInboxFile(r) \/ WriteInboxFile(r) \/ RejectUpload(r)
      PROVE  W!Next
  <2>1. pc[r] \in UploadPlaces /\ costs' = costs
        /\ \E b \in {Blank, NoFile, job[r].body} :
             inbox' = [inbox EXCEPT ![job[r].src][job[r].name] = b]
    BY <1>3 DEF OpenInboxFile, WriteInboxFile, RejectUpload, Rejected, Goto, UploadPlaces
  <2>2. job[r].src \in Sources /\ job[r].name \in Names /\ job[r].body \in Bodies
    <3>1. job[r] \in Job /\ IsUpload(r)
      BY <1>t, <2>1 DEF TypeOK, JobFits
    <3> QED
      BY <3>1 DEF Job, NoJob, IsUpload, Routes
  <2>3. W!Submit(job[r].src, job[r].name)
    BY <2>1, <2>2 DEF W!Submit
  <2> QED
    BY <2>2, <2>3 DEF W!Next
<1>4. ASSUME ApplySchema PROVE W!Next
  <2>1. costs' = NoRows /\ inbox' = inbox
    BY <1>4 DEF ApplySchema
  <2>2. W!Rebuild
    BY <2>1, AbstractWhole DEF W!Rebuild, NoRows
  <2> QED
    BY <2>2 DEF W!Next
<1>5. ASSUME Seed PROVE [W!Next]_(W!vars)
  <2>1. CASE SeedLoads /\ (\A s \in Sources : Copyable(FullDispatch[s])) /\ GatePasses(FullDispatch)
    <3>1. costs' = FullDispatch /\ inbox' = inbox
      BY <1>5, <2>1 DEF Seed, SeedLoads
    <3>2. FullDispatch \in [Sources -> SUBSET RowSet]
      BY <1>t, FullDispatchType
    <3>3. ASSUME NEW s \in Sources
          PROVE  /\ FullDispatch[s] \in W!Whole(s)
                 /\ FullDispatch[s] \subseteq RowSet \ (DbRejected \cup NonConformant)
      <4>1. DispatchRows(s) \in {InboxRows(s), {Export}, {}}
        BY DEF DispatchRows
      <4>2. Copyable(FullDispatch[s]) /\ Conformant(FullDispatch[s])
        BY <2>1 DEF GatePasses
      <4> QED
        BY <3>2, <4>1, <4>2, AbstractWhole, AbstractLoadable DEF FullDispatch
    <3>4. costs' \in [Sources -> SUBSET (RowSet \ (DbRejected \cup NonConformant))]
      BY <3>1, <3>2, <3>3
    <3>5. W!Rebuild
      BY <3>1, <3>3, <3>4 DEF W!Rebuild
    <3> QED
      BY <3>5 DEF W!Next
  <2>2. CASE SeedFails
    BY <1>5, <2>2, <1>w DEF Seed, SeedFails
  <2> QED
    BY <1>5, <2>1, <2>2 DEF Seed
<1>6. ASSUME NEW r \in Requests, Arrive(r) PROVE UNCHANGED <<inbox, costs>>
  BY <1>6 DEF Arrive, Upload, LoadSample, Remove, Add, Accept
<1>7. ASSUME NEW r \in Requests,
             \/ CheckRegistered(r) \/ Register(r) \/ TakeIngestLock(r) \/ DispatchSource(r)
             \/ LoadRaises(r) \/ Acknowledge(r)
             \/ QueryCosts(r) \/ OpenCombined(r) \/ ExportCombined(r) \/ BuildJoin(r)
             \/ OpenJoinCsv(r) \/ WriteJoinCsv(r) \/ StageJoin(r) \/ CommitJoin(r)
             \/ Deregister(r) \/ UpsertSource(r) \/ Redispatch(r) \/ WriteDispatch(r)
             \/ DatabaseFails(r) \/ WorkerDies(r)
      PROVE  UNCHANGED <<inbox, costs>>
  BY <1>7 DEF CheckRegistered, Register, TakeIngestLock, DispatchSource, LoadRaises, Acknowledge,
     QueryCosts, OpenCombined, ExportCombined, BuildJoin, OpenJoinCsv, WriteJoinCsv, StageJoin,
     CommitJoin, Deregister, UpsertSource, Redispatch, WriteDispatch, DatabaseFails, WorkerDies
<1>8. Crash \/ UNCHANGED vars => UNCHANGED <<inbox, costs>>
  BY DEF Crash, vars
<1> QED
  BY <1>w, <1>1, <1>2, <1>3, <1>4, <1>5, <1>6, <1>7, <1>8 DEF Next, Handle, Restart

\* The pipeline implements the warehouse it promises: whatever locks, handlers, kills
\* and re-seeds do, focus_costs only ever changes by whole partitions.
THEOREM PipelineImplementsWarehouse == Spec => ImplementsWarehouse
<1>1. Init => W!Init /\ DispFits
  <2> SUFFICES ASSUME Init PROVE W!Init /\ DispFits
    OBVIOUS
  <2>1. W!Init
    BY DEF Init, W!Init
  <2>2. DispFits
    BY DEF Init, DispFits, Dispatched, Loaded, Rebuilding
  <2> QED
    BY <2>1, <2>2
<1>2. IngestInv /\ DispFits /\ [Next]_vars => DispFits'
  BY DispFitsNext DEF IngestInv
<1>3. IngestInv /\ DispFits /\ [Next]_vars => [W!Next]_(W!vars)
  BY StepImplements
<1> QED
  BY <1>1, <1>2, <1>3, IngestInvariant, PTL DEF Spec, ImplementsWarehouse, W!Spec

-----------------------------------------------------------------------------

(***************************************************************************)
(* At rest.  A partition can only be seen to differ from its inbox while a *)
(* file of it is being written; when that file is accepted the partition   *)
(* is the inbox again, and when it is rejected the inbox is again what the *)
(* partition was loaded from.                                              *)
(***************************************************************************)

\* Handlers are only ever interrupted by the end of the container.
NoHalfway == Faults \subseteq {"crash"}

\* Clients of the plain sources name their files as dated exports are named: a name is
\* used for one content, which COPY takes, and which normalize() takes too unless the
\* container never dies.
Dated ==
  /\ NoHalfway
  /\ \A u, v \in Submissions : u[1] \in Plain /\ u[1] = v[1] /\ u[2] = v[2] => u[3] = v[3]
  /\ \A u \in Submissions : u[1] \in Plain =>
       u[3] \notin DbRejected /\ (u[3] \in Unparsable => Faults = {})

\* Uploads are the ones that clients submit, and only a crash ends the service.
Submitted ==
  /\ phase # "up" => "crash" \in Faults
  /\ \A r \in Requests :
       IsUpload(r) => <<job[r].src, job[r].name, job[r].body>> \in Submissions

\* The rows of an inbox, those of its other files, and those that one file adds.
BoxRows(box)     == {box[m] : m \in Names \ HiddenNames} \cap (Bodies \ RowLess)
OtherRows(box, n) == {box[m] : m \in (Names \ HiddenNames) \ {n}} \cap (Bodies \ RowLess)
Own(n, b)        == IF n \in HiddenNames THEN {} ELSE RowsOf(b)

\* Between the truncation of a file of s and the commit of its rows, or its rejection.
Writing(r, s) ==
  IsUpload(r) /\ job[r].src = s /\ pc[r] \in {"fill", "dispatch", "load"}

\* A file of s has the content of its name, and a ragged one is there only until its
\* dispatch has raised.
FilesDated(s) ==
  \A n \in Names :
    /\ inbox[s][n] \in Bodies => <<s, n, inbox[s][n]>> \in Submissions
    /\ inbox[s][n] \in Unparsable /\ n \notin HiddenNames =>
         \E r \in Requests : Writing(r, s) /\ pc[r] = "dispatch" /\ job[r].name = n

\* The partition is the inbox, but for the file being written: of that one it has the
\* rows that it had before, or none.
PartitionFollows(s) ==
  /\ costs[s] \cap Unparsable = {}
  /\ registry[s] = "absent" => BoxRows(inbox[s]) = {}
  /\ phase = "up" =>
       /\ (\A r \in Requests : ~Writing(r, s)) => costs[s] = BoxRows(inbox[s])
       /\ \A r \in Requests : Writing(r, s) =>
            costs[s] \in {OtherRows(inbox[s], job[r].name),
                          OtherRows(inbox[s], job[r].name) \cup Own(job[r].name, job[r].body)}

AtRestInv == Submitted /\ \A s \in Plain : FilesDated(s) /\ PartitionFollows(s)

LEMMA BoxSplit ==
  ASSUME NEW box, NEW n \in Names
  PROVE  BoxRows(box) = OtherRows(box, n) \cup Own(n, box[n])
BY IngestionAssumption DEF BoxRows, OtherRows, Own, RowsOf

LEMMA BoxChange ==
  ASSUME NEW box, DOMAIN box = Names, NEW n \in Names, NEW b
  PROVE  /\ OtherRows([box EXCEPT ![n] = b], n) = OtherRows(box, n)
         /\ [box EXCEPT ![n] = b][n] = b
         /\ \A m \in Names \ {n} : [box EXCEPT ![n] = b][m] = box[m]
BY DEF OtherRows

LEMMA InboxIsBox == \A s \in Sources : InboxRows(s) = BoxRows(inbox[s])
BY IngestionAssumption DEF InboxRows, Exports, BoxRows

\* An upload under way is of a source, a name and a body.
LEMMA UploadJob ==
  ASSUME TypeOK, NEW r \in Requests, IsUpload(r)
  PROVE  job[r].src \in Sources /\ job[r].name \in Names /\ job[r].body \in Bodies
<1>1. job[r] \in Job
  BY DEF TypeOK
<1> QED
  BY <1>1 DEF Job, NoJob, IsUpload, Routes

\* What does not concern a source leaves it as it was.
LEMMA Untouched ==
  ASSUME NEW s \in Plain, FilesDated(s), PartitionFollows(s),
         inbox'[s] = inbox[s], costs'[s] = costs[s],
         registry'[s] \in {registry[s], "upload"}, phase' = phase \/ phase' # "up",
         \A r \in Requests : Writing(r, s) \/ Writing(r, s)' => pc'[r] = pc[r] /\ job'[r] = job[r]
  PROVE  FilesDated(s)' /\ PartitionFollows(s)'
<1>1. \A r \in Requests : Writing(r, s)' <=> Writing(r, s)
  BY DEF Writing, IsUpload
<1>2. FilesDated(s)'
  BY <1>1 DEF FilesDated
<1>3. PartitionFollows(s)'
  BY <1>1 DEF PartitionFollows
<1> QED
  BY <1>2, <1>3

\* A handler that is not at work on the inbox of s, before or after its step.
LEMMA Elsewhere ==
  ASSUME TypeOK, NEW s \in Plain, FilesDated(s), PartitionFollows(s), NEW r \in Requests,
         NEW p, pc' = [pc EXCEPT ![r] = p], NEW j, job' = [job EXCEPT ![r] = j],
         inbox'[s] = inbox[s], costs'[s] = costs[s],
         registry'[s] \in {registry[s], "upload"}, phase' = phase,
         ~Writing(r, s), p \notin {"fill", "dispatch", "load"} \/ j.src # s
  PROVE  FilesDated(s)' /\ PartitionFollows(s)'
<1>1. /\ pc'[r] = p /\ job'[r] = j
      /\ \A q \in Requests \ {r} : pc'[q] = pc[q] /\ job'[q] = job[q]
  BY DEF TypeOK
<1>2. ~Writing(r, s)'
  BY <1>1 DEF Writing
<1>3. \A q \in Requests :
        Writing(q, s) \/ Writing(q, s)' => pc'[q] = pc[q] /\ job'[q] = job[q]
  BY <1>1, <1>2
<1> QED
  BY <1>3, Untouched

\* The upload that holds the lock of s is the only one at work there.
LEMMA WriterAlone ==
  ASSUME TypeOK, LockHeld, NEW r \in Requests, IsUpload(r), pc[r] \in Locked, NEW s, job[r].src = s
  PROVE  \A q \in Requests : Writing(q, s) => q = r
BY LockIsMutual DEF IngestMutex, Ingesting, Writing, Locked, Dispatched

-----------------------------------------------------------------------------

LEMMA OpenKeepsRest ==
  ASSUME IngestInv, Dated, AtRestInv, NEW s \in Plain, NEW r \in Requests,
         OpenInboxFile(r), job[r].src = s
  PROVE  FilesDated(s)' /\ PartitionFollows(s)'
<1>1. /\ pc[r] = "truncate" /\ pc' = [pc EXCEPT ![r] = "fill"]
      /\ inbox' = [inbox EXCEPT ![s][job[r].name] = Blank]
      /\ UNCHANGED <<phase, registry, costs, job>>
  BY DEF OpenInboxFile, Goto, disk, db
<1>2. /\ TypeOK /\ LockHeld /\ IsUpload(r) /\ s \in Sources
      /\ pc[r] \in Locked /\ phase = "up"
  BY <1>1 DEF IngestInv, TypeOK, JobFits, UploadPlaces, Locked, Plain, RestartIsQuiet
<1>3. PICK n \in Names : n = job[r].name
  BY <1>2, UploadJob
<1>4. PICK b \in Bodies : b = job[r].body
  BY <1>2, UploadJob
<1>5. \A q \in Requests : ~Writing(q, s)
  BY <1>1, <1>2, WriterAlone DEF Writing
<1>6. /\ pc'[r] = "fill" /\ \A q \in Requests \ {r} : pc'[q] = pc[q]
      /\ \A q \in Requests \ {r} : ~Writing(q, s)'
      /\ Writing(r, s)'
  BY <1>1, <1>2, <1>5 DEF TypeOK, Writing, IsUpload
<1>7. DOMAIN inbox = Sources /\ DOMAIN inbox[s] = Names
  BY <1>2 DEF TypeOK
<1>8. inbox'[s] = [inbox[s] EXCEPT ![n] = Blank]
  BY <1>1, <1>2, <1>3, <1>7
<1>9. /\ OtherRows(inbox'[s], n) = OtherRows(inbox[s], n)
      /\ inbox'[s][n] = Blank /\ \A m \in Names \ {n} : inbox'[s][m] = inbox[s][m]
  BY <1>7, <1>8, BoxChange
<1>10. Blank \notin Bodies /\ Unparsable \subseteq Bodies
  BY IngestionAssumption
<1>11. FilesDated(s) /\ PartitionFollows(s)
  BY DEF AtRestInv
<1>12. FilesDated(s)'
  BY <1>5, <1>9, <1>10, <1>11 DEF FilesDated
<1>13. costs[s] = OtherRows(inbox[s], n) \cup Own(n, inbox[s][n])
  BY <1>2, <1>5, <1>11, BoxSplit DEF PartitionFollows
<1>14. Own(n, inbox[s][n]) \in {{}, Own(n, b)}
  <2>1. CASE inbox[s][n] \notin Bodies
    BY <2>1 DEF Own, RowsOf
  <2>2. CASE inbox[s][n] \in Bodies
    <3>1. <<s, n, inbox[s][n]>> \in Submissions
      BY <1>11, <2>2 DEF FilesDated
    <3>2. <<s, n, b>> \in Submissions
      BY <1>2, <1>3, <1>4 DEF AtRestInv, Submitted
    <3>3. inbox[s][n] = b
      BY <3>1, <3>2 DEF Dated
    <3> QED
      BY <3>3
  <2> QED
    BY <2>1, <2>2
<1>15. costs[s] \in {OtherRows(inbox[s], n), OtherRows(inbox[s], n) \cup Own(n, b)}
  BY <1>13, <1>14
<1>16. BoxRows(inbox'[s]) = OtherRows(inbox[s], n)
  <2>1. BoxRows(inbox'[s]) = OtherRows(inbox'[s], n) \cup Own(n, inbox'[s][n])
    BY BoxSplit
  <2>2. Own(n, inbox'[s][n]) = {}
    BY <1>9, <1>10 DEF Own, RowsOf
  <2> QED
    BY <1>9, <2>1, <2>2
<1>17. registry[s] # "absent"
  BY <1>1, <1>2 DEF IngestInv, PlainRegistered
<1>18. PartitionFollows(s)'
  BY <1>1, <1>3, <1>4, <1>6, <1>9, <1>11, <1>15, <1>17 DEF PartitionFollows
<1> QED
  BY <1>12, <1>18

LEMMA FillKeepsRest ==
  ASSUME IngestInv, Dated, AtRestInv, NEW s \in Plain, NEW r \in Requests,
         WriteInboxFile(r), job[r].src = s
  PROVE  FilesDated(s)' /\ PartitionFollows(s)'
<1>1. /\ pc[r] = "fill" /\ pc' = [pc EXCEPT ![r] = "dispatch"]
      /\ inbox' = [inbox EXCEPT ![s][job[r].name] = job[r].body]
      /\ UNCHANGED <<phase, registry, costs, job>>
  BY DEF WriteInboxFile, Goto, disk, db
<1>2. /\ TypeOK /\ LockHeld /\ IsUpload(r) /\ s \in Sources
      /\ pc[r] \in Locked /\ phase = "up"
  BY <1>1 DEF IngestInv, TypeOK, JobFits, UploadPlaces, Locked, Plain, RestartIsQuiet
<1>3. PICK n \in Names : n = job[r].name
  BY <1>2, UploadJob
<1>4. PICK b \in Bodies : b = job[r].body
  BY <1>2, UploadJob
<1>5. \A q \in Requests \ {r} : ~Writing(q, s)
  BY <1>2, WriterAlone
<1>6. /\ pc'[r] = "dispatch" /\ \A q \in Requests \ {r} : pc'[q] = pc[q]
      /\ \A q \in Requests \ {r} : ~Writing(q, s)'
      /\ Writing(r, s) /\ Writing(r, s)'
  BY <1>1, <1>2, <1>5 DEF TypeOK, Writing, IsUpload
<1>7. DOMAIN inbox = Sources /\ DOMAIN inbox[s] = Names
  BY <1>2 DEF TypeOK
<1>8. inbox'[s] = [inbox[s] EXCEPT ![n] = b]
  BY <1>1, <1>2, <1>3, <1>4, <1>7
<1>9. /\ OtherRows(inbox'[s], n) = OtherRows(inbox[s], n)
      /\ inbox'[s][n] = b /\ \A m \in Names \ {n} : inbox'[s][m] = inbox[s][m]
  BY <1>7, <1>8, BoxChange
<1>10. FilesDated(s) /\ PartitionFollows(s)
  BY DEF AtRestInv
<1>11. FilesDated(s)'
  <2>1. <<s, n, b>> \in Submissions
    BY <1>2, <1>3, <1>4 DEF AtRestInv, Submitted
  <2>2. ASSUME NEW m \in Names \ {n}
        PROVE  ~(inbox[s][m] \in Unparsable /\ m \notin HiddenNames)
    BY <1>1, <1>5 DEF AtRestInv, FilesDated
  <2>3. job'[r].name = n
    BY <1>1, <1>3
  <2> QED
    BY <1>6, <1>9, <1>10, <2>1, <2>2, <2>3 DEF FilesDated
<1>12. registry[s] # "absent"
  BY <1>1, <1>2 DEF IngestInv, PlainRegistered, Locked
<1>13. costs[s] \in {OtherRows(inbox[s], n), OtherRows(inbox[s], n) \cup Own(n, b)}
  BY <1>2, <1>3, <1>4, <1>6, <1>10 DEF PartitionFollows
<1>14. PartitionFollows(s)'
  BY <1>1, <1>3, <1>4, <1>6, <1>9, <1>10, <1>12, <1>13 DEF PartitionFollows
<1> QED
  BY <1>11, <1>14

\* What is listed in the inbox when its dispatch has not raised.
LEMMA DispatchKeepsRest ==
  ASSUME IngestInv, Dated, AtRestInv, NEW s \in Plain, NEW r \in Requests,
         DispatchSource(r), job[r].src = s
  PROVE  FilesDated(s)' /\ PartitionFollows(s)'
<1>1. /\ pc[r] = "dispatch" /\ pc' = [pc EXCEPT ![r] = "load"] /\ ~DispatchErrors(s)
      /\ UNCHANGED <<phase, registry, costs, inbox, job>>
  BY DEF DispatchSource, Goto, disk, db
<1>2. /\ TypeOK /\ LockHeld /\ IsUpload(r) /\ s \in Sources
      /\ pc[r] \in Locked /\ registry[s] = "upload"
  BY <1>1 DEF IngestInv, TypeOK, JobFits, UploadPlaces, Locked, Plain, PlainRegistered
<1>3. \A q \in Requests \ {r} : ~Writing(q, s)
  BY <1>2, WriterAlone
<1>4. \A q \in Requests : Writing(q, s)' <=> Writing(q, s)
  BY <1>1, <1>2 DEF TypeOK, Writing, IsUpload
<1>5. FilesDated(s) /\ PartitionFollows(s)
  BY DEF AtRestInv
<1>6. \A n \in Names \ HiddenNames : inbox[s][n] \notin Unparsable
  BY <1>1, <1>2, IngestionAssumption DEF DispatchErrors, Exports
<1>7. FilesDated(s)'
  BY <1>1, <1>5, <1>6 DEF FilesDated
<1>8. PartitionFollows(s)'
  BY <1>1, <1>4, <1>5 DEF PartitionFollows
<1> QED
  BY <1>7, <1>8

LEMMA LoadKeepsRest ==
  ASSUME IngestInv, Dated, AtRestInv, NEW s \in Plain, NEW r \in Requests,
         LoadPartition(r), job[r].src = s
  PROVE  FilesDated(s)' /\ PartitionFollows(s)'
<1>1. /\ pc[r] = "load" /\ pc' = [pc EXCEPT ![r] = "query"]
      /\ costs' = [costs EXCEPT ![s] = disp[r]]
      /\ UNCHANGED <<phase, registry, inbox, job>>
  BY DEF LoadPartition, Replaced, Goto, disk
<1>2. /\ TypeOK /\ LockHeld /\ IsUpload(r) /\ s \in Sources
      /\ pc[r] \in Locked /\ pc[r] \in Dispatched
  BY <1>1 DEF IngestInv, TypeOK, JobFits, UploadPlaces, Locked, Dispatched, Plain
<1>3. disp[r] = BoxRows(inbox[s]) /\ registry[s] = "upload"
  <2>1. seen[r] = "upload" /\ registry[s] = "upload"
    BY <1>2 DEF IngestInv, PlainRegistered
  <2>2. disp[r] = InboxRows(s)
    BY <1>2, <2>1 DEF IngestInv, WholeInbox
  <2> QED
    BY <1>2, <2>1, <2>2, InboxIsBox
<1>4. costs'[s] = BoxRows(inbox[s])
  BY <1>1, <1>2, <1>3 DEF TypeOK
<1>5. \A q \in Requests \ {r} : ~Writing(q, s)
  BY <1>2, WriterAlone
<1>6. \A q \in Requests : ~Writing(q, s)'
  BY <1>1, <1>2, <1>5 DEF TypeOK, Writing, IsUpload
<1>7. FilesDated(s)
  BY DEF AtRestInv
<1>8. \A n \in Names \ HiddenNames : inbox[s][n] \notin Unparsable
  BY <1>1, <1>5, <1>7 DEF FilesDated
<1>9. FilesDated(s)'
  BY <1>1, <1>7, <1>8 DEF FilesDated
<1>10. BoxRows(inbox[s]) \cap Unparsable = {}
  BY <1>8 DEF BoxRows
<1>11. PartitionFollows(s)'
  BY <1>1, <1>3, <1>4, <1>6, <1>10 DEF PartitionFollows
<1> QED
  BY <1>9, <1>11

\* A rejected file has no row in the partition, and is the one that is removed.
LEMMA RejectKeepsRest ==
  ASSUME IngestInv, Dated, AtRestInv, NEW s \in Plain, NEW r \in Requests,
         RejectUpload(r), job[r].src = s
  PROVE  FilesDated(s)' /\ PartitionFollows(s)'
<1>1. /\ pc' = [pc EXCEPT ![r] = "idle"] /\ job' = [job EXCEPT ![r] = NoJob]
      /\ inbox' = [inbox EXCEPT ![s][job[r].name] = NoFile]
      /\ UNCHANGED <<phase, registry, costs>>
  BY DEF RejectUpload, Leave, db
<1>2. \/ pc[r] = "dispatch" /\ DispatchErrors(s)
      \/ pc[r] = "load" /\ ~GatePasses(Replaced(r))
  BY DEF RejectUpload, Rejected
<1>3. /\ TypeOK /\ LockHeld /\ IsUpload(r) /\ s \in Sources
      /\ pc[r] \in Locked /\ phase = "up" /\ registry[s] = "upload"
  BY <1>2 DEF IngestInv, TypeOK, JobFits, UploadPlaces, Locked, Dispatched, Plain, RestartIsQuiet,
     PlainRegistered
<1>4. PICK n \in Names : n = job[r].name
  BY <1>3, UploadJob
<1>5. PICK b \in Bodies : b = job[r].body
  BY <1>3, UploadJob
<1>6. \A q \in Requests \ {r} : ~Writing(q, s)
  BY <1>3, WriterAlone
<1>7. Writing(r, s) /\ \A q \in Requests : ~Writing(q, s)'
  <2>1. Writing(r, s)
    BY <1>2, <1>3 DEF Writing
  <2>2. ~Writing(r, s)'
    BY <1>1, <1>3 DEF TypeOK, Writing
  <2>3. \A q \in Requests \ {r} : ~Writing(q, s)'
    BY <1>1, <1>3, <1>6 DEF TypeOK, Writing, IsUpload
  <2> QED
    BY <2>1, <2>2, <2>3
<1>8. DOMAIN inbox = Sources /\ DOMAIN inbox[s] = Names
  BY <1>3 DEF TypeOK
<1>9. inbox'[s] = [inbox[s] EXCEPT ![n] = NoFile]
  BY <1>1, <1>3, <1>4, <1>8
<1>10. /\ OtherRows(inbox'[s], n) = OtherRows(inbox[s], n)
       /\ inbox'[s][n] = NoFile /\ \A m \in Names \ {n} : inbox'[s][m] = inbox[s][m]
  BY <1>8, <1>9, BoxChange
<1>11. NoFile \notin Bodies /\ Unparsable \subseteq Bodies /\ NonConformant \subseteq Bodies
  BY IngestionAssumption
<1>12. FilesDated(s) /\ PartitionFollows(s)
  BY DEF AtRestInv
<1>13. inbox[s][n] = b
  BY <1>2, <1>3, <1>4, <1>5 DEF IngestInv, OwnFileInInbox, Dispatched
<1>14. \A m \in Names \ {n} : ~(inbox[s][m] \in Unparsable /\ m \notin HiddenNames)
  BY <1>4, <1>6, <1>12 DEF FilesDated
<1>15. FilesDated(s)'
  BY <1>10, <1>11, <1>12, <1>14 DEF FilesDated
<1>16. costs[s] \in {OtherRows(inbox[s], n), OtherRows(inbox[s], n) \cup Own(n, b)}
  BY <1>3, <1>4, <1>5, <1>7, <1>12 DEF PartitionFollows
<1>17. BoxRows(inbox[s]) = OtherRows(inbox[s], n) \cup Own(n, b)
  BY <1>13, BoxSplit
<1>18. costs[s] = OtherRows(inbox[s], n)
  <2>1. CASE pc[r] = "dispatch" /\ DispatchErrors(s)
    <3>1. \E m \in Names \ HiddenNames : inbox[s][m] \in Unparsable
      BY <2>1 DEF DispatchErrors, Exports
    <3>2. b \in Unparsable
      BY <1>13, <1>14, <3>1
    <3>3. Own(n, b) \cap costs[s] = {}
      BY <1>12, <3>2 DEF PartitionFollows, Own, RowsOf
    <3> QED
      BY <1>16, <3>3
  <2>2. CASE pc[r] = "load" /\ ~GatePasses(Replaced(r))
    <3>1. seen[r] = "upload" /\ disp[r] = InboxRows(s)
      BY <1>3, <2>2 DEF IngestInv, PlainRegistered, WholeInbox, Dispatched
    <3>2. disp[r] = BoxRows(inbox[s])
      BY <1>3, <3>1, InboxIsBox
    <3>3. \A t \in Sources : Conformant(costs[t])
      BY DEF IngestInv, WarehouseConformant
    <3>4. ~Conformant(disp[r])
      <4>1. \A t \in Sources : Replaced(r)[t] = IF t = s THEN disp[r] ELSE costs[t]
        BY <1>3 DEF Replaced, TypeOK
      <4> QED
        BY <2>2, <3>3, <4>1 DEF GatePasses
    <3>5. Conformant(OtherRows(inbox[s], n))
      BY <1>3, <1>16, <3>3 DEF Conformant
    <3>6. ~Conformant(Own(n, b))
      BY <1>17, <3>2, <3>4, <3>5 DEF Conformant
    <3>7. costs[s] # OtherRows(inbox[s], n) \cup Own(n, b)
      BY <1>3, <3>3, <3>6 DEF Conformant
    <3> QED
      BY <1>16, <3>7
  <2> QED
    BY <1>2, <2>1, <2>2
<1>19. BoxRows(inbox'[s]) = OtherRows(inbox[s], n)
  <2>1. BoxRows(inbox'[s]) = OtherRows(inbox'[s], n) \cup Own(n, inbox'[s][n])
    BY BoxSplit
  <2>2. Own(n, inbox'[s][n]) = {}
    BY <1>10, <1>11 DEF Own, RowsOf
  <2> QED
    BY <1>10, <2>1, <2>2
<1>20. PartitionFollows(s)'
  BY <1>1, <1>3, <1>7, <1>12, <1>18, <1>19 DEF PartitionFollows
<1> QED
  BY <1>15, <1>20

\* COPY takes what the clients of a plain source send.
LEMMA NothingRaises ==
  ASSUME IngestInv, Dated, AtRestInv, NEW r \in Requests, job[r].src \in Plain
  PROVE  ~LoadRaises(r)
<1> SUFFICES ASSUME pc[r] = "load", ~Copyable(disp[r]) PROVE FALSE
  BY DEF LoadRaises
<1> DEFINE s == job[r].src
<1>1. TypeOK /\ IsUpload(r) /\ s \in Sources
  BY DEF IngestInv, TypeOK, JobFits, UploadPlaces, Plain
<1>2. seen[r] = "upload" /\ disp[r] = InboxRows(s)
  BY <1>1 DEF IngestInv, PlainRegistered, WholeInbox, Dispatched
<1>3. disp[r] = BoxRows(inbox[s])
  BY <1>1, <1>2, InboxIsBox
<1>4. PICK n \in Names : inbox[s][n] \in DbRejected
  BY <1>3 DEF Copyable, BoxRows
<1>5. <<s, n, inbox[s][n]>> \in Submissions
  BY <1>4, IngestionAssumption DEF AtRestInv, FilesDated
<1> QED
  BY <1>4, <1>5 DEF Dated

\* A re-seed loads the inbox, in which it finds nothing that normalize() cannot read.
LEMMA SeedKeepsRest ==
  ASSUME IngestInv, Dated, AtRestInv, Seed, NEW s \in Plain
  PROVE  FilesDated(s)' /\ PartitionFollows(s)'
<1>1. /\ phase = "seed" /\ UNCHANGED <<registry, inbox, pc, job>>
      /\ \/ phase' = "up" /\ costs' = FullDispatch
         \/ phase' = "schema" /\ costs' = costs
  BY DEF Seed, SeedLoads, SeedFails, reqs, db
<1>2. FilesDated(s) /\ PartitionFollows(s) /\ s \in Sources
  BY DEF AtRestInv, Plain
<1>3. \A r \in Requests : Writing(r, s)' <=> Writing(r, s)
  BY <1>1 DEF Writing, IsUpload
<1>4. FilesDated(s)'
  BY <1>1, <1>2, <1>3 DEF FilesDated
<1>5. CASE phase' = "schema" /\ costs' = costs
  BY <1>1, <1>2, <1>4, <1>5 DEF PartitionFollows
<1>6. CASE phase' = "up" /\ costs' = FullDispatch
  <2>1. Faults # {} /\ \A r \in Requests : ~Writing(r, s)
    BY <1>1 DEF AtRestInv, Submitted, IngestInv, RestartIsQuiet, Writing
  <2>2. \A n \in Names : inbox[s][n] \notin Unparsable
    BY <1>2, <2>1, IngestionAssumption DEF FilesDated, Dated
  <2>3. ~DispatchErrors(s)
    BY <2>2 DEF DispatchErrors, Exports
  <2>4. registry[s] \in {"absent", "upload"}
    BY <1>2 DEF IngestInv, TypeOK, PlainRegistered
  <2>5. DispatchRows(s) = BoxRows(inbox[s])
    BY <1>2, <2>3, <2>4, InboxIsBox DEF DispatchRows, PartitionFollows
  <2>6. costs'[s] = BoxRows(inbox[s])
    BY <1>2, <1>6, <2>5 DEF FullDispatch
  <2>7. BoxRows(inbox[s]) \cap Unparsable = {}
    BY <2>2 DEF BoxRows
  <2> QED
    BY <1>1, <1>2, <1>3, <1>4, <2>1, <2>6, <2>7 DEF PartitionFollows
<1> QED
  BY <1>1, <1>4, <1>5, <1>6

\* A container that dies leaves files that normalize() can read, and no writer.
LEMMA CrashKeepsRest ==
  ASSUME IngestInv, Dated, AtRestInv, Crash, NEW s \in Plain
  PROVE  FilesDated(s)' /\ PartitionFollows(s)'
<1>1. "crash" \in Faults /\ phase' = "schema" /\ UNCHANGED <<registry, inbox, costs>>
  BY DEF Crash, disk, db
<1>2. FilesDated(s) /\ PartitionFollows(s)
  BY DEF AtRestInv
<1>3. \A n \in Names : inbox[s][n] \notin Unparsable
  BY <1>1, <1>2, IngestionAssumption DEF FilesDated, Dated
<1>4. FilesDated(s)'
  BY <1>1, <1>2, <1>3 DEF FilesDated
<1>5. PartitionFollows(s)'
  BY <1>1, <1>2 DEF PartitionFollows
<1> QED
  BY <1>4, <1>5

\* The schema empties every partition, before the container serves.
LEMMA SchemaKeepsRest ==
  ASSUME IngestInv, Dated, AtRestInv, ApplySchema, NEW s \in Plain
  PROVE  FilesDated(s)' /\ PartitionFollows(s)'
<1>1. phase' = "seed" /\ costs'[s] = {} /\ UNCHANGED <<registry, inbox, pc, job>>
  BY DEF ApplySchema, disk, reqs, NoRows, Plain
<1>2. FilesDated(s) /\ PartitionFollows(s)
  BY DEF AtRestInv
<1>3. \A r \in Requests : Writing(r, s)' <=> Writing(r, s)
  BY <1>1 DEF Writing, IsUpload
<1>4. FilesDated(s)'
  BY <1>1, <1>2, <1>3 DEF FilesDated
<1>5. PartitionFollows(s)'
  BY <1>1, <1>2 DEF PartitionFollows
<1> QED
  BY <1>4, <1>5

\* What an arriving request is, and that it is not yet at work.
LEMMA Arrival ==
  ASSUME TypeOK, NEW r \in Requests, Arrive(r)
  PROVE  /\ pc[r] = "idle"
         /\ \E p \in {"check", "deregister", "upsert"} : pc' = [pc EXCEPT ![r] = p]
         /\ \E j : /\ job' = [job EXCEPT ![r] = j]
                   /\ j.op = "upload" => <<j.src, j.name, j.body>> \in Submissions
         /\ UNCHANGED <<phase, disk, db>>
<1>1. CASE Upload(r)
  <2>1. PICK u \in Submissions : Accept(r, Given(u), "check")
    BY <1>1 DEF Upload
  <2>2. <<Given(u).src, Given(u).name, Given(u).body>> \in Submissions
    <3>1. u \in Sources \X Names \X Bodies
      BY IngestionAssumption
    <3> QED
      BY <3>1 DEF Given
  <2> QED
    BY <2>1, <2>2 DEF Accept
<1>2. CASE LoadSample(r)
  <2>1. Accept(r, Given(Sample), "check")
    BY <1>2 DEF LoadSample
  <2>2. <<Given(Sample).src, Given(Sample).name, Given(Sample).body>> \in Submissions
    <3>1. Sample \in Submissions /\ Sample \in Sources \X Names \X Bodies
      BY IngestionAssumption
    <3> QED
      BY <3>1 DEF Given
  <2> QED
    BY <2>1, <2>2 DEF Accept
<1>3. CASE Remove(r)
  <2>1. PICK s \in Managed : Accept(r, Asked("remove", s), "deregister")
    BY <1>3 DEF Remove
  <2>2. PICK j : j = Asked("remove", s)
    OBVIOUS
  <2>3. j.op # "upload"
    BY <2>2 DEF Asked
  <2>4. /\ pc[r] = "idle" /\ pc' = [pc EXCEPT ![r] = "deregister"]
        /\ job' = [job EXCEPT ![r] = j] /\ UNCHANGED <<phase, disk, db>>
    BY <2>1, <2>2 DEF Accept
  <2>5. \E k : /\ job' = [job EXCEPT ![r] = k]
               /\ k.op = "upload" => <<k.src, k.name, k.body>> \in Submissions
    BY <2>3, <2>4, Zenon
  <2>6. \E p \in {"check", "deregister", "upsert"} : pc' = [pc EXCEPT ![r] = p]
    BY <2>4
  <2> QED
    BY <2>4, <2>5, <2>6
<1>4. CASE Add(r)
  <2>1. PICK op \in {"addFile", "addUpload"} :
          \E s \in Managed : Accept(r, Asked(op, s), "upsert")
    BY <1>4 DEF Add
  <2>2. PICK s \in Managed : Accept(r, Asked(op, s), "upsert")
    BY <2>1
  <2>3. PICK j : j = Asked(op, s)
    OBVIOUS
  <2>4. j.op # "upload"
    BY <2>3 DEF Asked
  <2>5. /\ pc[r] = "idle" /\ pc' = [pc EXCEPT ![r] = "upsert"]
        /\ job' = [job EXCEPT ![r] = j] /\ UNCHANGED <<phase, disk, db>>
    BY <2>2, <2>3 DEF Accept
  <2>6. \E k : /\ job' = [job EXCEPT ![r] = k]
               /\ k.op = "upload" => <<k.src, k.name, k.body>> \in Submissions
    BY <2>4, <2>5, Zenon
  <2>7. \E p \in {"check", "deregister", "upsert"} : pc' = [pc EXCEPT ![r] = p]
    BY <2>5
  <2> QED
    BY <2>5, <2>6, <2>7
<1> QED
  BY <1>1, <1>2, <1>3, <1>4 DEF Arrive

\* A handler is asked nothing else before it answers.
LEMMA JobStays ==
  ASSUME NEW r \in Requests, Handle(r)
  PROVE  (job' = job \/ job' = [job EXCEPT ![r] = NoJob]) /\ phase' = phase
<1>1. \/ CheckRegistered(r) \/ Register(r) \/ TakeIngestLock(r) \/ OpenInboxFile(r)
      \/ WriteInboxFile(r) \/ DispatchSource(r) \/ LoadPartition(r)
      \/ QueryCosts(r) \/ OpenCombined(r) \/ ExportCombined(r) \/ BuildJoin(r)
      \/ OpenJoinCsv(r) \/ WriteJoinCsv(r) \/ StageJoin(r) \/ CommitJoin(r)
      \/ Deregister(r) \/ DeletePartition(r) \/ UpsertSource(r) \/ Redispatch(r)
      => job' = job /\ phase' = phase
  BY DEF CheckRegistered, Register, TakeIngestLock, OpenInboxFile, WriteInboxFile, DispatchSource,
     LoadPartition, QueryCosts, OpenCombined, ExportCombined, BuildJoin, OpenJoinCsv, WriteJoinCsv,
     StageJoin, CommitJoin, Deregister, DeletePartition, UpsertSource, Redispatch
<1>2. RejectUpload(r) \/ LoadRaises(r) \/ Acknowledge(r) \/ WriteDispatch(r)
      => job' = [job EXCEPT ![r] = NoJob] /\ phase' = phase
  BY DEF RejectUpload, LoadRaises, Acknowledge, WriteDispatch, Leave
<1> QED
  BY <1>1, <1>2 DEF Handle

LEMMA SubmittedNext == TypeOK /\ NoHalfway /\ Submitted /\ [Next]_vars => Submitted'
<1> SUFFICES ASSUME TypeOK, NoHalfway, Submitted, [Next]_vars PROVE Submitted'
  OBVIOUS
<1>1. ASSUME NEW r \in Requests, NEW j, job' = [job EXCEPT ![r] = j], phase' = phase,
             j.op = "upload" => <<j.src, j.name, j.body>> \in Submissions
      PROVE  Submitted'
  <2>1. job'[r] = j /\ \A q \in Requests \ {r} : job'[q] = job[q]
    BY <1>1 DEF TypeOK
  <2> QED
    BY <1>1, <2>1 DEF Submitted, IsUpload
<1>2. ASSUME NEW r \in Requests, Arrive(r) PROVE Submitted'
  BY <1>1, <1>2, Arrival
<1>3. ASSUME NEW r \in Requests, job' = [job EXCEPT ![r] = NoJob], phase' = phase PROVE Submitted'
  <2>1. NoJob.op # "upload"
    BY DEF NoJob
  <2> QED
    BY <1>1, <1>3, <2>1
<1>4. ASSUME job' = job, phase' = phase PROVE Submitted'
  BY <1>4 DEF Submitted, IsUpload
<1>5. ASSUME NEW r \in Requests, Handle(r) PROVE Submitted'
  BY <1>3, <1>4, <1>5, JobStays
<1>6. ASSUME NEW r \in Requests, DatabaseFails(r) \/ WorkerDies(r) PROVE FALSE
  BY <1>6 DEF DatabaseFails, WorkerDies, NoHalfway
<1>7. CASE Crash
  <2>1. \A r \in Requests : job'[r].op # "upload"
    BY <1>7 DEF Crash, NoJob
  <2> QED
    BY <1>7, <2>1 DEF Crash, Submitted, IsUpload
<1>8. CASE Restart
  <2>1. job' = job /\ phase # "up"
    BY <1>8 DEF Restart, ApplySchema, Seed, reqs
  <2> QED
    BY <2>1 DEF Submitted, IsUpload
<1>9. CASE UNCHANGED vars
  BY <1>4, <1>9 DEF vars, reqs
<1> QED
  BY <1>2, <1>5, <1>6, <1>7, <1>8, <1>9 DEF Next

-----------------------------------------------------------------------------

LEMMA AtRestInit == Init => AtRestInv
<1> SUFFICES ASSUME Init PROVE AtRestInv
  OBVIOUS
<1>1. phase = "up" /\ \A r \in Requests : job[r] = NoJob
  BY DEF Init
<1>2. \A r \in Requests : ~IsUpload(r)
  BY <1>1 DEF IsUpload, NoJob
<1>3. Submitted
  BY <1>1, <1>2 DEF Submitted
<1>4. ASSUME NEW s \in Plain PROVE FilesDated(s) /\ PartitionFollows(s)
  <2>1. s \in Sources /\ s \notin Seeded
    BY DEF Plain
  <2>2. costs[s] = {} /\ \A n \in Names : inbox[s][n] = NoFile
    BY <2>1 DEF Init
  <2>3. NoFile \notin Bodies /\ Unparsable \subseteq Bodies /\ HiddenNames \subseteq Names
    BY IngestionAssumption
  <2>4. FilesDated(s)
    BY <2>2, <2>3 DEF FilesDated
  <2>5. BoxRows(inbox[s]) = {}
    BY <2>2, <2>3 DEF BoxRows
  <2>6. PartitionFollows(s)
    BY <1>2, <2>2, <2>5 DEF PartitionFollows, Writing
  <2> QED
    BY <2>4, <2>6
<1> QED
  BY <1>3, <1>4 DEF AtRestInv

\* Each step keeps the partition of each plain source with its inbox.
LEMMA AtRestNext == IngestInv /\ Dated /\ AtRestInv /\ [Next]_vars => AtRestInv'
<1> SUFFICES ASSUME IngestInv, Dated, AtRestInv, [Next]_vars PROVE AtRestInv'
  OBVIOUS
<1>t. TypeOK /\ NoHalfway
  BY DEF IngestInv, Dated
<1>s. Submitted'
  BY <1>t, SubmittedNext DEF AtRestInv
<1> SUFFICES ASSUME NEW s \in Plain PROVE FilesDated(s)' /\ PartitionFollows(s)'
  BY <1>s DEF AtRestInv, Plain
<1>a. FilesDated(s) /\ PartitionFollows(s) /\ s \in Sources /\ s \notin Managed
  BY DEF AtRestInv, Plain
<1>1. ASSUME NEW r \in Requests, Arrive(r) PROVE FilesDated(s)' /\ PartitionFollows(s)'
  <2>1. /\ pc[r] = "idle" /\ UNCHANGED <<phase, registry, inbox, costs>>
        /\ \E j : job' = [job EXCEPT ![r] = j]
    BY <1>1, <1>t, Arrival DEF disk, db
  <2>2. PICK p \in {"check", "deregister", "upsert"} : pc' = [pc EXCEPT ![r] = p]
    BY <1>1, <1>t, Arrival
  <2> QED
    BY <1>a, <1>t, <2>1, <2>2, Elsewhere DEF Writing
<1>2. ASSUME NEW r \in Requests, NEW p, pc' = [pc EXCEPT ![r] = p], job' = job,
             inbox'[s] = inbox[s], costs'[s] = costs[s], phase' = phase,
             registry'[s] \in {registry[s], "upload"},
             ~Writing(r, s), p \notin {"fill", "dispatch", "load"} \/ job[r].src # s
      PROVE  FilesDated(s)' /\ PartitionFollows(s)'
  <2>1. job' = [job EXCEPT ![r] = job[r]]
    BY <1>2, <1>t DEF TypeOK
  <2> QED
    BY <1>2, <1>a, <1>t, <2>1, Elsewhere
<1>3. ASSUME NEW r \in Requests, Leave(r), ~Writing(r, s),
             UNCHANGED <<phase, registry, costs>>, inbox'[s] = inbox[s]
      PROVE  FilesDated(s)' /\ PartitionFollows(s)'
  <2>1. PICK j : j = NoJob
    OBVIOUS
  <2>2. pc' = [pc EXCEPT ![r] = "idle"] /\ job' = [job EXCEPT ![r] = j]
    BY <1>3, <2>1 DEF Leave
  <2>3. phase' = phase /\ registry'[s] = registry[s] /\ costs'[s] = costs[s]
    BY <1>3
  <2>4. "idle" \notin {"fill", "dispatch", "load"}
    OBVIOUS
  <2> QED
    BY <1>3, <1>a, <1>t, <2>2, <2>3, <2>4, Elsewhere
<1>4. ASSUME NEW r \in Requests, CheckRegistered(r) \/ Register(r) \/ TakeIngestLock(r)
      PROVE  FilesDated(s)' /\ PartitionFollows(s)'
  <2>1. /\ pc[r] \in {"check", "register", "lock"}
        /\ \E p \in {"register", "lock", "truncate"} : pc' = [pc EXCEPT ![r] = p]
        /\ UNCHANGED <<phase, inbox, costs, job>>
    BY <1>4 DEF CheckRegistered, Register, TakeIngestLock, Goto, disk, db
  <2>2. registry'[s] \in {registry[s], "upload"}
    BY <1>4, <1>a, <1>t DEF CheckRegistered, Register, TakeIngestLock, disk, TypeOK
  <2>3. ~Writing(r, s)
    BY <2>1 DEF Writing
  <2> QED
    BY <1>2, <2>1, <2>2, <2>3
<1>5. ASSUME NEW r \in Requests,
             QueryCosts(r) \/ OpenCombined(r) \/ ExportCombined(r) \/ BuildJoin(r)
             \/ OpenJoinCsv(r) \/ WriteJoinCsv(r) \/ StageJoin(r) \/ CommitJoin(r) \/ Redispatch(r)
      PROVE  FilesDated(s)' /\ PartitionFollows(s)'
  <2>1. /\ pc[r] \in Rebuilding \cup {"openFull", "redispatch"}
        /\ \E p \in Rebuilding \cup {"writeFull", "ack", "redispatch", "openFull"} :
             pc' = [pc EXCEPT ![r] = p]
        /\ UNCHANGED <<phase, registry, inbox, costs, job>>
    BY <1>5 DEF QueryCosts, OpenCombined, ExportCombined, BuildJoin, OpenJoinCsv, WriteJoinCsv,
       StageJoin, CommitJoin, Redispatch, Goto, disk, db, Rebuilding
  <2>2. ~Writing(r, s)
    BY <2>1 DEF Writing, Rebuilding
  <2> QED
    BY <1>2, <2>1, <2>2 DEF Rebuilding
<1>6. ASSUME NEW r \in Requests, Deregister(r) \/ DeletePartition(r) \/ UpsertSource(r)
      PROVE  FilesDated(s)' /\ PartitionFollows(s)'
  <2>1. /\ pc[r] \in {"deregister", "delete", "upsert"}
        /\ \E p \in {"delete", "query", "redispatch"} : pc' = [pc EXCEPT ![r] = p]
        /\ UNCHANGED <<phase, inbox, job>>
    BY <1>6 DEF Deregister, DeletePartition, UpsertSource, Goto, disk
  <2>2. job[r].src # s
    BY <1>a, <1>t, <2>1 DEF TypeOK, JobFits, RoutePlaces
  <2>3. registry'[s] = registry[s] /\ costs'[s] = costs[s]
    BY <1>6, <1>a, <1>t, <2>2 DEF Deregister, DeletePartition, UpsertSource, disk, db, TypeOK
  <2>4. ~Writing(r, s)
    BY <2>1 DEF Writing
  <2> QED
    BY <1>2, <2>1, <2>3, <2>4
<1>7. ASSUME NEW r \in Requests, Acknowledge(r) \/ WriteDispatch(r)
      PROVE  FilesDated(s)' /\ PartitionFollows(s)'
  <2>1. /\ Leave(r) /\ pc[r] \in {"ack", "writeFull"}
        /\ UNCHANGED <<phase, registry, inbox, costs>>
    BY <1>7 DEF Acknowledge, WriteDispatch, disk, db
  <2> QED
    BY <1>3, <2>1 DEF Writing
<1>8. ASSUME NEW r \in Requests, job[r].src = s,
             \/ OpenInboxFile(r) \/ WriteInboxFile(r) \/ DispatchSource(r) \/ LoadPartition(r)
             \/ RejectUpload(r) \/ LoadRaises(r)
      PROVE  FilesDated(s)' /\ PartitionFollows(s)'
  BY <1>8, OpenKeepsRest, FillKeepsRest, DispatchKeepsRest, LoadKeepsRest, RejectKeepsRest,
     NothingRaises
<1>9. ASSUME NEW r \in Requests, job[r].src # s,
             OpenInboxFile(r) \/ WriteInboxFile(r) \/ DispatchSource(r) \/ LoadPartition(r)
      PROVE  FilesDated(s)' /\ PartitionFollows(s)'
  <2>1. (\E p : pc' = [pc EXCEPT ![r] = p]) /\ UNCHANGED <<phase, registry, job>>
    BY <1>9 DEF OpenInboxFile, WriteInboxFile, DispatchSource, LoadPartition, Goto, disk
  <2>2. inbox'[s] = inbox[s] /\ costs'[s] = costs[s]
    BY <1>9, <1>a, <1>t DEF OpenInboxFile, WriteInboxFile, DispatchSource, LoadPartition, Replaced,
       disk, db, TypeOK
  <2>3. ~Writing(r, s)
    BY <1>9 DEF Writing
  <2> QED
    BY <1>2, <1>9, <2>1, <2>2, <2>3
<1>10. ASSUME NEW r \in Requests, job[r].src # s, RejectUpload(r) \/ LoadRaises(r)
       PROVE  FilesDated(s)' /\ PartitionFollows(s)'
  <2>1. Leave(r) /\ UNCHANGED <<phase, registry, costs>>
    BY <1>10 DEF RejectUpload, LoadRaises, disk, db
  <2>2. inbox'[s] = inbox[s]
    BY <1>10, <1>a, <1>t DEF RejectUpload, LoadRaises, disk, TypeOK
  <2> QED
    BY <1>3, <1>10, <2>1, <2>2 DEF Writing
<1>11. ASSUME NEW r \in Requests, DatabaseFails(r) \/ WorkerDies(r) PROVE FALSE
  BY <1>11, <1>t DEF DatabaseFails, WorkerDies, NoHalfway
<1>12. CASE UNCHANGED vars
  <2>1. UNCHANGED <<phase, registry, inbox, costs, pc, job>>
    BY <1>12 DEF vars, disk, db, reqs
  <2> QED
    BY <1>a, <2>1, Untouched
<1> QED
  BY <1>1, <1>4, <1>5, <1>6, <1>7, <1>8, <1>9, <1>10, <1>11, <1>12, CrashKeepsRest,
     SchemaKeepsRest, SeedKeepsRest DEF Next, Handle, Restart

\* At rest a re-seed would load the partition that is there: where the clients' files are
\* dated and the database never fails, a plain source's rows are a function of its inbox.
THEOREM PartitionIsInbox == ASSUME Dated PROVE Spec => []Reproducible
<1>1. Init => AtRestInv
  BY AtRestInit
<1>2. IngestInv /\ AtRestInv /\ [Next]_vars => AtRestInv'
  BY AtRestNext
<1>3. IngestInv /\ AtRestInv => Reproducible
  <2> SUFFICES ASSUME IngestInv, AtRestInv, AtRest, NEW s \in Plain
               PROVE  costs[s] = DispatchRows(s)
    BY DEF Reproducible
  <2>1. s \in Sources /\ FilesDated(s) /\ PartitionFollows(s)
    BY DEF Plain, AtRestInv
  <2>2. phase = "up" /\ \A r \in Requests : ~Writing(r, s)
    BY DEF AtRest, Writing
  <2>3. costs[s] = InboxRows(s)
    BY <2>1, <2>2, InboxIsBox DEF PartitionFollows
  <2>4. \A n \in Names \ HiddenNames : inbox[s][n] \notin Unparsable
    BY <2>1, <2>2 DEF FilesDated
  <2>5. ~DispatchErrors(s)
    BY <2>4, IngestionAssumption DEF DispatchErrors, Exports
  <2>6. registry[s] \in {"absent", "upload"}
    BY <2>1 DEF IngestInv, TypeOK, PlainRegistered
  <2>7. registry[s] = "absent" => InboxRows(s) = {}
    BY <2>1, InboxIsBox DEF PartitionFollows
  <2> QED
    BY <2>3, <2>5, <2>6, <2>7 DEF DispatchRows
<1> QED
  BY <1>1, <1>2, <1>3, IngestInvariant, PTL DEF Spec

-----------------------------------------------------------------------------

(***************************************************************************)
(* The join table.  Two rebuilds at once write the same two files, so this *)
(* is proved of one handler at a time, which is the condition the run that *)
(* checks JoinFresh has as well.                                           *)
(***************************************************************************)

\* One handler at a time.
Sequential == \A q, r \in Requests : q = r

\* How far a rebuild of the join has come, and that the join is the costs outside one.
JoinFollows ==
  /\ phase = "up" /\ (\A r \in Requests : pc[r] \notin Rebuilding) => joinMap = costs
  /\ \A r \in Requests :
       /\ pc[r] \in {"openComb", "writeComb", "openJoin", "writeJoin", "commit"} => buf[r] = costs
       /\ pc[r] = "build" => combined = costs
       /\ pc[r] = "stage" => joinCsv = costs

LEMMA JoinFollowsNext ==
  ASSUME Sequential, NoHalfway
  PROVE  TypeOK /\ RestartIsQuiet /\ JoinFollows /\ [Next]_vars => JoinFollows'
<1> SUFFICES ASSUME TypeOK, RestartIsQuiet, JoinFollows, [Next]_vars PROVE JoinFollows'
  OBVIOUS
<1> USE DEF Rebuilding
<1>a. ASSUME NEW r \in Requests, NEW p, pc' = [pc EXCEPT ![r] = p]
      PROVE  pc'[r] = p /\ \A q \in Requests : q = r
  BY <1>a DEF TypeOK, Sequential
\* A step outside a rebuild that leaves the join and the costs alone.
<1>b. ASSUME NEW r \in Requests, NEW p, pc' = [pc EXCEPT ![r] = p],
             pc[r] \notin Rebuilding, p \notin Rebuilding, UNCHANGED <<phase, joinMap, costs>>
      PROVE  JoinFollows'
  BY <1>a, <1>b DEF JoinFollows
<1>1. ASSUME NEW r \in Requests, Arrive(r) PROVE JoinFollows'
  BY <1>1, <1>b, Arrival DEF db
<1>2. ASSUME NEW r \in Requests,
             \/ CheckRegistered(r) \/ Register(r) \/ TakeIngestLock(r) \/ OpenInboxFile(r)
             \/ WriteInboxFile(r) \/ DispatchSource(r) \/ Deregister(r) \/ UpsertSource(r)
             \/ Redispatch(r)
      PROVE  JoinFollows'
  <2>1. /\ pc[r] \notin Rebuilding /\ UNCHANGED <<phase, joinMap, costs>>
        /\ \E p : p \notin Rebuilding /\ pc' = [pc EXCEPT ![r] = p]
    BY <1>2 DEF CheckRegistered, Register, TakeIngestLock, OpenInboxFile, WriteInboxFile,
       DispatchSource, Deregister, UpsertSource, Redispatch, Goto, db
  <2> QED
    BY <1>b, <2>1
<1>3. ASSUME NEW r \in Requests, RejectUpload(r) \/ LoadRaises(r) \/ Acknowledge(r) \/ WriteDispatch(r)
      PROVE  JoinFollows'
  <2>1. /\ pc[r] \notin Rebuilding /\ UNCHANGED <<phase, joinMap, costs>>
        /\ pc' = [pc EXCEPT ![r] = "idle"]
    BY <1>3 DEF RejectUpload, Rejected, LoadRaises, Acknowledge, WriteDispatch, Leave, db
  <2> QED
    BY <1>b, <2>1
<1>4. ASSUME NEW r \in Requests, LoadPartition(r) \/ DeletePartition(r) PROVE JoinFollows'
  <2>1. pc'[r] = "query" /\ \A q \in Requests : q = r
    BY <1>4, <1>a DEF LoadPartition, DeletePartition, Goto
  <2> QED
    BY <2>1 DEF JoinFollows
<1>5. ASSUME NEW r \in Requests, QueryCosts(r) PROVE JoinFollows'
  <2>1. pc'[r] = "openComb" /\ \A q \in Requests : q = r
    BY <1>5, <1>a DEF QueryCosts, Goto
  <2>2. buf'[r] = costs'
    BY <1>5 DEF QueryCosts, TypeOK, db
  <2> QED
    BY <2>1, <2>2 DEF JoinFollows
<1>6. ASSUME NEW r \in Requests, OpenCombined(r) PROVE JoinFollows'
  <2>1. CASE Goto(r, "openComb", "writeComb")
    <3>1. pc[r] = "openComb" /\ pc'[r] = "writeComb" /\ \A q \in Requests : q = r
      BY <2>1, <1>a DEF Goto
    <3>2. UNCHANGED <<buf, costs>>
      BY <1>6 DEF OpenCombined, db
    <3> QED
      BY <3>1, <3>2 DEF JoinFollows
  <2>2. CASE Goto(r, "openFull", "writeFull")
    <3>1. UNCHANGED <<phase, joinMap, costs>>
      BY <1>6 DEF OpenCombined, db
    <3> QED
      BY <1>b, <2>2, <3>1 DEF Goto
  <2> QED
    BY <1>6, <2>1, <2>2 DEF OpenCombined
<1>7. ASSUME NEW r \in Requests, ExportCombined(r) PROVE JoinFollows'
  <2>1. pc[r] = "writeComb" /\ pc'[r] = "build" /\ \A q \in Requests : q = r
    BY <1>7, <1>a DEF ExportCombined, Goto
  <2>2. combined' = buf[r] /\ costs' = costs
    BY <1>7 DEF ExportCombined, db
  <2> QED
    BY <2>1, <2>2 DEF JoinFollows
<1>8. ASSUME NEW r \in Requests, BuildJoin(r) PROVE JoinFollows'
  <2>1. pc[r] = "build" /\ pc'[r] = "openJoin" /\ \A q \in Requests : q = r
    BY <1>8, <1>a DEF BuildJoin, Goto
  <2>2. buf'[r] = combined /\ costs' = costs
    BY <1>8 DEF BuildJoin, TypeOK, db
  <2> QED
    BY <2>1, <2>2 DEF JoinFollows
<1>9. ASSUME NEW r \in Requests, OpenJoinCsv(r) PROVE JoinFollows'
  <2>1. pc[r] = "openJoin" /\ pc'[r] = "writeJoin" /\ \A q \in Requests : q = r
    BY <1>9, <1>a DEF OpenJoinCsv, Goto
  <2>2. UNCHANGED <<buf, costs>>
    BY <1>9 DEF OpenJoinCsv, db
  <2> QED
    BY <2>1, <2>2 DEF JoinFollows
<1>10. ASSUME NEW r \in Requests, WriteJoinCsv(r) PROVE JoinFollows'
  <2>1. pc[r] = "writeJoin" /\ pc'[r] = "stage" /\ \A q \in Requests : q = r
    BY <1>10, <1>a DEF WriteJoinCsv, Goto
  <2>2. joinCsv' = buf[r] /\ costs' = costs
    BY <1>10 DEF WriteJoinCsv, db
  <2> QED
    BY <2>1, <2>2 DEF JoinFollows
<1>11. ASSUME NEW r \in Requests, StageJoin(r) PROVE JoinFollows'
  <2>1. pc[r] = "stage" /\ pc'[r] = "commit" /\ \A q \in Requests : q = r
    BY <1>11, <1>a DEF StageJoin, Goto
  <2>2. buf'[r] = joinCsv /\ costs' = costs
    BY <1>11 DEF StageJoin, TypeOK, db
  <2> QED
    BY <2>1, <2>2 DEF JoinFollows
<1>12. ASSUME NEW r \in Requests, CommitJoin(r) PROVE JoinFollows'
  <2>1. pc[r] = "commit" /\ pc'[r] \in {"ack", "redispatch"} /\ \A q \in Requests : q = r
    BY <1>12, <1>a DEF CommitJoin, Goto
  <2>2. joinMap' = buf[r] /\ costs' = costs
    BY <1>12 DEF CommitJoin
  <2> QED
    BY <2>1, <2>2 DEF JoinFollows
<1>13. ASSUME NEW r \in Requests, DatabaseFails(r) \/ WorkerDies(r) PROVE FALSE
  BY <1>13 DEF DatabaseFails, WorkerDies, NoHalfway
<1>14. CASE Crash
  BY <1>14 DEF Crash, JoinFollows
<1>15. CASE Restart
  <2>1. (\A r \in Requests : pc'[r] = "idle") /\ (phase' = "up" => joinMap' = costs')
    BY <1>15 DEF Restart, ApplySchema, Seed, SeedLoads, SeedFails, reqs, RestartIsQuiet
  <2> QED
    BY <2>1 DEF JoinFollows
<1>16. CASE UNCHANGED vars
  BY <1>16 DEF vars, disk, db, reqs, JoinFollows
<1> QED
  BY <1>1, <1>2, <1>3, <1>4, <1>5, <1>6, <1>7, <1>8, <1>9, <1>10, <1>11, <1>12, <1>13, <1>14,
     <1>15, <1>16 DEF Next, Handle

\* At rest the join table was built from the rows that focus_costs holds, all sources
\* included, when handlers ran one at a time and none was cut off between its two commits.
THEOREM JoinIsOfTheCosts == ASSUME Sequential, NoHalfway PROVE Spec => []JoinFresh
<1>1. Init => JoinFollows
  BY DEF Init, JoinFollows
<1>2. IngestInv /\ JoinFollows /\ [Next]_vars => JoinFollows'
  BY JoinFollowsNext DEF IngestInv
<1>3. JoinFollows => JoinFresh
  BY DEF JoinFollows, JoinFresh, AtRest, Rebuilding
<1> QED
  BY <1>1, <1>2, <1>3, IngestInvariant, PTL DEF Spec

-----------------------------------------------------------------------------

(***************************************************************************)
(* Rows without a registration.  A removal that takes effect between an    *)
(* upload's look at the registry and its commit leaves some, so the theorem*)
(* is about sources that are not both uploaded to and removed, or about one*)
(* handler at a time.                                                      *)
(***************************************************************************)

\* No request removes a source that another one is uploading to.
Undisturbed == Sequential \/ \A u \in Submissions : u[1] \notin Managed

\* An upload that looked at the registry still finds its source there, and rows without
\* a registration are about to be deleted.
Unowned ==
  /\ \A r \in Requests :
       pc[r] \in {"lock", "truncate", "fill", "dispatch", "load"} => registry[job[r].src] # "absent"
  /\ phase = "up" => \A s \in Sources :
       registry[s] = "absent" /\ costs[s] # {} => \E r \in Requests : pc[r] = "delete" /\ job[r].src = s

LEMMA UnownedNext ==
  ASSUME Undisturbed, NoHalfway
  PROVE  TypeOK /\ RestartIsQuiet /\ Submitted /\ Unowned /\ [Next]_vars => Unowned'
<1> SUFFICES ASSUME TypeOK, RestartIsQuiet, Submitted, Unowned, [Next]_vars PROVE Unowned'
  OBVIOUS
<1> DEFINE Uploading == {"lock", "truncate", "fill", "dispatch", "load"}
<1>a. ASSUME NEW r \in Requests, NEW p, pc' = [pc EXCEPT ![r] = p]
      PROVE  pc'[r] = p /\ \A q \in Requests \ {r} : pc'[q] = pc[q]
  BY <1>a DEF TypeOK
\* A step that registers, deletes and loads nothing.
<1>b. ASSUME NEW r \in Requests, NEW p, pc' = [pc EXCEPT ![r] = p],
             NEW j, job' = [job EXCEPT ![r] = j],
             pc[r] # "delete", UNCHANGED <<phase, registry, costs>>,
             p \in Uploading => registry[j.src] # "absent"
      PROVE  Unowned'
  <2>1. /\ pc'[r] = p /\ job'[r] = j
        /\ \A q \in Requests \ {r} : pc'[q] = pc[q] /\ job'[q] = job[q]
    BY <1>b, <1>a DEF TypeOK
  <2>2. \A q \in Requests : pc[q] = "delete" => pc'[q] = "delete" /\ job'[q] = job[q]
    BY <1>b, <2>1
  <2> QED
    BY <1>b, <2>1, <2>2 DEF Unowned
<1>c. ASSUME NEW r \in Requests, NEW p, pc' = [pc EXCEPT ![r] = p], job' = job,
             pc[r] # "delete", UNCHANGED <<phase, registry, costs>>,
             p \in Uploading => registry[job[r].src] # "absent"
      PROVE  Unowned'
  <2>1. job' = [job EXCEPT ![r] = job[r]]
    BY <1>c DEF TypeOK
  <2> QED
    BY <1>b, <1>c, <2>1
<1>1. ASSUME NEW r \in Requests, Arrive(r) PROVE Unowned'
  <2>1. /\ pc[r] = "idle" /\ UNCHANGED <<phase, registry, costs>>
        /\ \E j : job' = [job EXCEPT ![r] = j]
    BY <1>1, Arrival DEF disk, db
  <2>2. PICK p \in {"check", "deregister", "upsert"} : pc' = [pc EXCEPT ![r] = p]
    BY <1>1, Arrival
  <2> QED
    BY <1>b, <2>1, <2>2
<1>2. ASSUME NEW r \in Requests, CheckRegistered(r) PROVE Unowned'
  BY <1>2, <1>c DEF CheckRegistered, Goto, disk, db
<1>3. ASSUME NEW r \in Requests, Register(r) PROVE Unowned'
  <2>1. /\ pc[r] = "register" /\ pc' = [pc EXCEPT ![r] = "lock"]
        /\ registry' = [registry EXCEPT ![job[r].src] = "upload"]
        /\ UNCHANGED <<phase, costs, job>>
    BY <1>3 DEF Register, Goto, db
  <2>2. job[r].src \in Sources
    BY <2>1, UploadJob DEF TypeOK, JobFits, UploadPlaces
  <2>3. /\ registry'[job[r].src] = "upload"
        /\ \A s \in Sources : registry'[s] \in {registry[s], "upload"}
    BY <2>1, <2>2 DEF TypeOK
  <2>4. pc'[r] = "lock" /\ \A q \in Requests \ {r} : pc'[q] = pc[q]
    BY <1>a, <2>1
  <2>5. \A q \in Requests : pc[q] = "delete" => pc'[q] = "delete"
    BY <2>1, <2>4
  <2>6. \A q \in Requests : pc[q] \in Uploading => job[q].src \in Sources
    BY UploadJob DEF TypeOK, JobFits, UploadPlaces
  <2> QED
    BY <2>1, <2>2, <2>3, <2>4, <2>5, <2>6 DEF Unowned
<1>4. ASSUME NEW r \in Requests,
             TakeIngestLock(r) \/ OpenInboxFile(r) \/ WriteInboxFile(r) \/ DispatchSource(r)
      PROVE  Unowned'
  <2>1. /\ pc[r] \in Uploading /\ UNCHANGED <<phase, registry, costs, job>>
        /\ \E p : pc' = [pc EXCEPT ![r] = p]
    BY <1>4 DEF TakeIngestLock, OpenInboxFile, WriteInboxFile, DispatchSource, Goto, disk, db
  <2>2. registry[job[r].src] # "absent"
    BY <2>1 DEF Unowned
  <2> QED
    BY <1>c, <2>1, <2>2
<1>5. ASSUME NEW r \in Requests, LoadPartition(r) PROVE Unowned'
  <2>1. /\ pc[r] = "load" /\ pc' = [pc EXCEPT ![r] = "query"]
        /\ costs' = [costs EXCEPT ![job[r].src] = disp[r]]
        /\ UNCHANGED <<phase, registry, job>>
    BY <1>5 DEF LoadPartition, Replaced, Goto, disk
  <2>2. registry[job[r].src] # "absent"
    BY <2>1 DEF Unowned
  <2>3. \A s \in Sources : registry[s] = "absent" => costs'[s] = costs[s]
    BY <2>1, <2>2 DEF TypeOK
  <2>4. pc'[r] = "query" /\ \A q \in Requests \ {r} : pc'[q] = pc[q]
    BY <1>a, <2>1
  <2>5. \A q \in Requests : pc[q] = "delete" => pc'[q] = "delete"
    BY <2>1, <2>4
  <2> QED
    BY <2>1, <2>3, <2>4, <2>5 DEF Unowned
<1>6. ASSUME NEW r \in Requests, RejectUpload(r) \/ LoadRaises(r) \/ Acknowledge(r) \/ WriteDispatch(r)
      PROVE  Unowned'
  <2>1. /\ pc[r] # "delete" /\ UNCHANGED <<phase, registry, costs>>
        /\ pc' = [pc EXCEPT ![r] = "idle"] /\ job' = [job EXCEPT ![r] = NoJob]
    BY <1>6 DEF RejectUpload, Rejected, LoadRaises, Acknowledge, WriteDispatch, Leave, disk, db
  <2>2. "idle" \notin Uploading
    OBVIOUS
  <2>3. PICK j : j = NoJob
    OBVIOUS
  <2> QED
    BY <1>b, <2>1, <2>2, <2>3
<1>7. ASSUME NEW r \in Requests,
             QueryCosts(r) \/ OpenCombined(r) \/ ExportCombined(r) \/ BuildJoin(r)
             \/ OpenJoinCsv(r) \/ WriteJoinCsv(r) \/ StageJoin(r) \/ CommitJoin(r) \/ Redispatch(r)
      PROVE  Unowned'
  <2>1. /\ pc[r] # "delete" /\ UNCHANGED <<phase, registry, costs, job>>
        /\ \E p : p \notin Uploading /\ pc' = [pc EXCEPT ![r] = p]
    BY <1>7 DEF QueryCosts, OpenCombined, ExportCombined, BuildJoin, OpenJoinCsv, WriteJoinCsv,
       StageJoin, CommitJoin, Redispatch, Goto, disk, db
  <2> QED
    BY <1>c, <2>1
<1>8. ASSUME NEW r \in Requests, Deregister(r) PROVE Unowned'
  <2>1. /\ pc[r] = "deregister" /\ pc' = [pc EXCEPT ![r] = "delete"]
        /\ registry' = [registry EXCEPT ![job[r].src] = "absent"]
        /\ UNCHANGED <<phase, costs, job>>
    BY <1>8 DEF Deregister, Goto, db
  <2>2. pc'[r] = "delete" /\ \A q \in Requests \ {r} : pc'[q] = pc[q]
    BY <1>a, <2>1
  <2>3. \A s \in Sources : s # job[r].src => registry'[s] = registry[s]
    BY <2>1 DEF TypeOK
  <2>4. job[r].src \in Managed
    BY <2>1 DEF TypeOK, JobFits, RoutePlaces
  <2>5. ASSUME NEW q \in Requests, pc'[q] \in Uploading
        PROVE  registry'[job'[q].src] # "absent"
    <3>1. q # r /\ pc[q] \in Uploading /\ job'[q] = job[q]
      BY <2>1, <2>2, <2>5
    <3>2. IsUpload(q) /\ job[q].src \in Sources
      BY <3>1, UploadJob DEF TypeOK, JobFits, UploadPlaces
    <3>3. PICK u \in Submissions : u[1] = job[q].src
      BY <3>2 DEF Submitted
    <3>4. job[q].src # job[r].src
      BY <2>4, <3>1, <3>3 DEF Undisturbed, Sequential
    <3> QED
      BY <2>3, <3>1, <3>2, <3>4 DEF Unowned
  <2>6. \A q \in Requests : pc[q] = "delete" => pc'[q] = "delete"
    BY <2>1, <2>2
  <2>7. ASSUME phase' = "up", NEW s \in Sources, registry'[s] = "absent", costs'[s] # {}
        PROVE  \E q \in Requests : pc'[q] = "delete" /\ job'[q].src = s
    <3>1. CASE s = job[r].src
      BY <2>1, <2>2, <3>1
    <3>2. CASE s # job[r].src
      BY <2>1, <2>3, <2>6, <2>7, <3>2 DEF Unowned
    <3> QED
      BY <3>1, <3>2
  <2> QED
    BY <2>5, <2>7 DEF Unowned
<1>9. ASSUME NEW r \in Requests, DeletePartition(r) PROVE Unowned'
  <2>1. /\ pc[r] = "delete" /\ pc' = [pc EXCEPT ![r] = "query"]
        /\ costs' = [costs EXCEPT ![job[r].src] = {}]
        /\ UNCHANGED <<phase, registry, job>>
    BY <1>9 DEF DeletePartition, Goto, disk
  <2>2. pc'[r] = "query" /\ \A q \in Requests \ {r} : pc'[q] = pc[q]
    BY <1>a, <2>1
  <2>3. \A s \in Sources : costs'[s] = IF s = job[r].src THEN {} ELSE costs[s]
    BY <2>1 DEF TypeOK
  <2>4. ASSUME phase' = "up", NEW s \in Sources, registry'[s] = "absent", costs'[s] # {}
        PROVE  \E q \in Requests : pc'[q] = "delete" /\ job'[q].src = s
    <3>1. s # job[r].src /\ costs[s] # {} /\ registry[s] = "absent" /\ phase = "up"
      BY <2>1, <2>3, <2>4
    <3>2. PICK q \in Requests : pc[q] = "delete" /\ job[q].src = s
      BY <3>1 DEF Unowned
    <3> QED
      BY <2>1, <2>2, <3>1, <3>2
  <2> QED
    BY <2>1, <2>2, <2>4 DEF Unowned
<1>10. ASSUME NEW r \in Requests, UpsertSource(r) PROVE Unowned'
  <2>1. /\ pc[r] = "upsert" /\ pc' = [pc EXCEPT ![r] = "redispatch"]
        /\ UNCHANGED <<phase, costs, job>>
    BY <1>10 DEF UpsertSource, Goto, db
  <2>2. \A s \in Sources : registry'[s] = "absent" => registry[s] = "absent"
    BY <1>10 DEF UpsertSource, TypeOK
  <2>3. pc'[r] = "redispatch" /\ \A q \in Requests \ {r} : pc'[q] = pc[q]
    BY <1>a, <2>1
  <2>4. \A q \in Requests : pc[q] = "delete" => pc'[q] = "delete"
    BY <2>1, <2>3
  <2>5. \A q \in Requests : pc[q] \in Uploading => job[q].src \in Sources
    BY UploadJob DEF TypeOK, JobFits, UploadPlaces
  <2> QED
    BY <2>1, <2>2, <2>3, <2>4, <2>5 DEF Unowned
<1>11. ASSUME NEW r \in Requests, DatabaseFails(r) \/ WorkerDies(r) PROVE FALSE
  BY <1>11 DEF DatabaseFails, WorkerDies, NoHalfway
<1>12. CASE Crash
  BY <1>12 DEF Crash, Unowned
<1>13. CASE Restart
  <2>1. (\A r \in Requests : pc'[r] = "idle") /\ registry' = registry
    BY <1>13 DEF Restart, ApplySchema, Seed, reqs, disk, RestartIsQuiet
  <2>2. phase' = "up" => costs' = FullDispatch
    BY <1>13 DEF Restart, ApplySchema, Seed, SeedLoads, SeedFails
  <2>3. \A s \in Sources : registry[s] = "absent" => FullDispatch[s] = {}
    BY DEF FullDispatch, DispatchRows
  <2> QED
    BY <2>1, <2>2, <2>3 DEF Unowned
<1>14. CASE UNCHANGED vars
  BY <1>14 DEF vars, disk, db, reqs, Unowned
<1> QED
  BY <1>1, <1>2, <1>3, <1>4, <1>5, <1>6, <1>7, <1>8, <1>9, <1>10, <1>11, <1>12, <1>13, <1>14
  DEF Next, Handle

\* At rest a source that is not registered owns no rows, when no removal of it meets an
\* upload to it and none was cut off between the registry and the table.
THEOREM RowsAreOwned == ASSUME Undisturbed, NoHalfway PROVE Spec => []NoGhostRows
<1>1. Init => Submitted /\ Unowned
  <2> SUFFICES ASSUME Init PROVE Submitted /\ Unowned
    OBVIOUS
  <2>1. /\ phase = "up" /\ \A r \in Requests : pc[r] = "idle" /\ ~IsUpload(r)
        /\ \A s \in Sources : registry[s] = "absent" => costs[s] = {}
    BY DEF Init, IsUpload, NoJob
  <2> QED
    BY <2>1 DEF Submitted, Unowned
<1>2. IngestInv /\ Submitted /\ Unowned /\ [Next]_vars => Submitted' /\ Unowned'
  BY SubmittedNext, UnownedNext DEF IngestInv
<1>3. Unowned => NoGhostRows
  BY DEF Unowned, NoGhostRows, AtRest
<1> QED
  BY <1>1, <1>2, <1>3, IngestInvariant, PTL DEF Spec

====
