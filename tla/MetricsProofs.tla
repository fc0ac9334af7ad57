----------------------------- MODULE MetricsProofs -----------------------------
(***************************************************************************)
(* The audit trail and its counters, the counters of requests, and what a  *)
(* scrape shows of them, with any number of workers and of requests that   *)
(* are served at once.                                                     *)
(***************************************************************************)
EXTENDS Metrics, FiniteSetTheorems, TLAPS

\* Where a request can be once its audit line is written.
After == {"auditing", "dispatch", "exit", "record", "recording", "done"}
Holding == {"auditing", "recording"}

\* What the death of a worker leaves as it is.
others == <<pc, req, status, sent, lock, counters, read, trail, scraped>>

\* What is audited before the client hears of it.
Owes(r, code) ==
  /\ req[r].endpoint \in Changes
  /\ \/ code = 200
     \/ req[r].endpoint = "upload" /\ (code = 422 \/ r \in changed)
     \/ req[r].endpoint = "add" /\ r \in registered

\* How far a request is with what it changes.
Trailed(r) ==
  /\ pc[r] \in {"away", "enter", "auth", "handle"} => r \notin changed /\ r \notin registered
  /\ pc[r] = "load" => req[r].endpoint # "add" /\ r \notin changed
  /\ pc[r] = "derive" => req[r].endpoint # "add"
  /\ pc[r] \in {"auditing", "dispatch"} => r \in audited
  /\ pc[r] \in {"exit", "record", "recording", "done"} /\ Owes(r, status[r]) => r \in audited

ReqInv(r) ==
  /\ status[r] \in Statuses
  /\ pc[r] # "away" => W(r) \in Workers
  /\ pc[r] \in {"load", "derive", "audit", "auditing"} => req[r].endpoint \in Changes
  /\ r \in audited => pc[r] \in After
  /\ Trailed(r)

Types ==
  /\ DOMAIN pc = Requests /\ DOMAIN req = Requests /\ DOMAIN status = Requests
  /\ DOMAIN read = Requests /\ DOMAIN lock = Workers
  /\ audits \in [Workers -> [Changes -> Nat]]
  /\ audited \subseteq Requests /\ changed \subseteq Requests /\ registered \subseteq Requests

\* The lock of a worker is held by the request that is counting there, and no other.
LockInv ==
  /\ \A r \in Requests : pc[r] \in Holding => lock[W(r)] = r
  /\ \A w \in Workers : lock[w] # Free => /\ lock[w] \in Requests
                                          /\ pc[lock[w]] \in Holding /\ W(lock[w]) = w

\* So what was read of a counter is still what it is.
ReadInv == \A r \in Requests : pc[r] = "auditing" => read[r] = audits[W(r)][req[r].endpoint]

AuditInv == /\ Types /\ LockInv /\ ReadInv /\ AuditsAddUp
            /\ \A r \in Requests : ReqInv(r)

\* The audit lines that a counter has counted.
Counted(w, e) == {r \in audited : W(r) = w /\ req[r].endpoint = e /\ pc[r] # "auditing"}

-----------------------------------------------------------------------------

LEMMA AuditInit == Init => AuditInv
<1> SUFFICES ASSUME Init PROVE AuditInv
  OBVIOUS
<1>1. Types
  BY DEF Init, Types
<1>2. LockInv /\ ReadInv
  BY DEF Init, LockInv, ReadInv, Holding
<1>3. \A r \in Requests : ReqInv(r)
  BY DEF Init, ReqInv, Trailed, Statuses
<1>4. AuditsAddUp
  <2> SUFFICES ASSUME NEW w \in Workers, NEW e \in Changes
               PROVE  audits[w][e] = Cardinality(Counted(w, e))
    BY DEF AuditsAddUp, Counted
  <2>1. Counted(w, e) = {} /\ audits[w][e] = 0
    BY DEF Init, Counted
  <2> QED
    BY <2>1, FS_EmptySet
<1> QED
  BY <1>1, <1>2, <1>3, <1>4 DEF AuditInv

\* A counter follows the lines that it counts.
LEMMA CountKeeps ==
  ASSUME AuditInv, UNCHANGED audits,
         \A w \in Workers, e \in Changes : Counted(w, e)' = Counted(w, e)
  PROVE  AuditsAddUp'
BY DEF AuditInv, AuditsAddUp, Counted

\* What another request does leaves this one's status and marks alone.
Same(q) == /\ status'[q] = status[q]
           /\ q \in changed' <=> q \in changed
           /\ q \in registered' <=> q \in registered

\* A request moves without the lock.
LEMMA QuietKeeps ==
  ASSUME AuditInv, NEW r \in Requests, NEW p,
         pc' = [pc EXCEPT ![r] = p], p \notin Holding, pc[r] \notin Holding,
         UNCHANGED <<req, lock, audits, read, audited>>,
         DOMAIN status' = Requests, changed' \subseteq Requests, registered' \subseteq Requests,
         \A q \in Requests \ {r} : Same(q),
         ReqInv(r)'
  PROVE  AuditInv'
<1>0. Types /\ LockInv /\ ReadInv /\ \A q \in Requests : ReqInv(q)
  BY DEF AuditInv
<1>1. \A q \in Requests : pc'[q] \in Holding <=> pc[q] \in Holding
  BY <1>0 DEF Types
<1>2. \A q \in Requests : pc'[q] = "auditing" <=> pc[q] = "auditing"
  BY <1>0 DEF Types, Holding
<1>3. Types'
  BY <1>0 DEF Types
<1>4. LockInv'
  BY <1>0, <1>1 DEF LockInv, W
<1>5. ReadInv'
  BY <1>0, <1>2 DEF ReadInv, W
<1>6. \A q \in Requests \ {r} : pc'[q] = pc[q]
  BY <1>0 DEF Types
<1>7. \A q \in Requests : ReqInv(q)'
  <2> SUFFICES ASSUME NEW q \in Requests \ {r} PROVE ReqInv(q)'
    OBVIOUS
  <2>1. pc'[q] = pc[q] /\ Same(q) /\ ReqInv(q) /\ UNCHANGED <<req, audited>>
    BY <1>0, <1>6
  <2> QED
    BY <2>1 DEF ReqInv, W, Trailed, Owes, Same
<1>8. AuditsAddUp'
  <2>1. \A w \in Workers, e \in Changes : Counted(w, e)' = Counted(w, e)
    BY <1>0, <1>2 DEF Counted, W, Types
  <2> QED
    BY <2>1, CountKeeps
<1> QED
  BY <1>3, <1>4, <1>5, <1>7, <1>8 DEF AuditInv

LEMMA AnswerKeeps ==
  ASSUME AuditInv, NEW r \in Requests, NEW code \in Statuses, Answer(r, code),
         UNCHANGED trail,
         pc[r] \notin Holding, pc[r] # "away",
         Owes(r, code) => r \in audited
  PROVE  AuditInv'
<1>1. /\ status' = [status EXCEPT ![r] = code] /\ pc' = [pc EXCEPT ![r] = "exit"]
      /\ UNCHANGED <<req, lock, audits, read, audited, changed, registered>>
  BY DEF Answer, Goto, counters, trail
<1>2. Types /\ ReqInv(r)
  BY DEF AuditInv
<1>3. pc'[r] = "exit" /\ status'[r] = code
  BY <1>1, <1>2 DEF Types
<1>4. ReqInv(r)'
  BY <1>1, <1>2, <1>3 DEF ReqInv, W, After, Trailed, Owes
<1>5. /\ DOMAIN status' = Requests /\ changed' \subseteq Requests /\ registered' \subseteq Requests
      /\ \A q \in Requests \ {r} : Same(q)
  BY <1>1, <1>2 DEF Types, Same
<1>6. "exit" \notin Holding
  BY DEF Holding
<1> QED
  BY <1>1, <1>4, <1>5, <1>6, QuietKeeps

\* A request goes on, with the status it has.
LEMMA MoveKeeps ==
  ASSUME AuditInv, NEW r \in Requests, NEW p, Goto(r, p), p \notin Holding, pc[r] \notin Holding,
         UNCHANGED <<req, status, lock, audits, read, trail>>, ReqInv(r)'
  PROVE  AuditInv'
<1>1. Types
  BY DEF AuditInv
<1>2. /\ DOMAIN status' = Requests /\ changed' \subseteq Requests /\ registered' \subseteq Requests
      /\ \A q \in Requests \ {r} : Same(q)
      /\ UNCHANGED audited
  BY <1>1 DEF trail, Types, Same
<1> QED
  BY <1>2, QuietKeeps DEF Goto

\* What a request under way is known to be.
LEMMA AtFacts ==
  ASSUME AuditInv, NEW r \in Requests, NEW here, At(r, here)
  PROVE  /\ pc[r] = here /\ ReqInv(r) /\ Types
         /\ \A p : Goto(r, p) => pc'[r] = p
BY DEF AuditInv, At, Goto, Types

LEMMA MiddlewareKeeps ==
  ASSUME AuditInv, NEW r \in Requests, Enter(r) \/ Admit(r) \/ Exit(r) \/ Refuse(r)
  PROVE  AuditInv'
<1> USE DEF counters, trail
<1>1. CASE Enter(r)
  <2>1. /\ At(r, "enter") /\ Goto(r, "auth")
        /\ UNCHANGED <<req, status, lock, audits, read, trail>>
    BY <1>1 DEF Enter
  <2>2. ReqInv(r)'
    BY <2>1, AtFacts DEF ReqInv, W, After, Trailed, Owes
  <2> QED
    BY <2>1, <2>2, AtFacts, MoveKeeps DEF Holding
<1>2. CASE Admit(r)
  <2>1. /\ At(r, "auth") /\ Goto(r, "handle")
        /\ UNCHANGED <<req, status, lock, audits, read, trail>>
    BY <1>2 DEF Admit
  <2>2. ReqInv(r)'
    BY <2>1, AtFacts DEF ReqInv, W, After, Trailed, Owes
  <2> QED
    BY <2>1, <2>2, AtFacts, MoveKeeps DEF Holding
<1>3. CASE Exit(r)
  <2>1. /\ At(r, "exit") /\ Goto(r, "record")
        /\ UNCHANGED <<req, status, lock, audits, read, trail>>
    BY <1>3 DEF Exit
  <2>2. ReqInv(r)'
    BY <2>1, AtFacts DEF ReqInv, W, After, Trailed, Owes
  <2> QED
    BY <2>1, <2>2, AtFacts, MoveKeeps DEF Holding
<1>4. CASE Refuse(r)
  <2>1. At(r, "auth") /\ Answer(r, 401) /\ UNCHANGED trail
    BY <1>4 DEF Refuse
  <2>2. ~Owes(r, 401)
    BY <2>1, AtFacts DEF ReqInv, Trailed, Owes
  <2> QED
    BY <2>1, <2>2, AtFacts, AnswerKeeps DEF Statuses, Holding
<1> QED
  BY <1>1, <1>2, <1>3, <1>4

\* A handler that raises is answered with a failure.
LEMMA RaiseKeeps ==
  ASSUME AuditInv, NEW r \in Requests, Raise(r),
         pc[r] \in {"handle", "load", "derive", "dispatch"},
         pc[r] = "derive" => req[r].endpoint = "remove"
  PROVE  AuditInv'
<1>1. PICK code \in {401, 500} : Answer(r, code)
  BY DEF Raise
<1>2. UNCHANGED trail
  BY DEF Raise
<1>3. ReqInv(r)
  BY DEF AuditInv
<1>4. Owes(r, code) => r \in audited
  BY <1>1, <1>3 DEF ReqInv, Trailed, Owes
<1> QED
  BY <1>1, <1>2, <1>4, AnswerKeeps DEF Statuses, Holding

LEMMA ReadersKeep ==
  ASSUME AuditInv, NEW r \in Requests, View(r) \/ Scrape(r) \/ Dispatch(r)
  PROVE  AuditInv'
<1>1. pc[r] \in {"handle", "dispatch"}
  BY DEF View, Scrape, Dispatch, At
<1>2. pc[r] = "dispatch" => r \in audited
  BY DEF AuditInv, ReqInv, Trailed
<1>3. CASE Raise(r)
  BY <1>1, <1>3, RaiseKeeps
<1>4. CASE (View(r) \/ Dispatch(r)) /\ Answer(r, 200) /\ UNCHANGED trail
  <2>1. Owes(r, 200) => r \in audited
    BY <1>2, <1>4 DEF View, Dispatch, At, Owes, Changes
  <2> QED
    BY <1>1, <1>4, <2>1, AnswerKeeps DEF Statuses, Holding
<1>5. CASE Scrape(r)
  <2>1. /\ Goto(r, "exit") /\ status' = [status EXCEPT ![r] = 200]
        /\ UNCHANGED <<req, lock, audits, read, audited, changed, registered>>
        /\ req[r].endpoint = "metrics"
    BY <1>5 DEF Scrape, counters, trail
  <2>2. Types /\ ReqInv(r)
    BY DEF AuditInv
  <2>3. /\ DOMAIN status' = Requests /\ changed' \subseteq Requests /\ registered' \subseteq Requests
        /\ \A q \in Requests \ {r} : Same(q)
        /\ pc'[r] = "exit" /\ status'[r] = 200
    BY <2>1, <2>2 DEF Types, Goto, Same
  <2>4. ReqInv(r)'
    BY <1>1, <1>2, <2>1, <2>2, <2>3 DEF ReqInv, W, After, Statuses, Trailed, Owes, Changes
  <2> QED
    BY <1>1, <2>1, <2>3, <2>4, QuietKeeps DEF Goto, Holding
<1> QED
  BY <1>3, <1>4, <1>5 DEF View, Dispatch

\* A handler goes on, with a status that it may have set, and marks itself at most.
LEMMA HandlerMoves ==
  ASSUME AuditInv, NEW r \in Requests, NEW p \in {"load", "derive", "audit"}, Goto(r, p),
         pc[r] \in {"handle", "load", "derive"}, req[r].endpoint \in Changes,
         p \in {"load", "derive"} => req[r].endpoint # "add",
         UNCHANGED <<req, lock, audits, read, audited>>,
         \/ UNCHANGED <<status, changed, registered>>
         \/ (\E code \in Statuses : status' = [status EXCEPT ![r] = code])
              /\ UNCHANGED <<changed, registered>>
         \/ registered' = registered \cup {r} /\ UNCHANGED <<status, changed>>
         \/ changed' = changed \cup {r} /\ UNCHANGED <<status, registered>> /\ p # "load",
         p = "load" => pc[r] = "handle"
  PROVE  AuditInv'
<1>1. Types /\ ReqInv(r)
  BY DEF AuditInv
<1>2. pc' = [pc EXCEPT ![r] = p] /\ pc'[r] = p
  BY <1>1 DEF Goto, Types
<1>3. /\ DOMAIN status' = Requests /\ changed' \subseteq Requests /\ registered' \subseteq Requests
      /\ \A q \in Requests \ {r} : Same(q)
      /\ status'[r] \in Statuses
  BY <1>1 DEF Types, Same, ReqInv
<1>4. r \notin audited
  BY <1>1 DEF ReqInv, After
<1>5. p = "load" => r \notin changed'
  BY <1>1 DEF ReqInv, Trailed
<1>6. ReqInv(r)'
  BY <1>1, <1>2, <1>3, <1>4, <1>5 DEF ReqInv, W, Trailed, Owes
<1>7. p \notin Holding /\ pc[r] \notin Holding
  BY DEF Holding
<1> QED
  BY <1>2, <1>3, <1>6, <1>7, QuietKeeps

LEMMA RegisterKeeps ==
  ASSUME AuditInv, NEW r \in Requests, Register(r)
  PROVE  AuditInv'
<1> USE DEF counters, trail
<1>1. pc[r] = "handle" /\ req[r].endpoint \in Changes
  BY DEF Register, At
<1>2. ASSUME registered' = registered \cup {r},
             Goto(r, IF req[r].endpoint = "add" THEN "audit" ELSE "load"),
             UNCHANGED <<req, status, lock, counters, read, changed, audited>>
      PROVE  AuditInv'
  <2>1. CASE req[r].endpoint = "add"
    <3>1. Goto(r, "audit")
      BY <1>2, <2>1
    <3> QED
      BY <1>1, <1>2, <3>1, HandlerMoves
  <2>2. CASE req[r].endpoint # "add"
    <3>1. Goto(r, "load")
      BY <1>2, <2>2
    <3> QED
      BY <1>1, <1>2, <2>2, <3>1, HandlerMoves
  <2> QED
    BY <2>1, <2>2
<1>3. ASSUME req[r].endpoint \in {"upload", "sample"}, Goto(r, "load"),
             UNCHANGED <<req, status, lock, counters, read, trail>>
      PROVE  AuditInv'
  BY <1>1, <1>3, HandlerMoves
<1>4. ASSUME Raise(r) PROVE AuditInv'
  BY <1>1, <1>4, RaiseKeeps
<1> QED
  BY <1>2, <1>3, <1>4 DEF Register

LEMMA ChangeKeeps ==
  ASSUME AuditInv, NEW r \in Requests, Change(r)
  PROVE  AuditInv'
<1> USE DEF counters, trail
<1>1. /\ pc[r] = "load" /\ req[r].endpoint \in Changes /\ req[r].endpoint # "add"
      /\ r \notin changed
  BY DEF Change, At, AuditInv, ReqInv, Trailed
<1>2. ASSUME changed' = changed \cup {r}, Goto(r, "derive"),
             UNCHANGED <<req, status, lock, counters, read, registered, audited>>
      PROVE  AuditInv'
  BY <1>1, <1>2, HandlerMoves
<1>3. ASSUME status' = [status EXCEPT ![r] = 422], Goto(r, "audit"),
             UNCHANGED <<req, lock, counters, read, trail>>
      PROVE  AuditInv'
  BY <1>1, <1>3, HandlerMoves DEF Statuses
<1>4. ASSUME req[r].endpoint = "sample", Answer(r, 422), UNCHANGED trail PROVE AuditInv'
  <2>1. ~Owes(r, 422)
    BY <1>4 DEF Owes
  <2> QED
    BY <1>1, <1>4, <2>1, AnswerKeeps DEF Statuses, Holding
<1>5. ASSUME Raise(r) PROVE AuditInv'
  BY <1>1, <1>5, RaiseKeeps
<1> QED
  BY <1>2, <1>3, <1>4, <1>5 DEF Change

LEMMA DeriveKeeps ==
  ASSUME AuditInv, NEW r \in Requests, Derive(r)
  PROVE  AuditInv'
<1> USE DEF counters, trail
<1>1. pc[r] = "derive" /\ req[r].endpoint \in Changes
  BY DEF Derive, At, AuditInv, ReqInv
<1>2. ASSUME Goto(r, "audit"), status' = [status EXCEPT ![r] = 200] \/ UNCHANGED status,
             UNCHANGED <<req, lock, counters, read, trail>>
      PROVE  AuditInv'
  BY <1>1, <1>2, HandlerMoves DEF Statuses
<1>3. ASSUME req[r].endpoint = "sample", Answer(r, 500), UNCHANGED trail PROVE AuditInv'
  <2>1. ~Owes(r, 500)
    BY <1>3 DEF Owes
  <2> QED
    BY <1>1, <1>3, <2>1, AnswerKeeps DEF Statuses, Holding
<1>4. ASSUME req[r].endpoint = "remove", Raise(r) PROVE AuditInv'
  BY <1>1, <1>4, RaiseKeeps
<1> QED
  BY <1>2, <1>3, <1>4 DEF Derive

LEMMA ArriveKeeps ==
  ASSUME AuditInv, NEW r \in Requests, NEW w \in Workers, NEW e \in Endpoints,
         NEW known \in BOOLEAN, Arrive(r, w, e, known)
  PROVE  AuditInv'
<1>1. pc[r] = "away" /\ Types /\ LockInv /\ ReadInv /\ \A q \in Requests : ReqInv(q)
  BY DEF Arrive, At, AuditInv
<1>2. r \notin changed /\ r \notin registered /\ r \notin audited
  BY <1>1 DEF ReqInv, After, Trailed
<1>3. PICK p, d : req' = [req EXCEPT ![r] = [endpoint |-> e, path |-> p, worker |-> w,
                                             known |-> known, took |-> d]]
  BY DEF Arrive
<1>4. /\ pc' = [pc EXCEPT ![r] = "enter"]
      /\ UNCHANGED <<status, lock, audits, read, registered, changed, audited>>
  BY DEF Arrive, Goto, counters, trail
<1>5. /\ pc'[r] = "enter" /\ W(r)' = w
      /\ \A q \in Requests \ {r} : pc'[q] = pc[q] /\ req'[q] = req[q] /\ W(q)' = W(q)
  BY <1>1, <1>3, <1>4 DEF Types, W
<1>6. Types'
  BY <1>1, <1>3, <1>4 DEF Types
<1>7. LockInv'
  BY <1>1, <1>4, <1>5 DEF LockInv, Holding
<1>8. ReadInv'
  BY <1>1, <1>4, <1>5 DEF ReadInv
<1>9. \A q \in Requests : ReqInv(q)'
  <2>1. ReqInv(r)'
    BY <1>1, <1>2, <1>4, <1>5 DEF ReqInv, Trailed
  <2>2. ASSUME NEW q \in Requests \ {r} PROVE ReqInv(q)'
    BY <1>1, <1>4, <1>5, <2>2 DEF ReqInv, Trailed, Owes
  <2> QED
    BY <2>1, <2>2
<1>10. AuditsAddUp'
  <2>1. \A v \in Workers, c \in Changes : Counted(v, c)' = Counted(v, c)
    BY <1>1, <1>2, <1>4, <1>5 DEF Counted, Types
  <2> QED
    BY <1>4, <2>1, CountKeeps
<1> QED
  BY <1>6, <1>7, <1>8, <1>9, <1>10 DEF AuditInv

-----------------------------------------------------------------------------

\* A free lock is taken, by a request that moves to where it is held.
LEMMA LockTaken ==
  ASSUME AuditInv, NEW r \in Requests, NEW p \in Holding,
         pc' = [pc EXCEPT ![r] = p], pc[r] \notin Holding, W(r) \in Workers,
         Unlocked(r), lock' = [lock EXCEPT ![W(r)] = r], UNCHANGED req
  PROVE  LockInv'
<1>1. Types /\ LockInv /\ Free \notin Requests
  BY MetricsAssumption DEF AuditInv
<1>2. /\ pc'[r] = p /\ lock'[W(r)] = r
      /\ \A q \in Requests : W(q)' = W(q)
      /\ \A q \in Requests \ {r} : pc'[q] = pc[q]
      /\ \A w \in Workers \ {W(r)} : lock'[w] = lock[w]
  BY <1>1 DEF Types, W
<1>3. ASSUME NEW q \in Requests, pc'[q] \in Holding PROVE lock'[W(q)'] = q
  <2>1. CASE q = r
    BY <1>2, <2>1
  <2>2. CASE q # r
    <3>1. lock[W(q)] = q
      BY <1>1, <1>2, <1>3, <2>2 DEF LockInv
    <3>2. W(q) # W(r)
      BY <1>1, <3>1 DEF Unlocked
    <3> QED
      BY <1>1, <1>2, <3>1, <3>2 DEF Types
  <2> QED
    BY <2>1, <2>2
<1>4. ASSUME NEW w \in Workers, lock'[w] # Free
      PROVE  lock'[w] \in Requests /\ pc'[lock'[w]] \in Holding /\ req[lock'[w]].worker = w
  <2>1. CASE w = W(r)
    BY <1>2, <2>1 DEF W
  <2>2. CASE w # W(r)
    <3>1. lock'[w] = lock[w]
      BY <1>2, <2>2
    <3>2. lock[w] \in Requests /\ pc[lock[w]] \in Holding /\ W(lock[w]) = w
      BY <1>1, <1>4, <3>1 DEF LockInv
    <3>3. lock[w] # r
      BY <2>2, <3>2
    <3> QED
      BY <1>2, <3>1, <3>2, <3>3 DEF W
  <2> QED
    BY <2>1, <2>2
<1> QED
  BY <1>3, <1>4 DEF LockInv, W

\* It is let go by the request that holds it.
LEMMA LockGiven ==
  ASSUME AuditInv, NEW r \in Requests, NEW p, p \notin Holding,
         pc' = [pc EXCEPT ![r] = p], pc[r] \in Holding, W(r) \in Workers,
         lock' = [lock EXCEPT ![W(r)] = Free], UNCHANGED req
  PROVE  LockInv'
<1>1. Types /\ LockInv /\ Free \notin Requests
  BY MetricsAssumption DEF AuditInv
<1>2. /\ pc'[r] = p /\ lock'[W(r)] = Free /\ lock[W(r)] = r
      /\ \A q \in Requests : W(q)' = W(q)
      /\ \A q \in Requests \ {r} : pc'[q] = pc[q]
      /\ \A w \in Workers \ {W(r)} : lock'[w] = lock[w]
  BY <1>1 DEF Types, W, LockInv
<1>3. ASSUME NEW q \in Requests, pc'[q] \in Holding PROVE lock'[W(q)'] = q
  <2>1. q # r
    BY <1>2, <1>3
  <2>2. lock[W(q)] = q
    BY <1>1, <1>2, <1>3, <2>1 DEF LockInv
  <2>3. W(q) # W(r)
    BY <1>2, <2>1, <2>2
  <2> QED
    BY <1>1, <1>2, <2>2, <2>3 DEF Types
<1>4. ASSUME NEW w \in Workers, lock'[w] # Free
      PROVE  lock'[w] \in Requests /\ pc'[lock'[w]] \in Holding /\ req[lock'[w]].worker = w
  <2>1. w # W(r)
    BY <1>2, <1>4
  <2>2. lock'[w] = lock[w]
    BY <1>2, <2>1
  <2>3. lock[w] \in Requests /\ pc[lock[w]] \in Holding /\ W(lock[w]) = w
    BY <1>1, <1>4, <2>2 DEF LockInv
  <2>4. lock[w] # r
    BY <2>1, <2>3
  <2> QED
    BY <1>2, <2>2, <2>3, <2>4 DEF W
<1> QED
  BY <1>3, <1>4 DEF LockInv, W

LEMMA RecordKeeps ==
  ASSUME AuditInv, NEW r \in Requests, Record(r) \/ Recorded(r)
  PROVE  AuditInv'
<1>1. /\ Types /\ LockInv /\ ReadInv /\ \A q \in Requests : ReqInv(q)
      /\ pc[r] \in {"record", "recording"}
      /\ UNCHANGED <<req, status, audits, read, registered, changed, audited>>
  BY DEF Record, Recorded, At, AuditInv, trail
<1>2. W(r) \in Workers
  BY <1>1 DEF ReqInv
<1>3. PICK p \in {"recording", "done"} : pc' = [pc EXCEPT ![r] = p]
  BY DEF Record, Recorded, Goto
<1>4. pc'[r] = p /\ \A q \in Requests \ {r} : pc'[q] = pc[q]
  BY <1>1, <1>3 DEF Types
<1>5. LockInv'
  <2>1. CASE Record(r)
    <3>1. /\ pc' = [pc EXCEPT ![r] = "recording"] /\ pc[r] = "record" /\ Unlocked(r)
          /\ lock' = [lock EXCEPT ![W(r)] = r]
      BY <2>1 DEF Record, Goto, At
    <3> QED
      BY <1>1, <1>2, <3>1, LockTaken DEF Holding
  <2>2. CASE Recorded(r)
    <3>1. /\ pc' = [pc EXCEPT ![r] = "done"] /\ pc[r] = "recording"
          /\ lock' = [lock EXCEPT ![W(r)] = Free]
      BY <2>2 DEF Recorded, Goto, At
    <3> QED
      BY <1>1, <1>2, <3>1, LockGiven DEF Holding
  <2> QED
    BY <2>1, <2>2
<1>6. Types'
  <2>1. DOMAIN lock' = DOMAIN lock
    BY DEF Record, Recorded
  <2> QED
    BY <1>1, <1>3, <2>1 DEF Types
<1>7. ReadInv'
  BY <1>1, <1>4 DEF ReadInv, W
<1>8. \A q \in Requests : ReqInv(q)'
  <2>1. ReqInv(r)'
    BY <1>1, <1>4 DEF ReqInv, W, After, Trailed, Owes
  <2>2. ASSUME NEW q \in Requests \ {r} PROVE ReqInv(q)'
    BY <1>1, <1>4, <2>2 DEF ReqInv, W, Trailed, Owes
  <2> QED
    BY <2>1, <2>2
<1>9. AuditsAddUp'
  <2>1. \A w \in Workers, e \in Changes : Counted(w, e)' = Counted(w, e)
    BY <1>1, <1>4 DEF Counted, W, Types
  <2> QED
    BY <1>1, <2>1, CountKeeps
<1> QED
  BY <1>5, <1>6, <1>7, <1>8, <1>9 DEF AuditInv

\* The line is written and not yet counted.
LEMMA AuditKeeps ==
  ASSUME AuditInv, NEW r \in Requests, Audit(r)
  PROVE  AuditInv'
<1>1. /\ Types /\ LockInv /\ ReadInv /\ \A q \in Requests : ReqInv(q)
      /\ pc[r] = "audit" /\ Unlocked(r) /\ audited' = audited \cup {r}
      /\ pc' = [pc EXCEPT ![r] = "auditing"] /\ lock' = [lock EXCEPT ![W(r)] = r]
      /\ read' = [read EXCEPT ![r] = audits[W(r)][req[r].endpoint]]
      /\ UNCHANGED <<req, status, audits, registered, changed>>
  BY DEF Audit, At, Goto, AuditInv, counters
<1>2. W(r) \in Workers /\ r \notin audited
  BY <1>1 DEF ReqInv, After
<1>3. /\ pc'[r] = "auditing" /\ read'[r] = audits[W(r)][req[r].endpoint]
      /\ \A q \in Requests \ {r} : pc'[q] = pc[q] /\ read'[q] = read[q]
  BY <1>1 DEF Types
<1>4. LockInv'
  BY <1>1, <1>2, LockTaken DEF Holding
<1>5. Types'
  BY <1>1 DEF Types
<1>6. ReadInv'
  BY <1>1, <1>3 DEF ReadInv, W
<1>7. \A q \in Requests : ReqInv(q)'
  <2>1. ReqInv(r)'
    BY <1>1, <1>2, <1>3 DEF ReqInv, W, After, Trailed, Owes
  <2>2. ASSUME NEW q \in Requests \ {r} PROVE ReqInv(q)'
    BY <1>1, <1>3, <2>2 DEF ReqInv, W, Trailed, Owes
  <2> QED
    BY <2>1, <2>2
<1>8. AuditsAddUp'
  <2>1. \A w \in Workers, e \in Changes : Counted(w, e)' = Counted(w, e)
    BY <1>1, <1>2, <1>3 DEF Counted, W, Types
  <2> QED
    BY <1>1, <2>1, CountKeeps
<1> QED
  BY <1>4, <1>5, <1>6, <1>7, <1>8 DEF AuditInv

\* It is counted.
LEMMA AuditedKeeps ==
  ASSUME AuditInv, NEW r \in Requests, Audited(r)
  PROVE  AuditInv'
<1> DEFINE v == W(r)
           c == req[r].endpoint
           p == IF c = "add" \/ status[r] = 200 THEN "dispatch" ELSE "exit"
<1>1. /\ Types /\ LockInv /\ ReadInv /\ AuditsAddUp /\ \A q \in Requests : ReqInv(q)
      /\ pc[r] = "auditing" /\ pc' = [pc EXCEPT ![r] = p]
      /\ audits' = [audits EXCEPT ![v][c] = read[r] + 1]
      /\ lock' = [lock EXCEPT ![v] = IF @ = r THEN Free ELSE @]
      /\ UNCHANGED <<req, status, read, registered, changed, audited>>
  BY DEF Audited, At, Goto, AuditInv, trail
<1>2. v \in Workers /\ c \in Changes /\ r \in audited /\ lock[v] = r
  BY <1>1 DEF ReqInv, Trailed, LockInv, Holding
<1>3. /\ pc'[r] = p /\ p \in {"dispatch", "exit"}
      /\ \A q \in Requests \ {r} : pc'[q] = pc[q]
  BY <1>1 DEF Types
<1>4. audits' = [audits EXCEPT ![v][c] = @ + 1]
  <2>1. read[r] = audits[v][c]
    BY <1>1 DEF ReadInv
  <2> QED
    BY <1>1, <2>1
<1>5. LockInv'
  <2>1. lock' = [lock EXCEPT ![W(r)] = Free]
    BY <1>1, <1>2
  <2>2. p \notin Holding /\ pc[r] \in Holding
    BY <1>1 DEF Holding
  <2> HIDE DEF p
  <2> QED
    BY <1>1, <1>2, <2>1, <2>2, LockGiven
<1>6. audits' \in [Workers -> [Changes -> Nat]]
  BY <1>1, <1>2, <1>4 DEF Types
<1>7. Types'
  BY <1>1, <1>6 DEF Types
<1>8. ReadInv'
  <2> SUFFICES ASSUME NEW q \in Requests, pc'[q] = "auditing"
               PROVE  read[q] = audits'[W(q)][req[q].endpoint]
    BY <1>1 DEF ReadInv, W
  <2>1. q # r
    BY <1>3
  <2>2. pc[q] = "auditing" /\ read[q] = audits[W(q)][req[q].endpoint]
    BY <1>1, <1>3, <2>1 DEF ReadInv
  <2>3. lock[W(q)] = q
    BY <1>1, <2>2 DEF LockInv, Holding
  <2>4. W(q) # v /\ W(q) \in Workers
    BY <1>1, <1>2, <2>1, <2>2, <2>3 DEF ReqInv
  <2>5. audits'[W(q)] = audits[W(q)]
    BY <1>1, <2>4 DEF Types
  <2> QED
    BY <2>2, <2>5
<1>9. \A q \in Requests : ReqInv(q)'
  <2>1. ReqInv(r)'
    BY <1>1, <1>2, <1>3 DEF ReqInv, W, After, Trailed, Owes
  <2>2. ASSUME NEW q \in Requests \ {r} PROVE ReqInv(q)'
    BY <1>1, <1>3, <2>2 DEF ReqInv, W, Trailed, Owes
  <2> QED
    BY <2>1, <2>2
<1>10. AuditsAddUp'
  <2> SUFFICES ASSUME NEW w \in Workers, NEW e \in Changes
               PROVE  audits'[w][e] = Cardinality(Counted(w, e)')
    BY DEF AuditsAddUp, Counted
  <2>1. audits[w][e] = Cardinality(Counted(w, e))
    BY <1>1 DEF AuditsAddUp, Counted
  <2>2. CASE w = v /\ e = c
    <3>1. Counted(w, e)' = Counted(w, e) \cup {r} /\ r \notin Counted(w, e)
      BY <1>1, <1>2, <1>3, <2>2 DEF Counted, W, Types
    <3>2. IsFiniteSet(Counted(w, e))
      <4>1. Counted(w, e) \subseteq Requests /\ IsFiniteSet(Requests)
        BY <1>1, MetricsAssumption DEF Counted, Types
      <4> QED
        BY <4>1, FS_Subset
    <3>3. Cardinality(Counted(w, e)') = Cardinality(Counted(w, e)) + 1
      BY <3>1, <3>2, FS_AddElement
    <3>4. audits'[w][e] = audits[w][e] + 1
      BY <1>1, <1>2, <1>4, <2>2 DEF Types
    <3> QED
      BY <2>1, <3>3, <3>4
  <2>3. CASE ~(w = v /\ e = c)
    <3>1. Counted(w, e)' = Counted(w, e)
      BY <1>1, <1>3, <2>3 DEF Counted, W, Types
    <3>2. audits'[w][e] = audits[w][e]
      BY <1>1, <1>2, <1>4, <2>3 DEF Types
    <3> QED
      BY <2>1, <3>1, <3>2
  <2> QED
    BY <2>2, <2>3
<1> QED
  BY <1>5, <1>7, <1>8, <1>9, <1>10 DEF AuditInv

LEMMA AuditNext == AuditInv /\ [Next]_vars => AuditInv'
<1> SUFFICES ASSUME AuditInv, [Next]_vars PROVE AuditInv'
  OBVIOUS
<1>1. ASSUME NEW r \in Requests, NEW w \in Workers, NEW e \in Endpoints, NEW known \in BOOLEAN,
             Arrive(r, w, e, known)
      PROVE  AuditInv'
  BY <1>1, ArriveKeeps
<1>2. ASSUME NEW r \in Requests, Step(r) PROVE AuditInv'
  BY <1>2, MiddlewareKeeps, ReadersKeep, RegisterKeeps, ChangeKeeps, DeriveKeeps, RecordKeeps, AuditKeeps,
     AuditedKeeps DEF Step
<1>3. CASE UNCHANGED others
  <2>1. UNCHANGED <<pc, req, status, lock, audits, read, registered, changed, audited>>
    BY <1>3 DEF others, counters, trail
  <2>2. Types' /\ LockInv' /\ ReadInv' /\ \A q \in Requests : ReqInv(q)'
    BY <2>1 DEF AuditInv, Types, LockInv, ReadInv, ReqInv, Trailed, Owes, W
  <2>3. AuditsAddUp'
    BY <2>1 DEF AuditInv, AuditsAddUp, W
  <2> QED
    BY <2>2, <2>3 DEF AuditInv
<1> QED
  BY <1>1, <1>2, <1>3 DEF Next, Served, Kill, vars, others

-----------------------------------------------------------------------------

(***************************************************************************)
(* The counters of requests: what is in flight and what was sent.          *)
(***************************************************************************)
Outside == {"away", "enter", "record", "recording", "done"}

Handling(w) ==
  {r \in Requests : pc[r] \notin {"away", "enter", "record", "recording", "done"} /\ W(r) = w}

RecordedAs(w, s) ==
  {r \in Requests : pc[r] \in {"recording", "done"} /\ W(r) = w /\ <<L(r), status[r]>> = s}

CountInv ==
  /\ total \in [Workers -> [Series -> Nat]]
  /\ inflight \in [Workers -> Nat]
  /\ \A r \in Requests : pc[r] # "away" => req[r].path \in Paths
  /\ \A w \in Workers : inflight[w] = Cardinality(Handling(w))
  /\ \A w \in Workers, s \in Series : total[w][s] = Cardinality(RecordedAs(w, s))

LEMMA CountInit == Init => CountInv
<1> SUFFICES ASSUME Init PROVE CountInv
  OBVIOUS
<1>1. \A w, s : Handling(w) = {} /\ RecordedAs(w, s) = {}
  BY DEF Init, Handling, RecordedAs
<1>2. /\ total = [w \in Workers |-> [s \in Series |-> 0]]
      /\ inflight = [w \in Workers |-> 0]
      /\ pc = [r \in Requests |-> "away"]
  BY DEF Init
<1> QED
  BY <1>1, <1>2, FS_EmptySet DEF CountInv

\* A set of requests with one more, or one less.
LEMMA OneMore ==
  ASSUME NEW S, S \subseteq Requests, NEW r \in Requests, r \notin S
  PROVE  Cardinality(S \cup {r}) = Cardinality(S) + 1
<1>1. IsFiniteSet(S)
  BY MetricsAssumption, FS_Subset
<1> QED
  BY <1>1, FS_AddElement

LEMMA OneLess ==
  ASSUME NEW S, S \subseteq Requests, NEW r \in S
  PROVE  Cardinality(S \ {r}) = Cardinality(S) - 1
<1>1. IsFiniteSet(S)
  BY MetricsAssumption, FS_Subset
<1> QED
  BY <1>1, FS_RemoveElement

\* What is sent is recorded in a series of its own worker.
LEMMA InSeries ==
  ASSUME AuditInv, CountInv, NEW r \in Requests, pc[r] # "away"
  PROVE  W(r) \in Workers /\ <<L(r), status[r]>> \in Series
<1>1. req[r].path \in Paths /\ status[r] \in Statuses /\ W(r) \in Workers
  BY DEF AuditInv, ReqInv, CountInv
<1>2. L(r) \in Labels
  BY <1>1 DEF L, Labels
<1> QED
  BY <1>1, <1>2 DEF Series

\* A request that moves, while the counters stand still.
LEMMA CountsStand ==
  ASSUME AuditInv, CountInv, NEW r \in Requests, NEW p, pc' = [pc EXCEPT ![r] = p],
         pc[r] \notin Outside <=> p \notin Outside,
         pc[r] \in {"recording", "done"} <=> p \in {"recording", "done"},
         pc[r] # "away", UNCHANGED <<req, total, inflight>>,
         \A q \in Requests : q # r \/ p \in {"recording", "done"} => status'[q] = status[q]
  PROVE  CountInv'
<1>1. pc'[r] = p /\ \A q \in Requests \ {r} : pc'[q] = pc[q]
  BY DEF AuditInv, Types
<1>2. \A w \in Workers : Handling(w)' = Handling(w)
  BY <1>1 DEF Handling, Outside, W
<1>3. \A w \in Workers, s \in Series : RecordedAs(w, s)' = RecordedAs(w, s)
  BY <1>1 DEF RecordedAs, W, L
<1>4. \A q \in Requests : pc'[q] # "away" => req'[q].path \in Paths
  BY <1>1 DEF CountInv
<1> QED
  BY <1>2, <1>3, <1>4 DEF CountInv

\* Handlers move from one place inside to another and leave these counters alone.
LEMMA HandlersStand ==
  ASSUME AuditInv, CountInv, NEW r \in Requests,
         \/ Refuse(r) \/ Admit(r) \/ View(r) \/ Scrape(r) \/ Register(r) \/ Change(r)
         \/ Derive(r) \/ Audit(r) \/ Audited(r) \/ Dispatch(r)
  PROVE  CountInv'
<1> DEFINE Moves(p) == /\ pc' = [pc EXCEPT ![r] = p] /\ p \notin Outside /\ pc[r] \notin Outside
                       /\ UNCHANGED <<req, total, inflight>>
                       /\ \A q \in Requests : q # r => status'[q] = status[q]
<1> USE DEF counters
<1>1. Types
  BY DEF AuditInv
<1>2. ASSUME NEW code, Answer(r, code), pc[r] \notin Outside PROVE Moves("exit")
  BY <1>1, <1>2 DEF Answer, Goto, Types, Outside
<1>3. ASSUME Raise(r), pc[r] \notin Outside PROVE Moves("exit")
  BY <1>2, <1>3 DEF Raise
<1>4. ASSUME NEW p, Goto(r, p), p \notin Outside, pc[r] \notin Outside,
             UNCHANGED <<req, total, inflight>>,
             status' = status \/ \E code : status' = [status EXCEPT ![r] = code]
      PROVE  Moves(p)
  BY <1>1, <1>4 DEF Goto, Types
<1>5. CASE Refuse(r) \/ Admit(r) \/ View(r) \/ Scrape(r) \/ Dispatch(r)
  <2>1. pc[r] \notin Outside
    BY <1>5 DEF Refuse, Admit, View, Scrape, Dispatch, At, Outside
  <2>2. Moves("exit") \/ Moves("handle")
    BY <1>2, <1>3, <1>4, <1>5, <2>1 DEF Refuse, Admit, View, Scrape, Dispatch, Outside
  <2> QED
    BY <2>2, CountsStand DEF Outside
<1>6. CASE Register(r) \/ Change(r) \/ Derive(r)
  <2>1. pc[r] \notin Outside
    BY <1>6 DEF Register, Change, Derive, At, Outside
  <2>2. Moves("exit") \/ Moves("audit") \/ Moves("derive") \/ Moves("load")
    <3>0. CASE Register(r)
      BY <1>2, <1>3, <1>4, <2>1, <3>0 DEF Register, Outside
    <3>1. CASE Change(r)
      BY <1>2, <1>3, <1>4, <2>1, <3>1 DEF Change, Outside
    <3>2. CASE Derive(r)
      BY <1>2, <1>3, <1>4, <2>1, <3>2 DEF Derive, Outside
    <3> QED
      BY <1>6, <3>0, <3>1, <3>2
  <2> QED
    BY <2>2, CountsStand DEF Outside
<1>7. CASE Audit(r) \/ Audited(r)
  <2>1. pc[r] \notin Outside
    BY <1>7 DEF Audit, Audited, At, Outside
  <2>2. Moves("exit") \/ Moves("auditing") \/ Moves("dispatch")
    <3>1. CASE Audit(r)
      BY <1>4, <2>1, <3>1 DEF Audit, Outside
    <3>2. CASE Audited(r)
      BY <1>4, <2>1, <3>2 DEF Audited, Outside
    <3> QED
      BY <1>7, <3>1, <3>2
  <2> QED
    BY <2>2, CountsStand DEF Outside
<1> QED
  BY <1>5, <1>6, <1>7

\* inflight goes up on the way in and down on the way out.
LEMMA InflightFollows ==
  ASSUME AuditInv, CountInv, NEW r \in Requests, Enter(r) \/ Exit(r)
  PROVE  CountInv'
<1>1. /\ Types /\ pc[r] \in {"enter", "exit"}
      /\ UNCHANGED <<req, status, total>>
  BY DEF Enter, Exit, At, AuditInv
<1>2. PICK v \in Workers : v = W(r)
  BY <1>1, InSeries
<1>3. PICK p \in {"auth", "record"} : pc' = [pc EXCEPT ![r] = p]
  BY DEF Enter, Exit, Goto
<1>4. /\ pc'[r] = p /\ \A q \in Requests \ {r} : pc'[q] = pc[q]
      /\ \A q \in Requests : W(q)' = W(q)
  BY <1>1, <1>3 DEF Types, W
<1>5. \A w \in Workers, s \in Series : RecordedAs(w, s)' = RecordedAs(w, s)
  BY <1>1, <1>4 DEF RecordedAs, L
<1>6. \A w \in Workers \ {v} : Handling(w)' = Handling(w)
  BY <1>2, <1>4 DEF Handling
<1>7. \A q \in Requests : pc'[q] # "away" => req'[q].path \in Paths
  BY <1>1, <1>4 DEF CountInv
<1>8. Handling(v) \subseteq Requests /\ inflight[v] = Cardinality(Handling(v))
  BY DEF Handling, CountInv
<1>9. inflight[v] \in Nat
  BY DEF CountInv
<1>10. CASE Enter(r)
  <2>1. pc[r] = "enter" /\ pc'[r] = "auth" /\ inflight' = [inflight EXCEPT ![v] = @ + 1]
    BY <1>1, <1>2, <1>10 DEF Enter, Goto, At, Types
  <2>2. Handling(v)' = Handling(v) \cup {r} /\ r \notin Handling(v)
    BY <1>2, <1>4, <2>1 DEF Handling
  <2>3. Cardinality(Handling(v)') = inflight[v] + 1
    BY <1>8, <2>2, OneMore
  <2>4. inflight'[v] = inflight[v] + 1 /\ inflight' \in [Workers -> Nat]
    BY <1>9, <2>1 DEF CountInv
  <2>5. ASSUME NEW w \in Workers PROVE inflight'[w] = Cardinality(Handling(w)')
    <3>1. CASE w = v
      BY <2>3, <2>4, <3>1
    <3>2. CASE w # v
      BY <1>6, <2>1, <3>2 DEF CountInv
    <3> QED
      BY <3>1, <3>2
  <2> QED
    BY <1>1, <1>5, <1>7, <2>4, <2>5 DEF CountInv
<1>11. CASE Exit(r)
  <2>1. pc[r] = "exit" /\ pc'[r] = "record" /\ inflight' = [inflight EXCEPT ![v] = @ - 1]
    BY <1>1, <1>2, <1>11 DEF Exit, Goto, At, Types
  <2>2. Handling(v)' = Handling(v) \ {r} /\ r \in Handling(v)
    BY <1>2, <1>4, <2>1 DEF Handling
  <2>3. Cardinality(Handling(v)') = inflight[v] - 1
    BY <1>8, <2>2, OneLess
  <2>4. Cardinality(Handling(v)') \in Nat
    <3>1. IsFiniteSet(Handling(v)')
      BY <2>2, <1>8, MetricsAssumption, FS_Subset
    <3> QED
      BY <3>1, FS_CardinalityType
  <2>5. inflight'[v] = inflight[v] - 1 /\ inflight' \in [Workers -> Nat]
    BY <1>9, <2>1, <2>3, <2>4 DEF CountInv
  <2>6. ASSUME NEW w \in Workers PROVE inflight'[w] = Cardinality(Handling(w)')
    <3>1. CASE w = v
      BY <2>3, <2>5, <3>1
    <3>2. CASE w # v
      BY <1>6, <2>1, <3>2 DEF CountInv
    <3> QED
      BY <3>1, <3>2
  <2> QED
    BY <1>1, <1>5, <1>7, <2>5, <2>6 DEF CountInv
<1> QED
  BY <1>10, <1>11

\* A total goes up when its request is recorded, and the status is then settled.
LEMMA TotalFollows ==
  ASSUME AuditInv, CountInv, NEW r \in Requests, Record(r)
  PROVE  CountInv'
<1>1. /\ Types /\ pc[r] = "record" /\ pc' = [pc EXCEPT ![r] = "recording"]
      /\ total' = [total EXCEPT ![W(r)][<<L(r), status[r]>>] = @ + 1]
      /\ UNCHANGED <<req, status, inflight>>
  BY DEF Record, Goto, At, AuditInv
<1>2. PICK v \in Workers : v = W(r)
  BY <1>1, InSeries
<1>3. PICK t \in Series : t = <<L(r), status[r]>>
  BY <1>1, InSeries
<1>4. /\ pc'[r] = "recording" /\ \A q \in Requests \ {r} : pc'[q] = pc[q]
      /\ \A q \in Requests : W(q)' = W(q) /\ L(q)' = L(q)
  BY <1>1 DEF Types, W, L
<1>5. \A w \in Workers : Handling(w)' = Handling(w)
  BY <1>1, <1>4 DEF Handling
<1>6. \A q \in Requests : pc'[q] # "away" => req'[q].path \in Paths
  BY <1>1, <1>4 DEF CountInv
<1>7. \A w \in Workers, s \in Series :
        w # v \/ s # t => RecordedAs(w, s)' = RecordedAs(w, s)
  BY <1>1, <1>2, <1>3, <1>4 DEF RecordedAs
<1>8. RecordedAs(v, t)' = RecordedAs(v, t) \cup {r} /\ r \notin RecordedAs(v, t)
  BY <1>1, <1>2, <1>3, <1>4 DEF RecordedAs
<1>9. Cardinality(RecordedAs(v, t)') = Cardinality(RecordedAs(v, t)) + 1
  <2>1. RecordedAs(v, t) \subseteq Requests
    BY DEF RecordedAs
  <2> QED
    BY <1>8, <2>1, OneMore
<1>10. total' = [total EXCEPT ![v][t] = @ + 1]
  BY <1>1, <1>2, <1>3
<1>11. total' \in [Workers -> [Series -> Nat]] /\ total'[v][t] = total[v][t] + 1
  BY <1>10 DEF CountInv
<1>12. \A w \in Workers, s \in Series : w # v \/ s # t => total'[w][s] = total[w][s]
  BY <1>10 DEF CountInv
<1>13. ASSUME NEW w \in Workers, NEW s \in Series
       PROVE  total'[w][s] = Cardinality(RecordedAs(w, s)')
  <2>1. total[w][s] = Cardinality(RecordedAs(w, s))
    BY DEF CountInv
  <2>2. CASE w = v /\ s = t
    BY <1>9, <1>11, <2>1, <2>2
  <2>3. CASE w # v \/ s # t
    BY <1>7, <1>12, <2>1, <2>3
  <2> QED
    BY <2>2, <2>3
<1> QED
  BY <1>1, <1>5, <1>6, <1>11, <1>13 DEF CountInv

LEMMA CountArrives ==
  ASSUME AuditInv, CountInv, NEW r \in Requests, NEW w \in Workers, NEW e \in Endpoints,
         NEW known \in BOOLEAN, Arrive(r, w, e, known)
  PROVE  CountInv'
<1>1. /\ Types /\ pc[r] = "away" /\ pc' = [pc EXCEPT ![r] = "enter"]
      /\ UNCHANGED <<status, total, inflight>>
  BY DEF Arrive, Goto, At, AuditInv, counters
<1>2. PICK p \in PathsOf(e) : \E d :
        req' = [req EXCEPT ![r] = [endpoint |-> e, path |-> p, worker |-> w,
                                   known |-> known, took |-> d]]
  BY DEF Arrive
<1>3. p \in Paths
  BY <1>2, MetricsAssumption DEF PathsOf, Paths, Changes
<1>4. /\ pc'[r] = "enter" /\ req'[r].path = p
      /\ \A q \in Requests \ {r} : pc'[q] = pc[q] /\ req'[q] = req[q]
  BY <1>1, <1>2 DEF Types
<1>5. \A v \in Workers : Handling(v)' = Handling(v)
  BY <1>1, <1>4 DEF Handling, W
<1>6. \A v \in Workers, s \in Series : RecordedAs(v, s)' = RecordedAs(v, s)
  BY <1>1, <1>4 DEF RecordedAs, W, L
<1>7. \A q \in Requests : pc'[q] # "away" => req'[q].path \in Paths
  BY <1>3, <1>4 DEF CountInv
<1> QED
  BY <1>1, <1>5, <1>6, <1>7 DEF CountInv

LEMMA CountNext == AuditInv /\ CountInv /\ [Next]_vars => CountInv'
<1> SUFFICES ASSUME AuditInv, CountInv, [Next]_vars PROVE CountInv'
  OBVIOUS
<1>1. ASSUME NEW r \in Requests, Recorded(r) PROVE CountInv'
  <2>1. /\ pc[r] = "recording" /\ pc' = [pc EXCEPT ![r] = "done"]
        /\ UNCHANGED <<req, status, total, inflight>>
    BY <1>1 DEF Recorded, At, Goto
  <2> QED
    BY <2>1, CountsStand DEF Outside
<1>2. ASSUME NEW r \in Requests, Step(r) PROVE CountInv'
  BY <1>1, <1>2, HandlersStand, InflightFollows, TotalFollows DEF Step
<1>3. CASE UNCHANGED others
  <2>1. UNCHANGED <<pc, req, status, total, inflight>>
    BY <1>3 DEF others, counters
  <2>2. /\ \A w \in Workers : Handling(w)' = Handling(w)
        /\ \A w \in Workers, s \in Series : RecordedAs(w, s)' = RecordedAs(w, s)
    BY <2>1 DEF Handling, RecordedAs, W, L
  <2> QED
    BY <2>1, <2>2 DEF CountInv
<1> QED
  BY <1>2, <1>3, CountArrives DEF Next, Served, Kill, vars, others

-----------------------------------------------------------------------------

(***************************************************************************)
(* Sums over finite sets, as MapThenSumSet takes them: one element after the*)
(* other, in an order that is not known.  An induction over the naturals is*)
(* here a set that holds all of them.                                      *)
(***************************************************************************)

\* A set that holds 0 and each successor holds the naturals.
LEMMA NatSets ==
  ASSUME NEW I, 0 \in I, \A n \in Nat : n \in I => n + 1 \in I
  PROVE  Nat \subseteq I
<1> SUFFICES ASSUME ~(Nat \subseteq I) PROVE FALSE
  OBVIOUS
<1> DEFINE R == OpToRel(<, Nat)
           T == {n \in Nat : n \notin I}
<1>1. IsWellFoundedOn(R, Nat)
  BY NatLessThanWellFounded
<1>2. T \subseteq Nat /\ T # {}
  OBVIOUS
<1> HIDE DEF R
<1>3. \E n \in T : \A m \in T : <<m, n>> \notin R
  BY <1>1, <1>2, WFMin
<1>4. PICK n \in T : \A m \in T : <<m, n>> \notin R
  BY <1>3
<1>5. n \in Nat /\ n # 0 /\ n \notin I
  BY <1>4
<1>6. n - 1 \in Nat /\ (n - 1) + 1 = n /\ n - 1 < n
  BY <1>5
<1>7. n - 1 \in T
  BY <1>5, <1>6
<1>8. <<n - 1, n>> \in R
  BY <1>5, <1>6 DEF R, OpToRel
<1> QED
  BY <1>4, <1>7, <1>8

\* The element that a sum takes first.
One(s) == CHOOSE x \in s : TRUE

\* A gives the sums of f over the subsets of S.
Sums(A, f, S) ==
  \A s \in SUBSET S : A[s] = IF s = {} THEN 0 ELSE f[One(s)] + A[s \ {One(s)}]

Recursion(A, f, S) ==
  A = [s \in SUBSET S |-> IF s = {} THEN 0 ELSE f[One(s)] + A[s \ {One(s)}]]

SumOf(f, S) == MapThenSumSet(LAMBDA x : f[x], S)

LEMMA OneOf == ASSUME NEW s, s # {} PROVE One(s) \in s
BY DEF One

LEMMA OneTaken ==
  ASSUME NEW s, IsFiniteSet(s), NEW x \in s
  PROVE  IsFiniteSet(s \ {x}) /\ Cardinality(s) \in Nat /\ Cardinality(s \ {x}) \in Nat
         /\ Cardinality(s \ {x}) + 1 = Cardinality(s)
<1>1. IsFiniteSet(s \ {x}) /\ Cardinality(s \ {x}) = Cardinality(s) - 1
  BY FS_RemoveElement
<1>2. Cardinality(s) \in Nat /\ Cardinality(s \ {x}) \in Nat
  BY <1>1, FS_CardinalityType
<1> QED
  BY <1>1, <1>2

\* There is one function of sums at most.
LEMMA SumsUnique ==
  ASSUME NEW S, IsFiniteSet(S), NEW f, NEW g, \A x \in S : f[x] = g[x],
         NEW A, NEW B, Sums(A, f, S), Sums(B, g, S)
  PROVE  \A s \in SUBSET S : A[s] = B[s]
<1> DEFINE I == {n \in Nat : \A s \in SUBSET S : Cardinality(s) = n => A[s] = B[s]}
<1>0. \A s \in SUBSET S : IsFiniteSet(s) /\ Cardinality(s) \in Nat
  BY FS_Subset, FS_CardinalityType
<1>1. 0 \in I
  <2>1. ASSUME NEW s \in SUBSET S, Cardinality(s) = 0 PROVE A[s] = B[s]
    <3>1. s = {}
      BY <1>0, <2>1, FS_EmptySet
    <3> QED
      BY <3>1 DEF Sums
  <2> QED
    BY <2>1
<1>2. ASSUME NEW n \in Nat, n \in I PROVE n + 1 \in I
  <2>1. ASSUME NEW s \in SUBSET S, Cardinality(s) = n + 1 PROVE A[s] = B[s]
    <3>1. s # {}
      <4>1. Cardinality({}) = 0 /\ Cardinality(s) # 0
        BY <1>2, <2>1, FS_EmptySet
      <4> QED
        BY <4>1
    <3> DEFINE x == One(s)
    <3>2. x \in s
      BY <3>1, OneOf
    <3>3. s \ {x} \in SUBSET S /\ Cardinality(s \ {x}) = n
      BY <1>0, <2>1, <3>2, OneTaken
    <3>4. A[s \ {x}] = B[s \ {x}]
      BY <1>2, <3>3
    <3>5. f[x] = g[x]
      BY <3>2
    <3>6. A[s] = f[x] + A[s \ {x}] /\ B[s] = g[x] + B[s \ {x}]
      BY <3>1 DEF Sums
    <3> QED
      BY <3>4, <3>5, <3>6
  <2> QED
    BY <2>1
<1> HIDE DEF I
<1>3. Nat \subseteq I
  BY <1>1, <1>2, NatSets
<1> QED
  BY <1>0, <1>3 DEF I

\* There is one, for every f: the levels of the subsets are filled one by one.
LEMMA SumsExist ==
  ASSUME NEW S, IsFiniteSet(S), NEW f
  PROVE  \E A : Recursion(A, f, S)
<1> DEFINE Up(n) == {s \in SUBSET S : Cardinality(s) <= n}
           Next1(A, s) == IF s = {} THEN 0 ELSE f[One(s)] + A[s \ {One(s)}]
           I == {n \in Nat : \E A : A = [s \in Up(n) |-> Next1(A, s)]}
<1>0. \A s \in SUBSET S : IsFiniteSet(s) /\ Cardinality(s) \in Nat
  BY FS_Subset, FS_CardinalityType
<1>1. 0 \in I
  <2> DEFINE A == [s \in Up(0) |-> 0]
  <2>1. \A s \in Up(0) : s = {}
    BY <1>0, FS_EmptySet
  <2>2. A = [s \in Up(0) |-> Next1(A, s)]
    BY <2>1
  <2> QED
    BY <2>2
<1>2. ASSUME NEW n \in Nat, n \in I PROVE n + 1 \in I
  <2>1. PICK A : A = [s \in Up(n) |-> Next1(A, s)]
    BY <1>2
  <2> DEFINE B == [s \in Up(n + 1) |-> Next1(A, s)]
  <2>2. \A s \in Up(n) : A[s] = Next1(A, s)
    BY <2>1
  <2>3. \A s \in Up(n) : s \in Up(n + 1)
    BY <1>0, <1>2
  <2>4. \A s \in Up(n) : B[s] = A[s]
    BY <2>2, <2>3
  <2>5. ASSUME NEW s \in Up(n + 1), s # {} PROVE s \ {One(s)} \in Up(n)
    <3>1. One(s) \in s /\ IsFiniteSet(s) /\ s \in SUBSET S /\ Cardinality(s) <= n + 1
      BY <1>0, <2>5, OneOf
    <3>2. Cardinality(s) \in Nat /\ Cardinality(s \ {One(s)}) \in Nat
          /\ Cardinality(s \ {One(s)}) + 1 = Cardinality(s)
      BY <3>1, OneTaken
    <3>3. Cardinality(s \ {One(s)}) <= n
      BY <3>1, <3>2
    <3> QED
      BY <3>1, <3>3
  <2> HIDE DEF B
  <2>6. \A s \in Up(n + 1) : Next1(A, s) = Next1(B, s)
    BY <2>4, <2>5
  <2> DEFINE NA(s) == Next1(A, s)
             NB(s) == Next1(B, s)
  <2>7. B = [s \in Up(n + 1) |-> NA(s)]
    BY DEF B
  <2>8. \A s \in Up(n + 1) : NA(s) = NB(s)
    BY <2>6
  <2> HIDE DEF NA, NB, Next1, Up
  <2>9. B = [s \in Up(n + 1) |-> NB(s)]
    BY <2>7, <2>8
  <2>10. B = [s \in Up(n + 1) |-> Next1(B, s)]
    BY <2>9 DEF NB
  <2>11. \E C : C = [s \in Up(n + 1) |-> Next1(C, s)]
    BY <2>10
  <2> QED
    BY <2>11 DEF I
<1> HIDE DEF I
<1>3. Nat \subseteq I
  BY <1>1, <1>2, NatSets
<1>4. Cardinality(S) \in Nat /\ Up(Cardinality(S)) = SUBSET S
  BY FS_CardinalityType, FS_Subset
<1>5. Cardinality(S) \in I
  BY <1>3, <1>4
<1>6. \E A : A = [s \in Up(Cardinality(S)) |-> Next1(A, s)]
  BY <1>5 DEF I
<1>7. PICK A : A = [s \in Up(Cardinality(S)) |-> Next1(A, s)]
  BY <1>6
<1> HIDE DEF Up
<1>8. A = [s \in SUBSET S |-> Next1(A, s)]
  BY <1>4, <1>7
<1>9. Recursion(A, f, S)
  BY <1>8 DEF Recursion
<1> QED
  BY <1>9

\* What is defined as they are is a function of sums.
LEMMA SumsFollow ==
  ASSUME NEW S, NEW f, NEW A, Recursion(A, f, S)
  PROVE  Sums(A, f, S)
<1> DEFINE E(s) == IF s = {} THEN 0 ELSE f[One(s)] + A[s \ {One(s)}]
<1>1. A = [s \in SUBSET S |-> E(s)]
  BY DEF Recursion
<1> HIDE DEF E
<1>2. \A s \in SUBSET S : A[s] = E(s)
  BY <1>1
<1> QED
  BY <1>2 DEF E, Sums

LEMMA SumsAre ==
  ASSUME NEW S, IsFiniteSet(S), NEW f
  PROVE  \E A : Sums(A, f, S)
BY SumsExist, SumsFollow

\* Of any function of sums, its value is the sum.
LEMMA SumIs ==
  ASSUME NEW S, IsFiniteSet(S), NEW f, NEW B, Sums(B, f, S)
  PROVE  \A s \in SUBSET S : SumOf(f, s) = B[s]
<1> SUFFICES ASSUME NEW s \in SUBSET S PROVE SumOf(f, s) = B[s]
  OBVIOUS
<1>1. IsFiniteSet(s)
  BY FS_Subset
<1> DEFINE Q(A) == Recursion(A, f, s)
           C    == CHOOSE A : Q(A)
<1>2. SumOf(f, s) = C[s]
  BY DEF SumOf, MapThenSumSet, MapThenFoldSet, One, Recursion
<1>3. \E A : Q(A)
  BY <1>1, SumsExist
<1>4. Q(C)
  <2> HIDE DEF Q
  <2> QED
    BY <1>3
<1>5. Sums(C, f, s)
  <2> HIDE DEF C
  <2> QED
    BY <1>4, SumsFollow
<1>6. Sums(B, f, s)
  BY DEF Sums
<1> HIDE DEF C
<1>7. C[s] = B[s]
  BY <1>1, <1>5, <1>6, SumsUnique
<1> QED
  BY <1>2, <1>7

LEMMA SumStep ==
  ASSUME NEW S, IsFiniteSet(S), NEW f
  PROVE  SumOf(f, S) = IF S = {} THEN 0 ELSE f[One(S)] + SumOf(f, S \ {One(S)})
<1>1. \E A : Sums(A, f, S)
  BY SumsAre
<1>2. PICK A : Sums(A, f, S)
  BY <1>1
<1>3. \A s \in SUBSET S : SumOf(f, s) = A[s]
  BY <1>2, SumIs
<1>4. S \in SUBSET S /\ S \ {One(S)} \in SUBSET S
  OBVIOUS
<1>5. A[S] = IF S = {} THEN 0 ELSE f[One(S)] + A[S \ {One(S)}]
  BY <1>2, <1>4 DEF Sums
<1> QED
  BY <1>3, <1>4, <1>5

\* Sums of what agrees agree.
LEMMA SumAgrees ==
  ASSUME NEW S, IsFiniteSet(S), NEW f, NEW g, \A x \in S : f[x] = g[x]
  PROVE  SumOf(f, S) = SumOf(g, S)
<1>1. (\E A : Sums(A, f, S)) /\ (\E B : Sums(B, g, S))
  BY SumsAre
<1>2. PICK A : Sums(A, f, S)
  BY <1>1
<1>3. PICK B : Sums(B, g, S)
  BY <1>1
<1>4. SumOf(f, S) = A[S] /\ SumOf(g, S) = B[S] /\ A[S] = B[S]
  BY <1>2, <1>3, SumIs, SumsUnique
<1> QED
  BY <1>4

\* A sum of naturals is a natural, and any element may be taken first.
LEMMA SumTakes ==
  ASSUME NEW S, IsFiniteSet(S), NEW f, \A x \in S : f[x] \in Nat
  PROVE  /\ SumOf(f, S) \in Nat
         /\ \A x \in S : SumOf(f, S) = f[x] + SumOf(f, S \ {x}) /\ SumOf(f, S \ {x}) \in Nat
<1> DEFINE I == {n \in Nat : \A s \in SUBSET S : Cardinality(s) = n =>
                   /\ SumOf(f, s) \in Nat
                   /\ \A x \in s : /\ SumOf(f, s) = f[x] + SumOf(f, s \ {x})
                                   /\ SumOf(f, s \ {x}) \in Nat}
<1>0. \A s \in SUBSET S : IsFiniteSet(s) /\ Cardinality(s) \in Nat
  BY FS_Subset, FS_CardinalityType
<1>1. 0 \in I
  <2>1. ASSUME NEW s \in SUBSET S, Cardinality(s) = 0 PROVE SumOf(f, s) \in Nat /\ s = {}
    <3>1. s = {}
      BY <1>0, <2>1, FS_EmptySet
    <3> QED
      BY <1>0, <3>1, SumStep
  <2> QED
    BY <2>1
<1>2. ASSUME NEW n \in Nat, n \in I PROVE n + 1 \in I
  <2>1. ASSUME NEW s \in SUBSET S, Cardinality(s) = n + 1
        PROVE  /\ SumOf(f, s) \in Nat
               /\ \A x \in s : SumOf(f, s) = f[x] + SumOf(f, s \ {x}) /\ SumOf(f, s \ {x}) \in Nat
    <3>1. s # {}
      <4>1. Cardinality({}) = 0 /\ Cardinality(s) # 0
        BY <1>2, <2>1, FS_EmptySet
      <4> QED
        BY <4>1
    <3> DEFINE c == One(s)
    <3>2. c \in s
      BY <3>1, OneOf
    <3>3. SumOf(f, s) = f[c] + SumOf(f, s \ {c})
      BY <1>0, <3>1, SumStep
    <3> HIDE DEF c
    <3>4. \A x \in s : s \ {x} \in SUBSET S /\ Cardinality(s \ {x}) = n
      BY <1>0, <2>1, OneTaken
    <3>5. \A x \in s : SumOf(f, s \ {x}) \in Nat
      BY <1>2, <3>4
    <3>6. SumOf(f, s) \in Nat
      <4>1. f[c] \in Nat /\ SumOf(f, s \ {c}) \in Nat
        BY <3>2, <3>5
      <4> QED
        BY <3>3, <4>1
    <3>7. ASSUME NEW x \in s, x # c PROVE SumOf(f, s) = f[x] + SumOf(f, s \ {x})
      <4>1. x \in s \ {c} /\ c \in s \ {x} /\ (s \ {c}) \ {x} = (s \ {x}) \ {c}
        BY <3>2, <3>7
      <4>2. SumOf(f, s \ {c}) = f[x] + SumOf(f, (s \ {c}) \ {x})
        BY <1>2, <3>2, <3>4, <4>1
      <4>3. SumOf(f, s \ {x}) = f[c] + SumOf(f, (s \ {x}) \ {c})
        BY <1>2, <3>4, <4>1
      <4> DEFINE a == SumOf(f, s) b == SumOf(f, s \ {c}) d == SumOf(f, s \ {x})
                 e == SumOf(f, (s \ {x}) \ {c})
      <4>4. a \in Nat /\ b \in Nat /\ d \in Nat /\ f[x] \in Nat /\ f[c] \in Nat
        BY <3>2, <3>5, <3>6
      <4>6. e \in Nat
        BY <1>2, <3>4, <4>1
      <4>7. a = f[c] + b /\ b = f[x] + e /\ d = f[c] + e
        BY <3>3, <4>1, <4>2, <4>3
      <4> HIDE DEF a, b, d, e
      <4>8. a = f[x] + d
        BY <4>4, <4>6, <4>7
      <4> QED
        BY <4>8 DEF a, d
    <3> QED
      BY <3>3, <3>5, <3>6, <3>7
  <2> QED
    BY <2>1
<1> HIDE DEF I
<1>3. Nat \subseteq I
  BY <1>1, <1>2, NatSets
<1>4. \A s \in SUBSET S : SumOf(f, s) \in Nat
        /\ \A x \in s : SumOf(f, s) = f[x] + SumOf(f, s \ {x}) /\ SumOf(f, s \ {x}) \in Nat
  BY <1>0, <1>3 DEF I
<1> QED
  BY <1>4

\* One term of a sum grows.
LEMMA SumGrows ==
  ASSUME NEW S, IsFiniteSet(S), NEW f, NEW g, \A x \in S : f[x] \in Nat, NEW z \in S, NEW k \in Nat,
         g[z] = f[z] + k, \A x \in S : x # z => g[x] = f[x]
  PROVE  SumOf(g, S) = SumOf(f, S) + k
<1>1. \A x \in S : g[x] \in Nat
  <2> TAKE x \in S
  <2>1. CASE x = z
    BY <2>1
  <2>2. CASE x # z
    BY <2>2
  <2> QED
    BY <2>1, <2>2
<1>2. SumOf(f, S) = f[z] + SumOf(f, S \ {z}) /\ SumOf(f, S \ {z}) \in Nat
  BY SumTakes
<1>3. SumOf(g, S) = g[z] + SumOf(g, S \ {z})
  BY <1>1, SumTakes
<1>4. SumOf(g, S \ {z}) = SumOf(f, S \ {z})
  <2>1. IsFiniteSet(S \ {z}) /\ \A x \in S \ {z} : g[x] = f[x]
    BY FS_RemoveElement
  <2> QED
    BY <2>1, SumAgrees
<1> DEFINE a == SumOf(f, S) b == SumOf(f, S \ {z}) c == SumOf(g, S)
<1>5. a = f[z] + b /\ b \in Nat /\ c = f[z] + k + b /\ f[z] \in Nat
  BY <1>2, <1>3, <1>4
<1> HIDE DEF a, b, c
<1>6. c = a + k
  BY <1>5
<1> QED
  BY <1>6 DEF a, c

\* A set of naturals has a least element.
LEMMA MinOf ==
  ASSUME NEW T \in SUBSET Nat, T # {}
  PROVE  Min(T) \in T
<1> DEFINE R == OpToRel(<, Nat)
<1>1. IsWellFoundedOn(R, Nat)
  BY NatLessThanWellFounded
<1> HIDE DEF R
<1>2. \E n \in T : \A m \in T : <<m, n>> \notin R
  BY <1>1, WFMin
<1>3. PICK n \in T : \A m \in T : <<m, n>> \notin R
  BY <1>2
<1>4. ASSUME NEW m \in T PROVE n <= m
  <2>1. m < n => <<m, n>> \in R
    BY DEF R, OpToRel
  <2>2. ~(m < n)
    BY <1>3, <2>1
  <2> QED
    BY <2>2
<1>5. \E x \in T : \A y \in T : x <= y
  BY <1>4
<1> QED
  BY <1>5 DEF Min

-----------------------------------------------------------------------------

(***************************************************************************)
(* What a scrape shows: the sums over the series of a worker.              *)
(***************************************************************************)
Slots == 1..Len(Edges) + 1

\* The requests of each label, counted by their buckets.
Hist(w) == [l \in Labels |-> SumOf(buckets[w][l], Slots)]

Durations   == [r \in Requests |-> req[r].took]
Finished(w) == {r \in Requests : pc[r] = "done" /\ W(r) = w}

\* A request that is recorded in the totals only.
Halfway(w) == \E r \in Requests : pc[r] = "recording" /\ W(r) = w

ScrapeTypes ==
  /\ count \in [Workers -> [Labels -> Nat]] /\ sum \in [Workers -> [Labels -> Nat]]
  /\ buckets \in [Workers -> [Labels -> [Slots -> Nat]]]
  /\ \A r \in Requests : pc[r] # "away" => req[r].took \in Nat

\* The totals are one ahead of the histogram while a request is half recorded.
Whole(w) ==
  /\ SumOf(total[w], Series) = SumOf(count[w], Labels) + (IF Halfway(w) THEN 1 ELSE 0)
  /\ SumOf(Hist(w), Labels) = SumOf(count[w], Labels)
  /\ SumOf(sum[w], Labels) = SumOf(Durations, Finished(w))

ScrapeInv == ScrapeTypes /\ (\A w \in Workers : Whole(w)) /\ ScrapeIsWhole

LEMMA FiniteSeries ==
  /\ IsFiniteSet(Labels) /\ IsFiniteSet(Series) /\ IsFiniteSet(Slots) /\ IsFiniteSet(Requests)
  /\ Len(Edges) \in Nat
<1>1. IsFiniteSet(Labels) /\ IsFiniteSet(Requests) /\ Len(Edges) \in Nat
  BY MetricsAssumption
<1>2. IsFiniteSet(Statuses)
  <2>1. IsFiniteSet({200})
    BY FS_Singleton
  <2>2. IsFiniteSet({200} \cup {401})
    BY <2>1, FS_AddElement
  <2>3. IsFiniteSet(({200} \cup {401}) \cup {422})
    BY <2>2, FS_AddElement
  <2>4. IsFiniteSet((({200} \cup {401}) \cup {422}) \cup {500})
    BY <2>3, FS_AddElement
  <2>5. Statuses = (({200} \cup {401}) \cup {422}) \cup {500}
    BY DEF Statuses
  <2> QED
    BY <2>4, <2>5
<1>3. IsFiniteSet(Series)
  BY <1>1, <1>2, FS_Product DEF Series
<1>4. IsFiniteSet(Slots)
  BY <1>1, FS_Interval DEF Slots
<1> QED
  BY <1>1, <1>3, <1>4

\* A sum of nothing but zeros.
LEMMA SumOfZeros ==
  ASSUME NEW S, IsFiniteSet(S), NEW f, \A x \in S : f[x] = 0
  PROVE  SumOf(f, S) = 0
<1> DEFINE I == {n \in Nat : \A s \in SUBSET S : Cardinality(s) = n => SumOf(f, s) = 0}
<1>0. \A s \in SUBSET S : IsFiniteSet(s) /\ Cardinality(s) \in Nat
  BY FS_Subset, FS_CardinalityType
<1>1. 0 \in I
  <2>1. ASSUME NEW s \in SUBSET S, Cardinality(s) = 0 PROVE SumOf(f, s) = 0
    <3>1. s = {}
      BY <1>0, <2>1, FS_EmptySet
    <3> QED
      BY <1>0, <3>1, SumStep
  <2> QED
    BY <2>1
<1>2. ASSUME NEW n \in Nat, n \in I PROVE n + 1 \in I
  <2>1. ASSUME NEW s \in SUBSET S, Cardinality(s) = n + 1 PROVE SumOf(f, s) = 0
    <3>1. s # {}
      <4>1. Cardinality({}) = 0 /\ Cardinality(s) # 0
        BY <1>2, <2>1, FS_EmptySet
      <4> QED
        BY <4>1
    <3> DEFINE x == One(s)
    <3>2. x \in s
      BY <3>1, OneOf
    <3>3. SumOf(f, s) = f[x] + SumOf(f, s \ {x})
      BY <1>0, <3>1, SumStep
    <3> HIDE DEF x
    <3>4. s \ {x} \in SUBSET S /\ Cardinality(s \ {x}) = n
      BY <1>0, <2>1, <3>2, OneTaken
    <3>5. f[x] = 0 /\ SumOf(f, s \ {x}) = 0
      BY <1>2, <3>2, <3>4
    <3> QED
      BY <3>3, <3>5
  <2> QED
    BY <2>1
<1> HIDE DEF I
<1>3. Nat \subseteq I
  BY <1>1, <1>2, NatSets
<1>4. S \in SUBSET S /\ Cardinality(S) \in I
  BY <1>0, <1>3
<1> QED
  BY <1>4 DEF I

LEMMA ScrapeInit == Init => ScrapeInv
<1> SUFFICES ASSUME Init PROVE ScrapeInv
  OBVIOUS
<1>1. /\ pc = [r \in Requests |-> "away"] /\ scraped = <<NoScrape, NoScrape>>
      /\ total = [w \in Workers |-> [s \in Series |-> 0]]
      /\ count = [w \in Workers |-> [l \in Labels |-> 0]]
      /\ sum = [w \in Workers |-> [l \in Labels |-> 0]]
      /\ buckets = [w \in Workers |-> [l \in Labels |-> [i \in Slots |-> 0]]]
  BY DEF Init, Slots
<1>2. ScrapeTypes
  BY <1>1 DEF ScrapeTypes
<1>3. ASSUME NEW w \in Workers PROVE Whole(w)
  <2>1. ~Halfway(w) /\ Finished(w) = {}
    BY <1>1 DEF Halfway, Finished
  <2>2. SumOf(total[w], Series) = 0 /\ SumOf(count[w], Labels) = 0 /\ SumOf(sum[w], Labels) = 0
    <3>1. /\ \A s \in Series : total[w][s] = 0
          /\ \A l \in Labels : count[w][l] = 0 /\ sum[w][l] = 0
      BY <1>1
    <3> QED
      BY <3>1, FiniteSeries, SumOfZeros
  <2>3. SumOf(Hist(w), Labels) = 0
    <3>1. ASSUME NEW l \in Labels PROVE Hist(w)[l] = 0
      <4>1. \A i \in Slots : buckets[w][l][i] = 0
        BY <1>1
      <4>2. SumOf(buckets[w][l], Slots) = 0
        BY <4>1, FiniteSeries, SumOfZeros
      <4> QED
        BY <4>2 DEF Hist
    <3> QED
      BY <3>1, FiniteSeries, SumOfZeros
  <2>4. SumOf(Durations, Finished(w)) = 0
    BY <2>1, FS_EmptySet, SumOfZeros
  <2> QED
    BY <2>1, <2>2, <2>3, <2>4 DEF Whole
<1>4. ScrapeIsWhole
  BY <1>1 DEF ScrapeIsWhole
<1> QED
  BY <1>2, <1>3, <1>4 DEF ScrapeInv

\* A request moves, and nothing that a scrape sums up changes.
LEMMA SumsStand ==
  ASSUME AuditInv, ScrapeInv, NEW r \in Requests, NEW p, pc' = [pc EXCEPT ![r] = p],
         pc[r] \notin {"recording", "done"}, p \notin {"away", "recording", "done"},
         \A q \in Requests : q # r => req'[q] = req[q],
         req'[r].took \in Nat,
         UNCHANGED <<total, buckets, count, sum>>
  PROVE  ScrapeTypes' /\ \A w \in Workers : Whole(w)'
<1>0. Types /\ ScrapeTypes /\ \A w \in Workers : Whole(w)
  BY DEF AuditInv, ScrapeInv
<1>1. pc'[r] = p /\ \A q \in Requests : q # r => pc'[q] = pc[q]
  BY <1>0 DEF Types
<1>2. \A w \in Workers : Finished(w)' = Finished(w) /\ Halfway(w)' = Halfway(w)
  BY <1>1 DEF Finished, Halfway, W
<1>3. ScrapeTypes'
  BY <1>0, <1>1 DEF ScrapeTypes
<1>4. ASSUME NEW w \in Workers PROVE Whole(w)'
  <2>1. SumOf(Durations', Finished(w)) = SumOf(Durations, Finished(w))
    <3>1. IsFiniteSet(Finished(w))
      BY FiniteSeries, FS_Subset DEF Finished
    <3>2. \A q \in Finished(w) : Durations'[q] = Durations[q]
      BY DEF Finished, Durations
    <3> QED
      BY <3>1, <3>2, SumAgrees
  <2>2. Hist(w)' = Hist(w)
    BY DEF Hist
  <2>3. Whole(w)
    BY <1>0
  <2>4. /\ SumOf(total'[w], Series) = SumOf(total[w], Series)
        /\ SumOf(count'[w], Labels) = SumOf(count[w], Labels)
        /\ SumOf(sum'[w], Labels) = SumOf(sum[w], Labels)
    OBVIOUS
  <2> QED
    BY <1>2, <2>1, <2>2, <2>3, <2>4 DEF Whole
<1> QED
  BY <1>3, <1>4

\* Nobody is half recorded where the lock is free, and the holder alone where it is not.
LEMMA HalfwayHolds ==
  ASSUME AuditInv, NEW w \in Workers
  PROVE  /\ lock[w] = Free => ~Halfway(w)
         /\ \A r, q \in Requests :
              (pc[r] = "recording" /\ W(r) = w /\ pc[q] = "recording" /\ W(q) = w) => r = q
<1>1. Free \notin Requests /\ LockInv
  BY MetricsAssumption DEF AuditInv
<1> QED
  BY <1>1 DEF LockInv, Halfway, Holding

LEMMA ScrapeRecord ==
  ASSUME AuditInv, CountInv, ScrapeInv, NEW r \in Requests, Record(r)
  PROVE  ScrapeInv'
<1>0. Types /\ ScrapeTypes /\ \A w \in Workers : Whole(w)
  BY DEF AuditInv, ScrapeInv
<1>1. /\ pc[r] = "record" /\ pc' = [pc EXCEPT ![r] = "recording"] /\ Unlocked(r)
      /\ total' = [total EXCEPT ![W(r)][<<L(r), status[r]>>] = @ + 1]
      /\ UNCHANGED <<req, buckets, count, sum, scraped>>
  BY DEF Record, Goto, At
<1>2. PICK v \in Workers : v = W(r)
  BY <1>1, InSeries
<1>3. PICK t \in Series : t = <<L(r), status[r]>>
  BY <1>1, InSeries
<1>4. /\ pc'[r] = "recording" /\ \A q \in Requests \ {r} : pc'[q] = pc[q]
      /\ \A q \in Requests : W(q)' = W(q)
  BY <1>0, <1>1 DEF Types, W
<1>5. ScrapeTypes'
  BY <1>0, <1>1, <1>4 DEF ScrapeTypes
<1>6. ASSUME NEW w \in Workers PROVE Whole(w)'
  <2>1. Finished(w)' = Finished(w) /\ Hist(w)' = Hist(w) /\ Durations' = Durations
    BY <1>1, <1>4 DEF Finished, Hist, Durations
  <2>2. CASE w = v
    <3>1. ~Halfway(w) /\ Halfway(w)'
      BY <1>1, <1>2, <1>4, <2>2, HalfwayHolds DEF Unlocked, Halfway
    <3>2. /\ \A s \in Series : total[w][s] \in Nat
          /\ total'[w][t] = total[w][t] + 1
          /\ \A s \in Series : s # t => total'[w][s] = total[w][s]
      BY <1>1, <1>2, <1>3, <2>2 DEF CountInv
    <3>3. SumOf(total'[w], Series) = SumOf(total[w], Series) + 1
      BY <3>2, FiniteSeries, SumGrows
    <3>4. SumOf(count[w], Labels) \in Nat
      BY <1>0, FiniteSeries, SumTakes DEF ScrapeTypes
    <3>5. SumOf(total[w], Series) = SumOf(count[w], Labels) + 0
      BY <1>0, <3>1 DEF Whole
    <3>6. SumOf(total'[w], Series) = SumOf(count[w], Labels) + 1
      BY <3>3, <3>4, <3>5
    <3> QED
      BY <1>0, <1>1, <2>1, <3>1, <3>6 DEF Whole
  <2>3. CASE w # v
    <3>1. Halfway(w)' = Halfway(w)
      BY <1>2, <1>4, <2>3 DEF Halfway
    <3>2. total'[w] = total[w]
      BY <1>1, <1>2, <2>3 DEF CountInv
    <3> QED
      BY <1>0, <1>1, <2>1, <3>1, <3>2 DEF Whole
  <2> QED
    BY <2>2, <2>3
<1>7. ScrapeIsWhole'
  BY <1>1 DEF ScrapeInv, ScrapeIsWhole
<1> QED
  BY <1>5, <1>6, <1>7 DEF ScrapeInv

\* A duration has its bucket.
LEMMA InSlots ==
  ASSUME NEW d \in Nat
  PROVE  Bucket(d) \in Slots
<1> DEFINE T == {i \in DOMAIN Edges : d <= Edges[i]} \cup {Len(Edges) + 1}
<1>1. DOMAIN Edges = 1..Len(Edges) /\ Len(Edges) \in Nat
  BY MetricsAssumption
<1>2. T \subseteq Slots /\ T \subseteq Nat /\ T # {}
  BY <1>1 DEF Slots
<1>3. Min(T) \in T
  BY <1>2, MinOf
<1> QED
  BY <1>2, <1>3 DEF Bucket

LEMMA ScrapeRecorded ==
  ASSUME AuditInv, CountInv, ScrapeInv, NEW r \in Requests, Recorded(r)
  PROVE  ScrapeInv'
<1>0. Types /\ ScrapeTypes /\ \A w \in Workers : Whole(w)
  BY DEF AuditInv, ScrapeInv
<1>1. /\ pc[r] = "recording" /\ pc' = [pc EXCEPT ![r] = "done"]
      /\ sum' = [sum EXCEPT ![W(r)][L(r)] = @ + req[r].took]
      /\ count' = [count EXCEPT ![W(r)][L(r)] = @ + 1]
      /\ buckets' = [buckets EXCEPT ![W(r)][L(r)][Bucket(req[r].took)] = @ + 1]
      /\ UNCHANGED <<req, total, scraped>>
  BY DEF Recorded, Goto, At
<1>2. PICK v \in Workers : v = W(r)
  BY <1>1, InSeries
<1>3. PICK m \in Labels : m = L(r)
  BY <1>1, InSeries DEF Series
<1>4. PICK d \in Nat : d = req[r].took
  BY <1>0, <1>1 DEF ScrapeTypes
<1>5. PICK b \in Slots : b = Bucket(req[r].took)
  BY <1>4, InSlots
<1>6. /\ pc'[r] = "done" /\ \A q \in Requests \ {r} : pc'[q] = pc[q]
      /\ \A q \in Requests : W(q)' = W(q)
  BY <1>0, <1>1 DEF Types, W
<1>7. /\ sum' = [sum EXCEPT ![v][m] = @ + d]
      /\ count' = [count EXCEPT ![v][m] = @ + 1]
      /\ buckets' = [buckets EXCEPT ![v][m][b] = @ + 1]
  BY <1>1, <1>2, <1>3, <1>4, <1>5
<1>8. ScrapeTypes'
  <2>1. \A q \in Requests : pc'[q] # "away" => req'[q].took \in Nat
    BY <1>0, <1>1, <1>6 DEF ScrapeTypes
  <2>2. count' \in [Workers -> [Labels -> Nat]] /\ sum' \in [Workers -> [Labels -> Nat]]
    BY <1>0, <1>7 DEF ScrapeTypes
  <2>3. buckets' \in [Workers -> [Labels -> [Slots -> Nat]]]
    BY <1>0, <1>7 DEF ScrapeTypes
  <2> QED
    BY <2>1, <2>2, <2>3 DEF ScrapeTypes
<1>9. ASSUME NEW w \in Workers, w # v PROVE Whole(w)'
  <2>1. sum'[w] = sum[w] /\ count'[w] = count[w] /\ buckets'[w] = buckets[w]
    BY <1>0, <1>7, <1>9 DEF ScrapeTypes
  <2>2. Halfway(w)' = Halfway(w) /\ Finished(w)' = Finished(w)
    BY <1>2, <1>6, <1>9 DEF Halfway, Finished
  <2>3. Hist(w)' = Hist(w) /\ Durations' = Durations
    BY <1>1, <2>1 DEF Hist, Durations
  <2> QED
    BY <1>0, <1>1, <2>1, <2>2, <2>3 DEF Whole
<1>10. Whole(v)'
  <2>1. Halfway(v) /\ ~Halfway(v)'
    <3>1. \A q \in Requests : pc[q] = "recording" /\ W(q) = v => q = r
      BY <1>1, <1>2, HalfwayHolds
    <3> QED
      BY <1>1, <1>2, <1>6, <3>1 DEF Halfway
  <2>2. SumOf(count'[v], Labels) = SumOf(count[v], Labels) + 1
    <3>1. /\ \A l \in Labels : count[v][l] \in Nat
          /\ count'[v][m] = count[v][m] + 1
          /\ \A l \in Labels : l # m => count'[v][l] = count[v][l]
      BY <1>0, <1>7 DEF ScrapeTypes
    <3> QED
      BY <3>1, FiniteSeries, SumGrows
  <2>3. SumOf(sum'[v], Labels) = SumOf(sum[v], Labels) + d
    <3>1. /\ \A l \in Labels : sum[v][l] \in Nat
          /\ sum'[v][m] = sum[v][m] + d
          /\ \A l \in Labels : l # m => sum'[v][l] = sum[v][l]
      BY <1>0, <1>7 DEF ScrapeTypes
    <3> QED
      BY <3>1, FiniteSeries, SumGrows
  <2>4. SumOf(Hist(v)', Labels) = SumOf(Hist(v), Labels) + 1
    <3>1. /\ \A i \in Slots : buckets[v][m][i] \in Nat
          /\ buckets'[v][m][b] = buckets[v][m][b] + 1
          /\ \A i \in Slots : i # b => buckets'[v][m][i] = buckets[v][m][i]
          /\ \A l \in Labels : l # m => buckets'[v][l] = buckets[v][l]
      BY <1>0, <1>7 DEF ScrapeTypes
    <3>2. SumOf(buckets'[v][m], Slots) = SumOf(buckets[v][m], Slots) + 1
      <4> DEFINE f == buckets[v][m]
                 g == buckets'[v][m]
      <4>1. /\ IsFiniteSet(Slots) /\ b \in Slots /\ 1 \in Nat
            /\ \A i \in Slots : f[i] \in Nat
            /\ g[b] = f[b] + 1 /\ \A i \in Slots : i # b => g[i] = f[i]
        BY <3>1, FiniteSeries
      <4>2. SumOf(g, Slots) = SumOf(f, Slots) + 1
        <5> HIDE DEF f, g
        <5> QED
          BY <4>1, SumGrows
      <4> QED
        BY <4>2
    <3>3. ASSUME NEW l \in Labels PROVE Hist(v)[l] \in Nat
      <4>1. \A i \in Slots : buckets[v][l][i] \in Nat
        BY <1>0 DEF ScrapeTypes
      <4>2. SumOf(buckets[v][l], Slots) \in Nat
        BY <4>1, FiniteSeries, SumTakes
      <4> QED
        BY <4>2 DEF Hist
    <3>4. Hist(v)'[m] = Hist(v)[m] + 1 /\ \A l \in Labels : l # m => Hist(v)'[l] = Hist(v)[l]
      BY <3>1, <3>2 DEF Hist
    <3> QED
      BY <3>3, <3>4, FiniteSeries, SumGrows
  <2>5. SumOf(Durations', Finished(v)') = SumOf(Durations, Finished(v)) + d
    <3> DEFINE D == Finished(v)
    <3>1. Finished(v)' = D \cup {r} /\ r \notin D /\ Durations' = Durations
      BY <1>1, <1>2, <1>6 DEF Finished, Durations
    <3>2. IsFiniteSet(D \cup {r}) /\ (D \cup {r}) \ {r} = D
      BY <3>1, FiniteSeries, FS_Subset DEF Finished
    <3>3. \A q \in D \cup {r} : Durations[q] \in Nat
      BY <1>0, <1>1 DEF Finished, Durations, ScrapeTypes
    <3>4. Durations[r] = d
      BY <1>4 DEF Durations
    <3> HIDE DEF D
    <3>5. /\ SumOf(Durations, D \cup {r}) = Durations[r] + SumOf(Durations, (D \cup {r}) \ {r})
          /\ SumOf(Durations, (D \cup {r}) \ {r}) \in Nat
      BY <3>2, <3>3, SumTakes
    <3>6. SumOf(Durations, D \cup {r}) = d + SumOf(Durations, D) /\ SumOf(Durations, D) \in Nat
      BY <3>2, <3>4, <3>5
    <3>7. SumOf(Durations, D \cup {r}) = SumOf(Durations, D) + d
      BY <3>6
    <3> QED
      BY <3>1, <3>7 DEF D
  <2>6. Whole(v) /\ SumOf(count[v], Labels) \in Nat
    <3>1. \A l \in Labels : count[v][l] \in Nat
      BY <1>0 DEF ScrapeTypes
    <3> QED
      BY <1>0, <3>1, FiniteSeries, SumTakes
  <2>7. SumOf(total'[v], Series) = SumOf(count'[v], Labels) + 0
    BY <1>1, <2>1, <2>2, <2>6 DEF Whole
  <2>8. /\ SumOf(Hist(v)', Labels) = SumOf(count'[v], Labels)
        /\ SumOf(sum'[v], Labels) = SumOf(Durations', Finished(v)')
    BY <2>2, <2>3, <2>4, <2>5, <2>6 DEF Whole
  <2> QED
    BY <2>1, <2>7, <2>8 DEF Whole
<1>11. ScrapeIsWhole'
  BY <1>1 DEF ScrapeInv, ScrapeIsWhole
<1> QED
  BY <1>8, <1>9, <1>10, <1>11 DEF ScrapeInv

\* Of the histogram, a scrape shows the sum of all buckets of all labels.
LEMMA BucketsAre ==
  ASSUME NEW w
  PROVE  BucketsOf(w) = SumOf(Hist(w), Labels)
<1> DEFINE g(l) == MapThenSumSet(LAMBDA i : buckets[w][l][i], Slots)
           Q(A) == A = [s \in SUBSET Labels |-> IF s = {} THEN 0 ELSE g(One(s)) + A[s \ {One(s)}]]
           C    == CHOOSE A : Q(A)
<1>1. BucketsOf(w) = C[Labels]
  BY DEF BucketsOf, MapThenSumSet, MapThenFoldSet, One, Slots
<1>2. ASSUME NEW s \in SUBSET Labels, s # {} PROVE Hist(w)[One(s)] = g(One(s))
  BY <1>2, OneOf DEF Hist, SumOf
<1> HIDE DEF g
<1>3. PICK A : Recursion(A, Hist(w), Labels)
  BY SumsExist, FiniteSeries
<1>4. ASSUME NEW B PROVE Recursion(B, Hist(w), Labels) <=> Q(B)
  BY <1>2 DEF Recursion
<1>5. Q(C)
  <2> HIDE DEF Q
  <2> QED
    BY <1>3, <1>4
<1>6. Sums(C, Hist(w), Labels)
  <2> HIDE DEF C, Q
  <2> QED
    BY <1>4, <1>5, SumsFollow
<1> HIDE DEF C
<1> QED
  BY <1>1, <1>6, FiniteSeries, SumIs

\* Of the durations, the sum over what is finished.
LEMMA TookIs ==
  ASSUME NEW S \in SUBSET Requests
  PROVE  MapThenSumSet(LAMBDA r : req[r].took, S) = SumOf(Durations, S)
<1> DEFINE Q(A) == A = [s \in SUBSET S |-> IF s = {} THEN 0
                                             ELSE req[One(s)].took + A[s \ {One(s)}]]
           C    == CHOOSE A : Q(A)
<1>0. IsFiniteSet(S)
  BY FiniteSeries, FS_Subset
<1>1. MapThenSumSet(LAMBDA r : req[r].took, S) = C[S]
  BY DEF MapThenSumSet, MapThenFoldSet, One
<1>2. ASSUME NEW s \in SUBSET S, s # {} PROVE Durations[One(s)] = req[One(s)].took
  BY <1>2, OneOf DEF Durations
<1>3. PICK A : Recursion(A, Durations, S)
  BY <1>0, SumsExist
<1>4. ASSUME NEW B PROVE Recursion(B, Durations, S) <=> Q(B)
  BY <1>2 DEF Recursion
<1>5. Q(C)
  <2> HIDE DEF Q
  <2> QED
    BY <1>3, <1>4
<1>6. Sums(C, Durations, S)
  <2> HIDE DEF C, Q
  <2> QED
    BY <1>4, <1>5, SumsFollow
<1> HIDE DEF C
<1> QED
  BY <1>0, <1>1, <1>6, SumIs

\* The scrape holds the lock, so that nothing is half recorded, and is in flight itself.
LEMMA ScrapeScrapes ==
  ASSUME AuditInv, CountInv, ScrapeInv, NEW r \in Requests, Scrape(r)
  PROVE  ScrapeIsWhole'
<1>1. /\ pc[r] = "handle" /\ Unlocked(r) /\ scraped' = <<Rendered(W(r)), scraped[1]>>
  BY DEF Scrape, At
<1>2. PICK v \in Workers : v = W(r)
  BY <1>1, InSeries
<1> DEFINE shown == Rendered(v)
<1>3. scraped'[1] = shown
  BY <1>1, <1>2
<1>4. Whole(v) /\ ~Halfway(v) /\ \A l \in Labels : count[v][l] \in Nat
  BY <1>1, <1>2, HalfwayHolds DEF ScrapeInv, ScrapeTypes, Unlocked
<1>5. SumOf(count[v], Labels) \in Nat
  BY <1>4, FiniteSeries, SumTakes
<1>6. /\ TotalOf(v) = SumOf(total[v], Series) /\ CountOf(v) = SumOf(count[v], Labels)
      /\ BucketsOf(v) = SumOf(Hist(v), Labels)
  BY BucketsAre DEF TotalOf, CountOf, SumOf
<1>7. TotalOf(v) = CountOf(v) /\ TotalOf(v) = BucketsOf(v)
  BY <1>4, <1>5, <1>6 DEF Whole
<1>8. shown.sum = SumOf(sum[v], Labels)
  BY DEF Rendered, SumOf
<1>9. shown.took = SumOf(Durations, Finished(v))
  BY TookIs DEF Rendered, Finished
<1>10. inflight[v] >= 1
  <2>1. r \in Handling(v) /\ IsFiniteSet(Handling(v))
    BY <1>1, <1>2, FiniteSeries, FS_Subset DEF Handling
  <2>2. Cardinality(Handling(v)) # 0 /\ Cardinality(Handling(v)) \in Nat
    BY <2>1, FS_EmptySet, FS_CardinalityType
  <2> QED
    BY <2>2 DEF CountInv
<1>11. /\ shown.requests = TotalOf(v) /\ shown.count = CountOf(v)
       /\ shown.histogram = BucketsOf(v) /\ shown.inflight = inflight[v]
  BY DEF Rendered
<1>12. shown.sum = shown.took
  BY <1>4, <1>8, <1>9 DEF Whole
<1> HIDE DEF shown
<1> QED
  BY <1>3, <1>7, <1>10, <1>11, <1>12 DEF ScrapeIsWhole

\* What a handler or a middleware does between arrival and record leaves the sums alone.
LEMMA ScrapeStands ==
  ASSUME AuditInv, CountInv, ScrapeInv, NEW r \in Requests,
         \/ Enter(r) \/ Refuse(r) \/ Admit(r) \/ Exit(r) \/ View(r) \/ Scrape(r)
         \/ Register(r) \/ Change(r) \/ Derive(r) \/ Audit(r) \/ Audited(r) \/ Dispatch(r)
  PROVE  ScrapeInv'
<1> USE DEF counters
<1>1. /\ pc[r] \notin {"away", "recording", "done"}
      /\ UNCHANGED <<req, total, buckets, count, sum>>
  BY DEF Enter, Refuse, Admit, Exit, View, Scrape, Register, Change, Derive, Audit, Audited, Dispatch,
     Answer, Raise, At
<1>2. \E p \in {"auth", "handle", "exit", "record", "load", "derive", "audit", "auditing",
                "dispatch"} :
        pc' = [pc EXCEPT ![r] = p]
  BY DEF Enter, Refuse, Admit, Exit, View, Scrape, Register, Change, Derive, Audit, Audited, Dispatch,
     Answer, Raise, Goto
<1>3. PICK p : pc' = [pc EXCEPT ![r] = p] /\ p \notin {"away", "recording", "done"}
  BY <1>2
<1>4. req'[r].took \in Nat
  BY <1>1 DEF ScrapeInv, ScrapeTypes
<1>5. ScrapeTypes' /\ \A w \in Workers : Whole(w)'
  BY <1>1, <1>3, <1>4, SumsStand
<1>6. ScrapeIsWhole'
  <2>1. CASE Scrape(r)
    BY <2>1, ScrapeScrapes
  <2>2. CASE ~Scrape(r)
    <3>1. UNCHANGED scraped
      BY <2>2 DEF Enter, Refuse, Admit, Exit, View, Register, Change, Derive, Audit, Audited, Dispatch,
         Answer, Raise
    <3> QED
      BY <3>1 DEF ScrapeInv, ScrapeIsWhole
  <2> QED
    BY <2>1, <2>2
<1> QED
  BY <1>5, <1>6 DEF ScrapeInv

LEMMA ScrapeArrives ==
  ASSUME AuditInv, ScrapeInv, NEW r \in Requests, NEW w \in Workers, NEW e \in Endpoints,
         NEW known \in BOOLEAN, Arrive(r, w, e, known)
  PROVE  ScrapeInv'
<1>1. /\ pc[r] = "away" /\ pc' = [pc EXCEPT ![r] = "enter"] /\ DOMAIN req = Requests
      /\ UNCHANGED <<total, buckets, count, sum, scraped>>
  BY DEF Arrive, Goto, At, AuditInv, Types, counters
<1>2. PICK d \in 1..Slow : \E p :
        req' = [req EXCEPT ![r] = [endpoint |-> e, path |-> p, worker |-> w,
                                   known |-> known, took |-> d]]
  BY DEF Arrive
<1>3. req'[r].took \in Nat /\ \A q \in Requests : q # r => req'[q] = req[q]
  <2>1. d \in Nat
    BY MetricsAssumption
  <2> QED
    BY <1>1, <1>2, <2>1
<1>4. ScrapeTypes' /\ \A v \in Workers : Whole(v)'
  BY <1>1, <1>3, SumsStand
<1>5. ScrapeIsWhole'
  BY <1>1 DEF ScrapeInv, ScrapeIsWhole
<1> QED
  BY <1>4, <1>5 DEF ScrapeInv

LEMMA ScrapeNext == AuditInv /\ CountInv /\ ScrapeInv /\ [Next]_vars => ScrapeInv'
<1> SUFFICES ASSUME AuditInv, CountInv, ScrapeInv, [Next]_vars PROVE ScrapeInv'
  OBVIOUS
<1>1. ASSUME NEW r \in Requests, Step(r) PROVE ScrapeInv'
  BY <1>1, ScrapeStands, ScrapeRecord, ScrapeRecorded DEF Step
<1>2. CASE UNCHANGED others
  <2>1. UNCHANGED <<pc, req, total, buckets, count, sum, scraped>>
    BY <1>2 DEF others, counters
  <2>2. ScrapeTypes' /\ ScrapeIsWhole'
    BY <2>1 DEF ScrapeInv, ScrapeTypes, ScrapeIsWhole
  <2>3. ASSUME NEW w \in Workers PROVE Whole(w)'
    <3>1. /\ Finished(w)' = Finished(w) /\ Halfway(w)' = Halfway(w) /\ Hist(w)' = Hist(w)
          /\ Durations' = Durations
      BY <2>1 DEF Finished, Halfway, Hist, Durations, W
    <3> QED
      BY <2>1, <3>1 DEF ScrapeInv, Whole
  <2> QED
    BY <2>2, <2>3 DEF ScrapeInv
<1> QED
  BY <1>1, <1>2, ScrapeArrives DEF Next, Served, Kill, vars, others

-----------------------------------------------------------------------------

(***************************************************************************)
(* What it takes for the totals of two scrapes in a row not to fall: the   *)
(* address that is scraped is that of one worker.                          *)
(***************************************************************************)
OneWorker == \A u, v \in Workers : u = v

\* What was shown last is no more than any worker that is there now has counted.
FallInv ==
  /\ scraped[1].requests \in Nat /\ scraped[2].requests \in Nat
  /\ scraped[2].requests <= scraped[1].requests
  /\ \A w \in Workers : /\ SumOf(total[w], Series) \in Nat
                        /\ scraped[1].requests <= SumOf(total[w], Series)

LEMMA FallInit == Init => FallInv
<1> SUFFICES ASSUME Init PROVE FallInv
  OBVIOUS
<1>1. scraped[1].requests = 0 /\ scraped[2].requests = 0
  BY DEF Init, NoScrape
<1>2. ASSUME NEW w \in Workers PROVE SumOf(total[w], Series) = 0
  <2>1. \A s \in Series : total[w][s] = 0
    BY DEF Init
  <2> QED
    BY <2>1, FiniteSeries, SumOfZeros
<1> QED
  BY <1>1, <1>2 DEF FallInv

\* Recording a request adds one to the total of its worker.
LEMMA FallRecords ==
  ASSUME AuditInv, CountInv, FallInv, NEW r \in Requests, Record(r)
  PROVE  FallInv'
<1>1. /\ pc[r] = "record"
      /\ total' = [total EXCEPT ![W(r)][<<L(r), status[r]>>] = @ + 1]
      /\ UNCHANGED scraped
  BY DEF Record, At
<1>2. PICK v \in Workers : v = W(r)
  BY <1>1, InSeries
<1>3. PICK t \in Series : t = <<L(r), status[r]>>
  BY <1>1, InSeries
<1>4. ASSUME NEW w \in Workers
      PROVE  SumOf(total'[w], Series) \in {SumOf(total[w], Series), SumOf(total[w], Series) + 1}
  <2>1. CASE w = v
    <3>1. /\ \A s \in Series : total[w][s] \in Nat
          /\ total'[w][t] = total[w][t] + 1
          /\ \A s \in Series : s # t => total'[w][s] = total[w][s]
      BY <1>1, <1>2, <1>3, <2>1 DEF CountInv
    <3>2. SumOf(total'[w], Series) = SumOf(total[w], Series) + 1
      BY <3>1, FiniteSeries, SumGrows
    <3> QED
      BY <3>2
  <2>2. CASE w # v
    <3>1. total'[w] = total[w]
      BY <1>1, <1>2, <2>2 DEF CountInv
    <3> QED
      BY <3>1
  <2> QED
    BY <2>1, <2>2
<1> DEFINE a == scraped[1].requests
<1>5. /\ a \in Nat /\ scraped'[1].requests = a
      /\ scraped'[2].requests = scraped[2].requests
      /\ \A w \in Workers : SumOf(total[w], Series) \in Nat /\ a <= SumOf(total[w], Series)
  BY <1>1 DEF FallInv
<1>6. ASSUME NEW w \in Workers
      PROVE  SumOf(total'[w], Series) \in Nat /\ a <= SumOf(total'[w], Series)
  <2> DEFINE m == SumOf(total[w], Series)
             n == SumOf(total'[w], Series)
  <2>1. m \in Nat /\ a \in Nat /\ a <= m /\ n \in {m, m + 1}
    BY <1>4, <1>5
  <2> HIDE DEF m, n, a
  <2>2. n \in Nat /\ a <= n
    BY <2>1
  <2> QED
    BY <2>2 DEF n
<1> QED
  BY <1>5, <1>6 DEF FallInv

\* A scrape shows the total of the one worker, which was no less when it was last shown.
LEMMA FallScrapes ==
  ASSUME OneWorker, FallInv, NEW r \in Requests, W(r) \in Workers, Scrape(r)
  PROVE  FallInv'
<1>1. scraped' = <<Rendered(W(r)), scraped[1]>> /\ UNCHANGED total
  BY DEF Scrape, counters
<1>2. PICK v \in Workers : v = W(r) /\ \A w \in Workers : w = v
  BY DEF OneWorker
<1>3. scraped'[1] = Rendered(v) /\ scraped'[2] = scraped[1]
  BY <1>1, <1>2
<1>4. Rendered(v).requests = SumOf(total[v], Series)
  BY DEF Rendered, TotalOf, SumOf
<1>5. /\ scraped'[1].requests = SumOf(total[v], Series)
      /\ scraped'[2].requests = scraped[1].requests
  BY <1>3, <1>4
<1>6. /\ SumOf(total[v], Series) \in Nat /\ scraped[1].requests \in Nat
      /\ scraped[1].requests <= SumOf(total[v], Series)
  BY DEF FallInv
<1>7. \A w \in Workers : SumOf(total'[w], Series) = SumOf(total[v], Series)
  BY <1>1, <1>2
<1> QED
  BY <1>5, <1>6, <1>7 DEF FallInv

LEMMA FallNext == OneWorker /\ AuditInv /\ CountInv /\ FallInv /\ [Next]_vars => FallInv'
<1> SUFFICES ASSUME OneWorker, AuditInv, CountInv, FallInv, [Next]_vars PROVE FallInv'
  OBVIOUS
<1>1. ASSUME UNCHANGED <<total, scraped>> PROVE FallInv'
  BY <1>1 DEF FallInv
<1>2. ASSUME NEW r \in Requests, Scrape(r) PROVE FallInv'
  <2>1. W(r) \in Workers
    BY <1>2 DEF Scrape, At, AuditInv, ReqInv
  <2> QED
    BY <1>2, <2>1, FallScrapes
<1>3. ASSUME NEW r \in Requests, Step(r) PROVE FallInv'
  <2>1. CASE Scrape(r)
    BY <1>2, <2>1
  <2>2. CASE Record(r)
    BY <2>2, FallRecords
  <2>3. CASE \/ Enter(r) \/ Refuse(r) \/ Admit(r) \/ Exit(r) \/ Recorded(r) \/ View(r)
             \/ Register(r) \/ Change(r) \/ Derive(r) \/ Audit(r) \/ Audited(r) \/ Dispatch(r)
    <3>1. UNCHANGED <<total, scraped>>
      BY <2>3 DEF Enter, Refuse, Admit, Exit, Recorded, View, Register, Change, Derive, Audit, Audited,
         Dispatch, Answer, Raise, counters
    <3> QED
      BY <1>1, <3>1
  <2> QED
    BY <1>3, <2>1, <2>2, <2>3 DEF Step
<1>4. CASE UNCHANGED others \/ \E r \in Requests, w \in Workers, e \in Endpoints,
                                known \in BOOLEAN : Arrive(r, w, e, known)
  <2>1. UNCHANGED <<total, scraped>>
    BY <1>4 DEF Arrive, others, counters
  <2> QED
    BY <1>1, <2>1
<1> QED
  BY <1>3, <1>4 DEF Next, Served, Kill, vars, others

-----------------------------------------------------------------------------

\* The audit invariant of every reachable state: lock, counters and trail together.
THEOREM AuditInvariant == Spec => []AuditInv
BY AuditInit, AuditNext, PTL DEF Spec

\* The locks are held where the code holds them, and a request has one of the statuses.
THEOREM TypeCorrect == Spec => []TypeOK
<1>1. AuditInv /\ alive \subseteq Workers => TypeOK
  BY DEF AuditInv, Types, LockInv, ReqInv, Holding, TypeOK
<1>2. Init => alive \subseteq Workers
  BY DEF Init
<1>3. alive \subseteq Workers /\ [Next]_vars => (alive \subseteq Workers)'
  BY DEF Next, Kill, Served, vars
<1> QED
  BY <1>1, <1>2, <1>3, AuditInvariant, PTL DEF Spec

\* However many threads of a worker write audit lines at once, its counters add up to
\* the lines that were written.
THEOREM CountersAddUp == Spec => []AuditsAddUp
<1>1. AuditInv => AuditsAddUp
  BY DEF AuditInv
<1> QED
  BY <1>1, AuditInvariant, PTL

\* What a client was told of as done is in the audit trail, and so is every upload that was
\* committed or rejected and every registration by /add, whatever fails afterwards and
\* whichever workers are killed.
THEOREM ToldChangesAreAudited == Spec => []ToldIsAudited
<1>1. AuditInv => ToldIsAudited
  BY DEF AuditInv, ReqInv, Trailed, Owes, ToldIsAudited
<1> QED
  BY <1>1, AuditInvariant, PTL

\* Every request is counted once, as what its client is sent, and is in flight for as
\* long as it is handled, however many threads of the worker count at once.
THEOREM RequestsAreCounted == Spec => []CountedAsSent
<1>1. CountInv => CountedAsSent
  BY DEF CountInv, CountedAsSent, Handling, RecordedAs
<1> QED
  BY <1>1, AuditInvariant, CountInit, CountNext, PTL DEF Spec

\* A scrape shows no request half recorded, whatever is being recorded when it arrives:
\* as many in the histogram as in the totals, and the durations of what is finished.
THEOREM ScrapesAreWhole == Spec => []ScrapeIsWhole
<1>1. ScrapeInv => ScrapeIsWhole
  BY DEF ScrapeInv
<1> QED
  BY <1>1, AuditInvariant, CountInit, CountNext, ScrapeInit, ScrapeNext, PTL DEF Spec


\* The workers add up where they are scraped only if there is one: the totals that two
\* scrapes in a row show then never fall, whatever is recorded between them.  With two
\* workers behind one address they do fall, which is what Metrics_workers shows.
THEOREM OneWorkerNeverFalls == OneWorker /\ Spec => []ScrapedTotalsNeverFall
<1>1. FallInv => ScrapedTotalsNeverFall
  BY DEF FallInv, ScrapedTotalsNeverFall
<1>2. OneWorker => OneWorker'
  BY DEF OneWorker
<1> QED
  BY <1>1, <1>2, AuditInvariant, CountInit, CountNext, FallInit, FallNext, PTL DEF Spec

====
