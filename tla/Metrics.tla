------------------------------- MODULE Metrics -------------------------------
(***************************************************************************)
(* What the console records of the requests it serves: the middlewares of  *)
(* web/app.py around every handler, the counters of web/observability.py,  *)
(* and the audit calls that connectors/router.py makes from handlers that  *)
(* change the ingested data.                                               *)
(*                                                                         *)
(* A worker process has an event loop and a pool of threads.  The          *)
(* middlewares run in the loop, most handlers in the pool, so what they    *)
(* count they count at the same time; the lock of the module is what keeps *)
(* the counters together.  Each worker counts for itself.                  *)
(***************************************************************************)
EXTENDS Integers, FiniteSets, FiniteSetsExt, Sequences

CONSTANTS
  Workers,    \* gunicorn workers: those that start, of which each may be killed
  Requests,
  Endpoints,  \* the endpoints asked for
  Views,      \* paths of pages, as sequences of segments
  Ids,        \* segments that are numbers, or longer than 24 characters
  AuthOn,     \* both BASIC_AUTH_USER and BASIC_AUTH_PASS are set
  Slow,       \* the last of the durations 1..Slow that a request may take
  Edges,      \* upper edges of the latency buckets
  Free        \* the holder of a lock that nobody holds

\* The endpoints of /connect that change what is ingested, and those that only read.
Changes   == {"add", "upload", "sample", "remove"}

Exempt    == {"metrics"}                                          \* _BA_EXEMPT
Statuses  == {200, 401, 422, 500}

\* _route_label.
Label(path) == [i \in DOMAIN path |-> IF path[i] \in Ids THEN ":id" ELSE path[i]]

\* The paths of requests, and of them the series they are counted in.
Paths  == Views \cup {<<"connect", e>> : e \in Changes} \cup {<<"metrics">>}
Labels == {Label(p) : p \in Paths}
Series == Labels \X Statuses

ASSUME MetricsAssumption ==
  /\ Endpoints \subseteq Changes \cup {"page", "metrics"}
  /\ IsFiniteSet(Requests) /\ Free \notin Requests
  /\ IsFiniteSet(Labels)   \* what _route_label is for
  /\ AuthOn \in BOOLEAN
  /\ Slow \in Nat \ {0}
  /\ Edges \in Seq(Nat) /\ \A i, j \in DOMAIN Edges : i < j => Edges[i] < Edges[j]

Bucket(d) == Min({i \in DOMAIN Edges : d <= Edges[i]} \cup {Len(Edges) + 1})

VARIABLES
  pc,        \* where each request is
  req,       \* its endpoint, path, worker, credentials and duration
  status,    \* what _observe holds as its status
  sent,      \* requests and the status that went out
  lock,      \* _lock of each worker
  inflight, total, buckets, count, sum, audits,  \* of each worker
  read,      \* what an increment under way has read
  registered,  \* requests that wrote the registry
  changed,   \* requests that committed a change of the tables
  audited,   \* requests whose audit line is written
  alive,     \* workers that have not been killed
  scraped    \* what the last scrape returned, and the one before

counters == <<inflight, total, buckets, count, sum, audits>>
trail    == <<registered, changed, audited>>
vars     == <<pc, req, status, sent, lock, counters, read, trail, scraped, alive>>

W(r) == req[r].worker
L(r) == Label(req[r].path)

NoRequest == [endpoint |-> "none", path |-> <<>>, worker |-> Free, known |-> FALSE, took |-> 0]
NoScrape  == [worker |-> Free, requests |-> 0, inflight |-> 0, histogram |-> 0, count |-> 0, sum |-> 0, took |-> 0]

Init ==
  /\ pc = [r \in Requests |-> "away"]
  /\ req = [r \in Requests |-> NoRequest]
  /\ status = [r \in Requests |-> 500]
  /\ sent = {}
  /\ lock = [w \in Workers |-> Free]
  /\ inflight = [w \in Workers |-> 0]
  /\ total = [w \in Workers |-> [s \in Series |-> 0]]
  /\ buckets = [w \in Workers |-> [l \in Labels |-> [i \in 1..Len(Edges) + 1 |-> 0]]]
  /\ count = [w \in Workers |-> [l \in Labels |-> 0]]
  /\ sum = [w \in Workers |-> [l \in Labels |-> 0]]
  /\ audits = [w \in Workers |-> [e \in Changes |-> 0]]
  /\ read = [r \in Requests |-> 0]
  /\ registered = {} /\ changed = {} /\ audited = {}
  /\ alive = Workers
  /\ scraped = <<NoScrape, NoScrape>>

Goto(r, to) == pc' = [pc EXCEPT ![r] = to]

At(r, here) == pc[r] = here

Unlocked(r) == lock[W(r)] = Free

-----------------------------------------------------------------------------

(***************************************************************************)
(* The middlewares.                                                        *)
(***************************************************************************)
PathsOf(e) == IF e = "page" THEN Views
              ELSE IF e = "metrics" THEN {<<"metrics">>} ELSE {<<"connect", e>>}

Arrive(r, w, e, known) ==
  /\ At(r, "away")
  /\ \E p \in PathsOf(e), d \in 1..Slow :
       req' = [req EXCEPT ![r] = [endpoint |-> e, path |-> p, worker |-> w, known |-> known,
                                  took |-> d]]
  /\ Goto(r, "enter")
  /\ UNCHANGED <<status, sent, lock, counters, read, trail, scraped>>

\* inflight.__enter__
Enter(r) ==
  /\ At(r, "enter") /\ Unlocked(r)
  /\ inflight' = [inflight EXCEPT ![W(r)] = @ + 1]
  /\ Goto(r, "auth")
  /\ UNCHANGED <<req, status, sent, lock, total, buckets, count, sum, audits, read, trail, scraped>>

Answer(r, code) ==
  /\ status' = [status EXCEPT ![r] = code]
  /\ Goto(r, "exit")
  /\ UNCHANGED <<req, sent, lock, counters, read, scraped>>

\* _basic_auth.
Guarded(r) == AuthOn /\ req[r].endpoint \notin Exempt

Refuse(r) ==
  /\ At(r, "auth")
  /\ Guarded(r) /\ ~req[r].known
  /\ Answer(r, 401)
  /\ UNCHANGED trail

Admit(r) ==
  /\ At(r, "auth")
  /\ Guarded(r) => req[r].known
  /\ Goto(r, "handle")
  /\ UNCHANGED <<req, status, sent, lock, counters, read, trail, scraped>>

\* What the handler raises comes out of call_next, inside the try of _basic_auth, which
\* passes on to its last statement; without the gate it comes out of _observe.
Raise(r) ==
  /\ Answer(r, IF Guarded(r) THEN 401 ELSE 500)
  /\ UNCHANGED trail

\* inflight.__exit__
Exit(r) ==
  /\ At(r, "exit") /\ Unlocked(r)
  /\ inflight' = [inflight EXCEPT ![W(r)] = @ - 1]
  /\ Goto(r, "record")
  /\ UNCHANGED <<req, status, sent, lock, total, buckets, count, sum, audits, read, trail, scraped>>

\* A mutant: it is recorded only when a response came back, not in a finally.
RecordAnswered(r) ==
  /\ At(r, "record") /\ Unlocked(r)
  /\ lock' = [lock EXCEPT ![W(r)] = r]
  /\ total' = [total EXCEPT ![W(r)][<<L(r), status[r]>>] = @ + IF status[r] = 500 THEN 0 ELSE 1]
  /\ Goto(r, "recording")
  /\ UNCHANGED <<req, status, sent, inflight, buckets, count, sum, audits, read, trail, scraped>>

\* record_request, with the lock.
Record(r) ==
  /\ At(r, "record") /\ Unlocked(r)
  /\ lock' = [lock EXCEPT ![W(r)] = r]
  /\ total' = [total EXCEPT ![W(r)][<<L(r), status[r]>>] = @ + 1]
  /\ Goto(r, "recording")
  /\ UNCHANGED <<req, status, sent, inflight, buckets, count, sum, audits, read, trail, scraped>>

\* The response goes out after _observe has returned it.
Recorded(r) ==
  /\ At(r, "recording")
  /\ sum' = [sum EXCEPT ![W(r)][L(r)] = @ + req[r].took]
  /\ count' = [count EXCEPT ![W(r)][L(r)] = @ + 1]
  /\ buckets' = [buckets EXCEPT ![W(r)][L(r)][Bucket(req[r].took)] = @ + 1]
  /\ lock' = [lock EXCEPT ![W(r)] = Free]
  /\ sent' = sent \cup {<<r, status[r]>>}
  /\ Goto(r, "done")
  /\ UNCHANGED <<req, status, inflight, total, audits, read, trail, scraped>>

-----------------------------------------------------------------------------

(***************************************************************************)
(* The handlers.                                                           *)
(***************************************************************************)
View(r) ==
  /\ At(r, "handle") /\ req[r].endpoint = "page"
  /\ Raise(r) \/ (Answer(r, 200) /\ UNCHANGED trail)

CountOf(w)  == MapThenSumSet(LAMBDA l : count[w][l], Labels)
TotalOf(w)  == MapThenSumSet(LAMBDA s : total[w][s], Series)
BucketsOf(w) == MapThenSumSet(LAMBDA l : MapThenSumSet(LAMBDA i : buckets[w][l][i], 1..Len(Edges) + 1), Labels)

Rendered(w) ==
  [worker |-> w, requests |-> TotalOf(w), inflight |-> inflight[w],
   histogram |-> BucketsOf(w), count |-> CountOf(w),
   sum |-> MapThenSumSet(LAMBDA l : sum[w][l], Labels),
   took |-> MapThenSumSet(LAMBDA r : req[r].took, {r \in Requests : pc[r] = "done" /\ W(r) = w})]

\* A mutant: render_prometheus without the lock.
ScrapeUnlocked(r) ==
  /\ At(r, "handle") /\ req[r].endpoint = "metrics"
  /\ scraped' = <<Rendered(W(r)), scraped[1]>>
  /\ status' = [status EXCEPT ![r] = 200]
  /\ Goto(r, "exit")
  /\ UNCHANGED <<req, sent, lock, counters, read, trail>>

\* render_prometheus.
Scrape(r) ==
  /\ At(r, "handle") /\ req[r].endpoint = "metrics" /\ Unlocked(r)
  /\ scraped' = <<Rendered(W(r)), scraped[1]>>
  /\ status' = [status EXCEPT ![r] = 200]
  /\ Goto(r, "exit")
  /\ UNCHANGED <<req, sent, lock, counters, read, trail>>

\* Requests that /connect refuses before it changes anything are pages here, and an
\* upload, which keeps the event loop to itself, is interleaved like the others.

\* The registry comes first: /add and /remove write it, an upload and the sample register
\* a source that is not there yet.  A save that raises leaves the registry as it was.
Register(r) ==
  /\ At(r, "handle") /\ req[r].endpoint \in Changes
  /\ \/ /\ registered' = registered \cup {r}
        /\ Goto(r, IF req[r].endpoint = "add" THEN "audit" ELSE "load")
        /\ UNCHANGED <<req, status, sent, lock, counters, read, changed, audited, scraped>>
     \/ /\ req[r].endpoint \in {"upload", "sample"}
        /\ Goto(r, "load")
        /\ UNCHANGED <<req, status, sent, lock, counters, read, trail, scraped>>
     \/ Raise(r)

\* The commit of the load or of the removal, or its refusal: an upload that is rejected is
\* audited as such, the sample is not, and what no handler catches is raised.
Change(r) ==
  /\ At(r, "load")
  /\ \/ /\ changed' = changed \cup {r}
        /\ Goto(r, "derive")
        /\ UNCHANGED <<req, status, sent, lock, counters, read, registered, audited, scraped>>
     \/ /\ req[r].endpoint = "upload"
        /\ status' = [status EXCEPT ![r] = 422]
        /\ Goto(r, "audit")
        /\ UNCHANGED <<req, sent, lock, counters, read, trail, scraped>>
     \/ req[r].endpoint = "sample" /\ Answer(r, 422) /\ UNCHANGED trail
     \/ Raise(r)

\* A mutant: an upload whose derived tables fail is answered as the sample is.
DeriveUnaudited(r) ==
  /\ At(r, "derive")
  /\ \/ /\ Goto(r, "audit")
        /\ status' = [status EXCEPT ![r] = 200]
        /\ UNCHANGED <<req, sent, lock, counters, read, trail, scraped>>
     \/ req[r].endpoint \in {"upload", "sample"} /\ Answer(r, 500) /\ UNCHANGED trail
     \/ req[r].endpoint = "remove" /\ Raise(r)

\* What follows the commit: the derived tables, and the dispatcher for a removal.
Derive(r) ==
  /\ At(r, "derive")
  /\ \/ /\ Goto(r, "audit")
        /\ status' = [status EXCEPT ![r] = 200]
        /\ UNCHANGED <<req, sent, lock, counters, read, trail, scraped>>
     \/ /\ req[r].endpoint = "upload"                      \* upload_partial
        /\ Goto(r, "audit")
        /\ UNCHANGED <<req, status, sent, lock, counters, read, trail, scraped>>
     \/ req[r].endpoint = "sample" /\ Answer(r, 500) /\ UNCHANGED trail
     \/ req[r].endpoint = "remove" /\ Raise(r)

\* A mutant: inc_counter without the lock.
AuditUnlocked(r) ==
  /\ At(r, "audit")
  /\ audited' = audited \cup {r}
  /\ read' = [read EXCEPT ![r] = audits[W(r)][req[r].endpoint]]
  /\ Goto(r, "auditing")
  /\ UNCHANGED <<req, status, sent, lock, counters, registered, changed, scraped>>

\* audit: the line, then inc_counter, with the lock.  The counter of an endpoint stands for
\* those of its actions: of an upload that is loaded, loaded in part, or rejected.
Audit(r) ==
  /\ At(r, "audit") /\ Unlocked(r)
  /\ audited' = audited \cup {r}
  /\ lock' = [lock EXCEPT ![W(r)] = r]
  /\ read' = [read EXCEPT ![r] = audits[W(r)][req[r].endpoint]]
  /\ Goto(r, "auditing")
  /\ UNCHANGED <<req, status, sent, counters, registered, changed, scraped>>

\* A handler that has not failed goes on after its audit.
Audited(r) ==
  /\ At(r, "auditing")
  /\ audits' = [audits EXCEPT ![W(r)][req[r].endpoint] = read[r] + 1]
  /\ lock' = [lock EXCEPT ![W(r)] = IF @ = r THEN Free ELSE @]
  /\ Goto(r, IF req[r].endpoint = "add" \/ status[r] = 200 THEN "dispatch" ELSE "exit")
  /\ UNCHANGED <<req, status, sent, inflight, total, buckets, count, sum, read, trail, scraped>>

\* The dispatcher runs for /add, and the registry is read for the answer: both may raise.
Dispatch(r) ==
  /\ At(r, "dispatch")
  /\ Raise(r) \/ (Answer(r, 200) /\ UNCHANGED trail)

Step(r) ==
  \/ Enter(r) \/ Refuse(r) \/ Admit(r) \/ Exit(r) \/ Record(r) \/ Recorded(r)
  \/ View(r) \/ Scrape(r)
  \/ Register(r) \/ Change(r) \/ Derive(r) \/ Audit(r) \/ Audited(r) \/ Dispatch(r)

\* gunicorn kills a worker that missed its heartbeat, at any point of its requests.
Kill(w) ==
  /\ alive' = alive \ {w}
  /\ UNCHANGED <<pc, req, status, sent, lock, counters, read, trail, scraped>>

Ended(r) == pc[r] = "done" \/ W(r) \in Workers \ alive

Served == /\ alive = {} \/ \A r \in Requests : Ended(r)
          /\ UNCHANGED vars

Next ==
  \/ /\ \E r \in Requests, w \in Workers, e \in Endpoints, known \in BOOLEAN :
          w \in alive /\ Arrive(r, w, e, known)
     /\ UNCHANGED alive
  \/ /\ \E r \in Requests : W(r) \in alive /\ Step(r)
     /\ UNCHANGED alive
  \/ \E w \in alive : Kill(w)
  \/ Served

Spec == Init /\ [][Next]_vars

-----------------------------------------------------------------------------

(***************************************************************************)
(* Properties.                                                             *)
(***************************************************************************)
TypeOK ==
  /\ \A r \in Requests : status[r] \in Statuses /\ (pc[r] # "away" => W(r) \in Workers)
  /\ \A w \in Workers : lock[w] = Free \/ pc[lock[w]] \in {"recording", "auditing"}
  /\ audited \subseteq Requests /\ changed \subseteq Requests /\ registered \subseteq Requests
  /\ alive \subseteq Workers

\* A scrape shows a state in which no request is half recorded: as many in the
\* histogram as in the totals, and the durations of exactly those that are finished.
\* The scrape itself is one of the requests in flight.
ScrapeIsWhole ==
  scraped[1] # NoScrape =>
    /\ scraped[1].requests = scraped[1].count
    /\ scraped[1].requests = scraped[1].histogram
    /\ scraped[1].sum = scraped[1].took
    /\ scraped[1].inflight >= 1

\* Each request is counted once, in the series of the status that its client was sent,
\* and it is in flight for exactly as long as it is being handled.
CountedAsSent ==
  \A w \in Workers :
    /\ \A s \in Series :
         total[w][s] = Cardinality({r \in Requests : pc[r] \in {"recording", "done"} /\ W(r) = w
                                                       /\ <<L(r), status[r]>> = s})
    /\ inflight[w] = Cardinality({r \in Requests :
                         pc[r] \notin {"away", "enter", "record", "recording", "done"} /\ W(r) = w})

\* The audit counters never lose an audit line, whichever threads write at once.
AuditsAddUp ==
  \A w \in Workers, e \in Changes :
    audits[w][e] = Cardinality({r \in audited : W(r) = w /\ req[r].endpoint = e
                                                  /\ pc[r] # "auditing"})

\* What its client was told of as done has its audit line.  So has every upload that was
\* committed or rejected, and every registration by /add, whatever fails afterwards.
ToldIsAudited ==
  \A r \in Requests :
    pc[r] = "done" /\ req[r].endpoint \in Changes
      /\ \/ status[r] = 200
         \/ req[r].endpoint = "upload" /\ (status[r] = 422 \/ r \in changed)
         \/ req[r].endpoint = "add" /\ r \in registered
      => r \in audited

(***************************************************************************)
(* Promises that the code does not keep.                                   *)
(***************************************************************************)

\* web/observability.py: the audit log answers who changed the ingested data.
EveryChangeIsAudited == \A r \in changed \cup registered : Ended(r) => r \in audited

\* GOTCHAS.md CX-6: 401 without credentials, 200 with; a failure is not one of access.
CredentialsAdmit == \A r \in Requests : <<r, 401>> \in sent => ~req[r].known

\* web/observability.py: the workers add up where they are scraped.
ScrapedTotalsNeverFall == scraped[1].requests >= scraped[2].requests

====
