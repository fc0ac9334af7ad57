------------------------------- MODULE Console -------------------------------
(***************************************************************************)
(* The dashboard (web/app.py, web/queries.py) over tables that loads       *)
(* replace underneath it.  A page is a fixed sequence of queries, each on  *)
(* a connection of its own (web/db.py query), so every query sees another  *)
(* committed state.  Loads commit the partition of a source, the derived   *)
(* join of an export taken earlier, the on-prem recharge, or, for a seed,  *)
(* all tables at once (connectors/router.py, onprem/cost_model.py,         *)
(* db/loader.py).                                                          *)
(*                                                                         *)
(* A cost row is a record of Bills; a query that counts or sums rows       *)
(* returns the set of them where a set tells more.                         *)
(***************************************************************************)
EXTENDS Integers, FiniteSets, FiniteSetsExt, Sequences

CONSTANTS
  Sources,
  Bills,       \* cost rows: res, cat, day, cur, prov, usd, and whether usd is there
  Partitions,  \* for each source, the partitions it may be given
  NoRes,       \* the ResourceId that is missing
  VmsOf,       \* the machines that a resource denotes
  Vms,
  Idle,        \* machines whose average CPU is below 25
  Recharge,    \* what compute_rows charges for each on-prem machine
  TopLimit,    \* rows of the rightsizing list
  Drills,      \* the machine ids, comma-joined when several, that are looked at
  MaxCommits,  \* loads that commit during a page
  NoExport

\* Amounts are in a unit finer than the cents that the budget panel rounds to.
Cent == 10

\* "real cost", the 30 dollars of the rightsizing queries.
Worth == 30 * 100 * Cent

Categories == {"AI and Machine Learning", "Storage", "Compute", "Other"}   \* FOCUS 1.3
Expected   == {"AI and Machine Learning", "Storage"}             \* EXPECTED_CATS

Resources == DOMAIN VmsOf

\* The contents that focus_costs can have: every source has one of its partitions.
Contents == {f \in [Sources -> UNION {Partitions[s] : s \in Sources}] :
               \A s \in Sources : f[s] \in Partitions[s]}

\* What the gate of FileGate lets in.
Conformant(b) == b.cat \in Categories /\ b.priced /\ b.cur # "NULL"

ASSUME ConsoleAssumption ==
  /\ Bills \subseteq [res : Resources \cup {NoRes}, cat : Categories \cup {"Misc"},
                      day : Nat, cur : {"upper", "lower", "NULL"}, prov : STRING,
                      priced : BOOLEAN, usd : Nat]
  /\ TopLimit \in Nat
  /\ IsFiniteSet(Sources) /\ IsFiniteSet(Bills) /\ IsFiniteSet(Vms)
  /\ NoRes \notin Resources
  /\ VmsOf \in [Resources -> SUBSET Vms]
  /\ Idle \subseteq Vms
  /\ Recharge \in [DOMAIN Recharge -> Nat] /\ DOMAIN Recharge \subseteq Vms
  /\ Partitions \in [Sources -> SUBSET SUBSET Bills]
  /\ Drills \subseteq SUBSET Vms
  /\ MaxCommits \in Nat
  /\ NoExport \notin [Sources -> SUBSET Bills]

VARIABLES
  focus,     \* focus_costs: the partition of each source
  join,      \* resource_join_map
  util,      \* miq_utilization: the machines that have samples
  onprem,    \* miq_onprem_cost: the machines charged
  exported,  \* the export of focus_costs that a rebuild is working from
  page,      \* the page being rendered, "" when none is
  wanted,    \* vm_id of a drill-down
  asked,     \* queries of the page that have been answered
  got,       \* their answers
  commits,   \* loads committed so far
  quiet      \* no load has committed since the page began

tables == <<focus, join, util, onprem>>
loads  == <<focus, join, util, onprem, exported, commits, quiet>>
vars   == <<loads, page, wanted, asked, got>>

-----------------------------------------------------------------------------

(***************************************************************************)
(* The rows of the tables.  resource_join_map is what ResourceJoin builds, *)
(* one row for each source and resource, and one for each machine left.    *)
(***************************************************************************)
RowsOf(f) == UNION {{[source |-> s, bill |-> b] : b \in f[s]} : s \in Sources}
Costs     == RowsOf(focus)

Usd(rows) == MapThenSumSet(LAMBDA r : IF r.bill.priced THEN r.bill.usd ELSE 0, rows)

JoinStatus(res) ==
  CASE res = NoRes -> "no_resource_id"
    [] res # NoRes /\ VmsOf[res] = {} -> "unmatched_focus_only"
    [] res # NoRes /\ Cardinality(VmsOf[res]) = 1 -> "matched"
    [] OTHER -> "ambiguous"

\* A mutant: costs are grouped by resource alone.
SameResource(rows, r) == {y \in rows : y.bill.res = r.bill.res}

\* The cost rows that are summed with r.
GroupOf(rows, r) == {y \in rows : <<y.source, y.bill.res>> = <<r.source, r.bill.res>>}

JoinOf(rows) ==
  LET row(r)   == [source |-> r.source, res |-> r.bill.res, status |-> JoinStatus(r.bill.res),
                   vms |-> IF r.bill.res = NoRes THEN {} ELSE VmsOf[r.bill.res],
                   cats |-> {x.bill.cat : x \in GroupOf(rows, r)}, cost |-> Usd(GroupOf(rows, r))]
      costRows == {row(r) : r \in rows}
      named    == UNION {j.vms : j \in costRows}
  IN costRows \cup {[source |-> "", res |-> NoRes, status |-> "unmatched_miq_only",
                     vms |-> {v}, cats |-> {}, cost |-> 0] : v \in Vms \ named}

-----------------------------------------------------------------------------

(***************************************************************************)
(* The queries.                                                            *)
(***************************************************************************)
OfStatus(s) == {j \in join : j.status = s}

\* matched rows whose machine has samples, as the rightsizing queries join them.
Sampled == {j \in OfStatus("matched") : j.vms \subseteq util}

\* GROUP BY miq_vm_id, miq_vm_name, focus_source, focus_billed_cost_sum.
TopRows == {[vms |-> j.vms, source |-> j.source, cost |-> j.cost] : j \in Sampled}

\* ORDER BY: the idle machines first, then the dearer.
Before(a, b) ==
  LET idle(r) == r.vms \subseteq Idle
  IN \/ idle(a) /\ ~idle(b)
     \/ (idle(a) <=> idle(b)) /\ a.cost > b.cost

\* LIMIT: what it can leave, as rows of one rank come in any order.
TopLists ==
  {list \in SUBSET TopRows :
     /\ Cardinality(list) <= TopLimit
     /\ Cardinality(list) < TopLimit => list = TopRows
     /\ \A a \in list, b \in TopRows \ list : ~Before(b, a)}

\* GROUP BY miq_vm_id, focus_billed_cost_sum HAVING ...
Candidates == {<<j.vms, j.cost>> : j \in {k \in Sampled : k.vms \subseteq Idle /\ k.cost > Worth}}

\* A mutant: MIN for MAX.
BottomCost(v) == Min({j.cost : j \in {k \in Sampled : k.vms = v}})

\* MAX(focus_billed_cost_sum) for each machine, HAVING ...
TopCost(v) == Max({j.cost : j \in {k \in Sampled : k.vms = v}})
Addressable ==
  LET vs == {v \in {j.vms : j \in Sampled} : v \subseteq Idle /\ TopCost(v) > Worth}
  IN MapThenSumSet(TopCost, vs)

\* A mutant: a FOCUS-only row of no known category is in neither part.
SegmentDropped(j) ==
  IF j.status # "unmatched_focus_only" THEN j.status
  ELSE IF j.cats \cap Expected # {} THEN IF "Compute" \in j.cats THEN "both" ELSE "expected"
  ELSE "worklist"

\* The status of a row, with the FOCUS-only ones split by category.
Segment(j) ==
  IF j.status # "unmatched_focus_only" THEN j.status
  ELSE IF j.cats \cap Expected # {} /\ "Compute" \notin j.cats THEN "expected"
  ELSE "worklist"

FocusOnlySplit == {<<s, {j \in OfStatus("unmatched_focus_only") : Segment(j) = s}>> :
                     s \in {"expected", "worklist"}}

PerSource == [s \in Sources |-> focus[s]]

\* ::NUMERIC(12,2), in cents, half a cent up.
ToCents(usd) == (usd + Cent \div 2) \div Cent

\* SUM(billed_cost_usd)::NUMERIC(12,2) GROUP BY service_provider_name.
PerProvider == [p \in {r.bill.prov : r \in Costs} |->
                  ToCents(Usd({r \in Costs : r.bill.prov = p}))]
Recharged == MapThenSumSet(LAMBDA v : Recharge[v], onprem)

\* The rules of focus_conformance: the rows that break each.  The six queries for
\* NULLs are one here; the count that follows offending categories finds the rows
\* of the query for them.
MissingRows  == {r \in Costs : r.bill.cur = "NULL"}
OddRows      == {r \in Costs : r.bill.cat \notin Categories}
UnpricedRows == {r \in Costs : ~r.bill.priced}
OddCodeRows  == {r \in Costs : r.bill.cur \notin {"upper", "NULL"}}

\* An ambiguous row is asked for by its comma-joined ids, and finds no samples.
DetailRows == {j \in join : j.vms = wanted /\ j.vms # {}}
DetailUtil == IF Cardinality(wanted) = 1 THEN wanted \cap util ELSE {}

\* A mutant: IS NOT DISTINCT FROM.
CostsOfNull(res) == {r \in Costs : r.bill.res = res}

\* WHERE resource_id = NULL is true of no row.
CostsOf(res) == {r \in Costs : r.bill.res = res /\ res # NoRes}

Answer(q) ==
  CASE q[2] = "billed"       -> {Usd(Costs)}
    [] q[2] = "recharged"    -> {Recharged}
    [] q[2] = "costs"        -> {Cardinality(Costs)}
    [] q[2] = "joined"       -> {Cardinality(join)}
    [] q[2] = "samples"      -> {Cardinality(util)}
    [] q[2] = "charged"      -> {Cardinality(onprem)}
    [] q[2] = "statuses"     -> join
    [] q[2] = "categories"   -> FocusOnlySplit
    [] q[2] = "candidates"   -> {Cardinality(Candidates)}
    [] q[2] = "addressable"  -> {Addressable}
    [] q[2] = "perSource"    -> {PerSource}
    [] q[2] = "perProvider"  -> {PerProvider}
    [] q[2] = "missing"      -> MissingRows
    [] q[2] = "oddCategory"  -> OddRows
    [] q[2] = "unpriced"     -> UnpricedRows
    [] q[2] = "oddCode"      -> OddCodeRows
    [] q[2] = "rechargeRows" -> onprem
    [] q[2] = "util"         -> DetailUtil
    [] q[2] \in {"daily", "decomp"} ->
         CostsOf((CHOOSE j \in got[<<"detail", "head">>] : TRUE).res)

\* The answers that a query may get: LIMIT leaves the choice of a row to the database.
Answers(q) ==
  CASE q[2] = "head" -> IF DetailRows = {} THEN {{}} ELSE {{j} : j \in DetailRows}
    [] q[2] = "top"  -> TopLists
    [] OTHER         -> {Answer(q)}

-----------------------------------------------------------------------------

(***************************************************************************)
(* The pages: the queries of each panel, in order.                         *)
(***************************************************************************)
Panel(name, qs) == [i \in DOMAIN qs |-> <<name, qs[i]>>]

HeadlineKpis == Panel("kpis", <<"billed", "recharged", "costs", "statuses",
                                "candidates", "addressable">>)
PipelineSnapshot == Panel("pipeline", <<"costs", "joined", "samples", "charged">>)
ProviderIngest   == Panel("ingest", <<"perSource">>)
JoinDistribution == Panel("join", <<"statuses", "categories">>)
TopRightsizing   == Panel("rightsizing", <<"top">>)
CloudVsOnprem    == Panel("budget", <<"perProvider", "recharged">>)
FocusConformance == Panel("conformance", <<"costs", "missing", "oddCategory",
                                           "unpriced", "oddCode">>)
HeadlineStats    == Panel("stats", <<"costs", "joined", "samples", "statuses">>)
CloudView        == Panel("cloud", <<"perSource", "rechargeRows">>)
WorkloadDetail   == Panel("detail", <<"head", "util", "daily", "decomp">>)

QueriesOf(p) ==
  CASE p = "index"   -> HeadlineKpis \o PipelineSnapshot \o ProviderIngest
                          \o JoinDistribution \o TopRightsizing \o CloudVsOnprem
                          \o FocusConformance
    [] p = "login"   -> HeadlineKpis
    [] p = "healthz" -> HeadlineStats
    [] p = "cloud"   -> CloudView
    [] p = "detail"  -> WorkloadDetail
    [] OTHER         -> <<>>

Pages == {"index", "login", "healthz", "cloud", "detail"}

Asked(q)  == q \in DOMAIN got
The(q)    == CHOOSE x \in got[q] : TRUE
Rendered  == asked = Len(QueriesOf(page)) /\ page # ""
Missing   == page = "detail" /\ Asked(<<"detail", "head">>)
               /\ got[<<"detail", "head">>] = {}

Init ==
  /\ focus \in {f \in Contents : \A s \in Sources : \A b \in f[s] : Conformant(b)}
  /\ join = JoinOf(RowsOf(focus))
  /\ util = Vms
  /\ onprem = DOMAIN Recharge
  /\ exported = NoExport
  /\ page = "" /\ wanted = {} /\ asked = 0 /\ got = <<>>
  /\ commits = 0 /\ quiet = TRUE

Open(p, vs) ==
  /\ page = ""
  /\ page' = p /\ wanted' = vs
  /\ quiet' = TRUE
  /\ UNCHANGED <<focus, join, util, onprem, exported, commits, asked, got>>

\* The next query of the page.
Query ==
  LET q == QueriesOf(page)[asked + 1] IN
  /\ page # "" /\ ~Rendered /\ ~Missing
  /\ asked' = asked + 1
  /\ \E a \in Answers(q) :
       got' = [x \in DOMAIN got \cup {q} |-> IF x = q THEN a ELSE got[x]]
  /\ UNCHANGED <<loads, page, wanted>>

\* The response is sent: the page, or the 404 of a machine that no row names.
Respond ==
  /\ Rendered \/ Missing
  /\ page' = "" /\ wanted' = {} /\ asked' = 0 /\ got' = <<>>
  /\ UNCHANGED loads

-----------------------------------------------------------------------------

(***************************************************************************)
(* The loads.                                                              *)
(***************************************************************************)
Commit ==
  /\ commits < MaxCommits
  /\ commits' = commits + 1
  /\ quiet' = FALSE
  /\ UNCHANGED <<page, wanted, asked, got>>

\* load_source and delete_source: the partition of one source.
LoadSource(s, rows) ==
  /\ Commit
  /\ \A b \in rows : Conformant(b)
  /\ focus' = [focus EXCEPT ![s] = rows]
  /\ UNCHANGED <<join, util, onprem, exported>>

\* export_focus_costs_csv: what the rebuild will work from.
Export ==
  /\ exported = NoExport
  /\ exported' = focus
  /\ UNCHANGED <<focus, join, util, onprem, commits, quiet, page, wanted, asked, got>>

\* _load_join_only.
LoadJoin ==
  /\ exported # NoExport
  /\ Commit
  /\ join' = JoinOf(RowsOf(exported))
  /\ exported' = NoExport
  /\ UNCHANGED <<focus, util, onprem>>

\* cost_model.load_into_postgres truncates and refills in one transaction; when it
\* raises, the rows of the last success stay.
LoadOnprem ==
  /\ Commit
  /\ onprem' = DOMAIN Recharge
  /\ UNCHANGED <<focus, join, util, exported>>

\* A seed replaces everything but the recharge, which it leaves empty.
Seed(f) ==
  /\ Commit
  /\ \A s \in Sources : \A b \in f[s] : Conformant(b)
  /\ focus' = f
  /\ join' = JoinOf(RowsOf(f))
  /\ util' = Vms
  /\ onprem' = {}
  /\ UNCHANGED exported

Next ==
  \/ \E p \in Pages \ {"detail"} : Open(p, {})
  \/ \E vs \in Drills : Open("detail", vs)
  \/ Query
  \/ Respond
  \/ \E s \in Sources : \E rows \in Partitions[s] : LoadSource(s, rows)
  \/ Export
  \/ LoadJoin
  \/ LoadOnprem
  \/ \E f \in Contents : Seed(f)

Spec == Init /\ [][Next]_vars

-----------------------------------------------------------------------------

(***************************************************************************)
(* Properties.                                                             *)
(***************************************************************************)
TypeOK ==
  /\ focus \in [Sources -> SUBSET Bills]
  /\ util \subseteq Vms /\ onprem \subseteq DOMAIN Recharge
  /\ exported \in [Sources -> SUBSET Bills] \cup {NoExport}
  /\ page \in Pages \cup {""} /\ wanted \subseteq Vms
  /\ asked \in Nat
  /\ commits \in 0..MaxCommits /\ quiet \in BOOLEAN

Segments == {"matched", "expected", "worklist", "unmatched_miq_only",
             "no_resource_id", "ambiguous"}

\* On a page during which no load committed, panels that count and sum in ways of their
\* own agree: rows in all and for each source, dollars in all and for each provider but
\* for the rounding of each to cents, and the segments add up to the whole join.
QuietPageAgrees ==
  quiet /\ Rendered /\ page = "index" =>
    /\ The(<<"kpis", "costs">>)
         = MapThenSumSet(LAMBDA s : Cardinality(The(<<"ingest", "perSource">>)[s]), Sources)
    /\ LET billed == The(<<"kpis", "billed">>)
           each   == The(<<"budget", "perProvider">>)
           sum    == Cent * MapThenSumSet(LAMBDA p : each[p], DOMAIN each)
           margin == (Cent \div 2) * Cardinality(DOMAIN each)
       IN billed <= sum + margin /\ sum <= billed + margin
    /\ The(<<"pipeline", "joined">>)
         = MapThenSumSet(LAMBDA t : Cardinality({j \in got[<<"join", "statuses">>] : j.status = t}),
                         Segments \ {"expected", "worklist"})
           + MapThenSumSet(LAMBDA t : Cardinality(t[2]), got[<<"join", "categories">>])

\* What rows of the list save: the dearest of each machine.
DearestIn(rows) ==
  MapThenSumSet(LAMBDA v : Max({r.cost : r \in {x \in rows : x.vms = v}}), {r.vms : r \in rows})

\* The two rightsizing tiles and the list under them tell one story on a quiet page.
\* There are candidates exactly when there is money to save.  The list is full of idle
\* and dear machines or has a row for each candidate, never of more money than the
\* tile; and when it is not full of them, the money is that of the machines it names.
TilesAgree ==
  quiet /\ Rendered /\ page = "index" =>
    LET candidates  == The(<<"kpis", "candidates">>)
        addressable == The(<<"kpis", "addressable">>)
        dear == {r \in got[<<"rightsizing", "top">>] : r.vms \subseteq Idle /\ r.cost > Worth}
    IN /\ candidates = 0 <=> addressable = 0
       /\ candidates <= Cardinality(dear) \/ Cardinality(dear) = TopLimit
       /\ \A r \in dear : r.cost <= addressable
       /\ Cardinality(dear) < TopLimit => addressable = DearestIn(dear)

\* The daily costs of a drill-down are of its own resource, none of them lacks a
\* ResourceId, and on a quiet page over a fresh join those of its source add up to
\* the cost in its head.
DetailAddsUp ==
  page = "detail" /\ Asked(<<"detail", "daily">>) =>
    LET head  == The(<<"detail", "head">>)
        daily == got[<<"detail", "daily">>]
    IN /\ \A r \in daily : r.bill.res = head.res /\ r.bill.res \in Resources
       /\ quiet /\ join = JoinOf(Costs) =>
            Usd({r \in daily : r.source = head.source}) = head.cost

CostIn(rows) == MapThenSumSet(LAMBDA j : j.cost, rows)

\* The money of the costs is the money of a fresh join, and that of each resource is in
\* the rows of the resource, whichever sources bill it: none is lost, none counted twice.
MoneyReconciles ==
  join = JoinOf(Costs) =>
    /\ CostIn(join) = Usd(Costs)
    /\ \A res \in Resources : CostIn({j \in join : j.res = res}) = Usd(CostsOf(res))

(***************************************************************************)
(* Promises that the code does not keep.                                   *)
(***************************************************************************)

\* web/queries.py headline_kpis: the tile counts workloads.
RightsizeCountsMachines ==
  quiet /\ Rendered /\ page = "login" =>
    The(<<"kpis", "candidates">>)
      = Cardinality({v \in Vms : \E c \in Candidates : c[1] = {v}})

\* tests/test_data_integrity.py B-7: the cost of every matched row is the sum of
\* focus_costs for its resource.
JoinReconciles ==
  join = JoinOf(Costs) => \A j \in OfStatus("matched") : j.cost = Usd(CostsOf(j.res))

====
