------------------------------ MODULE MCMetrics ------------------------------
(***************************************************************************)
(* A Metrics run: pages of two machines, every endpoint, and a duration on *)
(* the edge of a bucket and one above it.                                  *)
(***************************************************************************)
EXTENDS Metrics, TLC

MCEndpoints == Changes \cup {"page", "metrics"}
MCViews     == {<<"workload", "12">>, <<"workload", "13">>}
MCIds       == {"12", "13"}
MCEdges     == <<1>>
MCSymmetry  == Permutations(Requests)

====
