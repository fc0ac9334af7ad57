------------------------------ MODULE Warehouse ------------------------------
(***************************************************************************)
(* What the ingestion pipeline promises of focus_costs, without locks,     *)
(* handlers, transactions or files in between: files come and go in the    *)
(* inboxes, and the partition of a source is only ever replaced, as a      *)
(* whole, by the rows of its whole inbox, by its export, or by nothing.    *)
(***************************************************************************)
CONSTANTS
  Sources, Names,
  Listed,     \* the names whose files are rows
  Contents,   \* what a file may hold, its absence and a fresh one included
  NoFile,
  RowBodies,  \* the contents that name rows
  Export,
  Loadable    \* the rows the database and the conformance gate accept

VARIABLES inbox, table

vars == <<inbox, table>>

InboxOf(s) == {inbox[s][n] : n \in Listed} \cap RowBodies

Whole(s) == {InboxOf(s), {Export}, {}}

Init ==
  /\ inbox = [s \in Sources |-> [n \in Names |-> NoFile]]
  /\ table \in [Sources -> {{}, {Export}}]

\* A file is written, emptied or removed.
Submit(s, n) ==
  /\ \E b \in Contents : inbox' = [inbox EXCEPT ![s][n] = b]
  /\ UNCHANGED table

\* load_source and delete_source.
Replace(s) ==
  /\ \E rows \in Whole(s) :
       rows \subseteq Loadable /\ table' = [table EXCEPT ![s] = rows]
  /\ UNCHANGED inbox

\* schema.sql and the bulk load of a restart.
Rebuild ==
  /\ table' \in [Sources -> SUBSET Loadable]
  /\ \A s \in Sources : table'[s] \in Whole(s)
  /\ UNCHANGED inbox

Next ==
  \/ \E s \in Sources, n \in Names : Submit(s, n)
  \/ \E s \in Sources : Replace(s)
  \/ Rebuild

Spec == Init /\ [][Next]_vars

====
