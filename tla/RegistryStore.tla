---------------------------- MODULE RegistryStore ----------------------------
(***************************************************************************)
(* What connectors/registry.py promises its callers: one table of sources, *)
(* on which add_source, remove_source and load each take effect once, at   *)
(* one instant between the call and the return.                            *)
(***************************************************************************)
CONSTANTS
  Procs,        \* callers: request handlers and dispatcher runs
  Ids, Configs, \* source_id values, and the rows a source can be given
  Absent,       \* the row of a source that is not registered
  First,        \* the table before the first call
  Nothing       \* no answer yet

Tables == [Ids -> Configs \cup {Absent}]
Calls  == [kind : {"load"}]
       \cup [kind : {"add"}, id : Ids, cfg : Configs]
       \cup [kind : {"remove"}, id : Ids]

\* The table after a call: an upsert, a removal, or nothing.
Effect(t, c) ==
  CASE c.kind = "add"    -> [t EXCEPT ![c.id] = c.cfg]
    [] c.kind = "remove" -> [t EXCEPT ![c.id] = Absent]
    [] OTHER             -> t

VARIABLES
  table,        \* the registered sources
  stage,        \* of each caller: "idle", "called" or "served"
  call,         \* what it asked
  answer        \* the table its load was given

vars == <<table, stage, call, answer>>

Init ==
  /\ table = First
  /\ stage = [p \in Procs |-> "idle"]
  /\ call = [p \in Procs |-> [kind |-> "load"]]
  /\ answer = [p \in Procs |-> Nothing]

Ask(p, c) ==
  /\ stage[p] = "idle"
  /\ stage' = [stage EXCEPT ![p] = "called"]
  /\ call' = [call EXCEPT ![p] = c]
  /\ UNCHANGED <<table, answer>>

\* The one instant at which a call takes effect and sees the table.
Serve(p) ==
  /\ stage[p] = "called"
  /\ stage' = [stage EXCEPT ![p] = "served"]
  /\ table' = Effect(table, call[p])
  /\ answer' = [answer EXCEPT ![p] = IF call[p].kind = "load" THEN table ELSE Nothing]
  /\ UNCHANGED call

\* The caller returns, or its worker dies before or after its call was served.
Finish(p) ==
  /\ stage[p] # "idle"
  /\ stage' = [stage EXCEPT ![p] = "idle"]
  /\ answer' = [answer EXCEPT ![p] = Nothing]
  /\ UNCHANGED <<table, call>>

Next == \E p \in Procs : (\E c \in Calls : Ask(p, c)) \/ Serve(p) \/ Finish(p)

Spec == Init /\ [][Next]_vars
==============================================================================
