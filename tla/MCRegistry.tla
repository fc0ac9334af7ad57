----------------------------- MODULE MCRegistry ------------------------------
(***************************************************************************)
(* Instances of Registry for TLC.                                          *)
(***************************************************************************)
EXTENDS Registry

CONSTANTS aws, acme, export, upload

\* The shipped registry knows one source; the other is still to be connected.
Shipped == [i \in Ids |-> IF i = aws THEN export ELSE Absent]
==============================================================================
