---------------------------- MODULE MCMiqCollector ----------------------------
(***************************************************************************)
(* A fleet of two machines, and what they may answer for their rollups.    *)
(***************************************************************************)
EXTENDS MiqCollector

Rollup(kind, hour, nth) == [kind |-> kind, hour |-> hour, nth |-> nth]

\* Nothing to be had; two samples among rollups without a use; a cpu that is no
\* number; two rollups of one instant.
MCFetches ==
  {Failed,
   {Rollup("noTime", 0, 1), Rollup("usable", 1, 2), Rollup("noSignal", 2, 3),
    Rollup("usable", 2, 4)},
   {Rollup("text", 1, 1)},
   {Rollup("usable", 1, 1), Rollup("usable", 1, 2)}}

MCHome == [w \in {"w1", "w2", "s1"} |-> IF w = "s1" THEN "seed" ELSE "web"]

====
