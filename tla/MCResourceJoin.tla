--------------------------- MODULE MCResourceJoin ----------------------------
(***************************************************************************)
(* Instances of ResourceJoin for TLC.                                      *)
(***************************************************************************)
EXTENDS ResourceJoin

CONSTANTS i1, a1, o1, g1

Clouding == [x \in Resources |->
  CASE x = i1 -> "aws" [] x = o1 -> "oci" [] OTHER -> "azure"]

As(x, f)    == [res |-> x, form |-> f]
Billed(s, c, i) == [source |-> s, cloud |-> c, rid |-> i]

\* What the clouds' own exports may contain: each identifier in the forms met.
Native ==
  {Billed("aws", "aws", i) : i \in {As(i1, "plain"), As(i1, "upper"), As(i1, "arn"), NoId}}
    \cup {Billed("azure", "azure", As(a1, f)) : f \in {"plain", "upper"}}
    \cup {Billed("oci", "oci", As(o1, f)) : f \in {"padded", "upper"}}

\* The same costs, some of them uploaded.
Mixed ==
  Native \cup {Billed("upload", "aws", As(i1, "plain")),
               Billed("upload", "aws", As(i1, "arn")),
               Billed("upload", "oci", As(o1, "upper")),
               Billed("upload", "oci", As(o1, "padded")),
               Billed("upload", "azure", As(a1, "plain"))}

\* The inventory: the Azure machine is known by a name and by its ARM path.
Inventory ==
  {[vendor |-> "amazon", uid |-> As(i1, "plain"), ref |-> As(i1, "plain")],
   [vendor |-> "amazon", uid |-> As(i1, "upper"), ref |-> NoId],
   [vendor |-> "azure",  uid |-> As(g1, "plain"), ref |-> As(a1, "upper")],
   [vendor |-> "oracle", uid |-> As(o1, "plain"), ref |-> As(o1, "plain")],
   [vendor |-> "redhat", uid |-> NoId,            ref |-> NoId]}
==============================================================================
