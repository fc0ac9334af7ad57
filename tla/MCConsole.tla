------------------------------ MODULE MCConsole ------------------------------
(***************************************************************************)
(* A Console run: a cloud whose export may come and go, and an upload that *)
(* may bill a resource of that cloud again.                                *)
(***************************************************************************)
EXTENDS Console

Bill(res, cat, day, prov, dollars) ==
  [res |-> res, cat |-> cat, day |-> day, cur |-> "upper", prov |-> prov, priced |-> TRUE,
   usd |-> 1000 * dollars + 4]

Big    == Bill("instance", "Compute", 1, "AWS", 40)
Small  == Bill("instance", "Compute", 2, "AWS", 20)
Batch  == Bill("batch", "Compute", 1, "AWS", 40)
Again  == Bill("batch", "Compute", 2, "AWS", 35)
Model  == Bill("model", "AI and Machine Learning", 1, "AWS", 20)
Lost   == [Bill("model", "Compute", 2, "Reseller", 5) EXCEPT !.cur = "lower"]
Shared == Bill("shared", "Compute", 1, "Reseller", 50)
Tax    == Bill("", "Other", 1, "AWS", 7)
Odd    == {[Tax EXCEPT !.cat = "Misc"], [Tax EXCEPT !.cur = "NULL"], [Tax EXCEPT !.priced = FALSE]}

MCSources    == {"aws", "upload"}
MCBills      == {Big, Small, Batch, Again, Model, Lost, Shared, Tax} \cup Odd
MCPartitions == [s \in MCSources |->
                   IF s = "aws" THEN {{}, {Big, Batch, Model, Lost, Tax}}
                   ELSE {{}, {Small, Again, Lost, Shared}} \cup {{b} : b \in Odd}]
MCVms        == 1..5
MCVmsOf      == [r \in {"instance", "batch", "model", "shared"} |->
                   CASE r = "instance" -> {1} [] r = "batch" -> {5} [] r = "shared" -> {2, 3} [] OTHER -> {}]
MCDrills     == {{1}, {2}, {2, 3}, {4}}
MCIdle       == {1, 4, 5}
MCRecharge   == [v \in {4} |-> 100]

====
