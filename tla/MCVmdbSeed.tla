------------------------------ MODULE MCVmdbSeed ------------------------------
(***************************************************************************)
(* VmdbSeed over every choice and order of three kinds of workload, and    *)
(* two estates with one of each kind; machines of the appliance below and  *)
(* in the demo range and, in the violation run, one above all the script's.*)
(***************************************************************************)
EXTENDS VmdbSeed

Name(on) ==
  CASE on = {} -> "Bridge" [] on = {"aws"} -> "Payments" [] on = {"azure"} -> "Fraud"
    [] on = {"oci"} -> "Warehouse" [] OTHER -> "KYC"

List(p)   == [i \in DOMAIN p |-> [name |-> Name(p[i]), on |-> p[i]]]
Orders(n) == {p \in [1..n -> Estate] : \A i, j \in 1..n : p[i] = p[j] => i = j}

Whole == {<<{}, {"aws"}, {"aws", "azure"}, {"azure"}, {"oci"}>>,
          <<{"aws", "azure"}, {"oci"}, {}, {"azure"}, {"aws"}>>}

MCLists == {List(p) : p \in Orders(3) \cup Whole}

====
