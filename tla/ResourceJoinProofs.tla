-------------------------- MODULE ResourceJoinProofs --------------------------
(***************************************************************************)
(* For every set of cost rows, machines and identifiers: what build()      *)
(* returns accounts for every cost and every machine, and joins a cloud's  *)
(* own export to the machines that its identifiers denote.                 *)
(***************************************************************************)
EXTENDS ResourceJoin, TLAPS

LEMMA CostRowType ==
  ASSUME NEW k
  PROVE  CostRow(k) \in JoinRow
<1>1. Status(k) \in Statuses
  BY DEF Status, Statuses
<1>2. Group(k) \in SUBSET Rows
  BY DEF Group
<1>3. Named(k) \in SUBSET Vms
  BY DEF Named, Candidates
<1> QED
  BY <1>1, <1>2, <1>3 DEF CostRow, JoinRow

LEMMA MiqRowType ==
  ASSUME NEW v \in Vms
  PROVE  MiqRow(v) \in JoinRow
BY DEF MiqRow, JoinRow, Statuses

\* A row that names a machine says that it was found.
LEMMA NamedIsFound ==
  ASSUME NEW k, NEW v \in Named(k)
  PROVE  CostRow(k).status \in {"matched", "ambiguous"}
<1>1. k[2] # NoId /\ Candidates(k) # {}
  BY DEF Named
<1> QED
  BY <1>1 DEF CostRow, Status

\* The inputs do not change, so neither does what is computed from them.
LEMMA InputsFixed ==
  ASSUME bill' = bill, vm' = vm
  PROVE  /\ Keys' = Keys
         /\ \A k : CostRow(k)' = CostRow(k) /\ Named(k)' = Named(k)
<1>1. \A r : Key(r)' = Key(r)
  BY DEF Key
<1>2. \A k : Candidates(k)' = Candidates(k)
  BY DEF Candidates, MiqKey, IndexSource, VendorCloud, Canonical, Respelled
<1>3. \A k : Group(k)' = Group(k)
  BY <1>1 DEF Group
<1>4. \A k : Named(k)' = Named(k)
  BY <1>2 DEF Named
<1>5. \A k : Status(k)' = Status(k)
  BY <1>2 DEF Status
<1> QED
  BY <1>1, <1>3, <1>4, <1>5 DEF Keys, CostRow

-----------------------------------------------------------------------------

LEMMA InvInit == Init => JoinInv
BY DEF Init, JoinInv, TypeOK

LEMMA InvMatch ==
  ASSUME JoinInv, NEW k \in Keys, Match(k)
  PROVE  JoinInv'
<1>1. /\ Keys' = Keys
      /\ \A q : CostRow(q)' = CostRow(q) /\ Named(q)' = Named(q)
  BY InputsFixed DEF Match
<1>2. /\ joined' = joined \cup {k}
      /\ out' = out \cup {CostRow(k)}
      /\ matched' = matched \cup Named(k)
  BY DEF Match
<1>3. TypeOK'
  <2>1. Named(k) \subseteq Vms
    BY DEF Named, Candidates
  <2> QED
    BY <1>1, <1>2, <2>1, CostRowType DEF JoinInv, TypeOK, Match, JoinRow
<1>4. \A q \in joined' : CostRow(q)' \in out' /\ Named(q)' \subseteq matched'
  BY <1>1, <1>2 DEF JoinInv
<1>5. \A v \in matched' : \E q \in joined' : v \in Named(q)'
  BY <1>1, <1>2 DEF JoinInv
<1>6. \A j \in out' : \E q \in joined' : j = CostRow(q)'
  \* Before the last group is looked up, no machine has been emitted.
  <2>1. joined # Keys
    BY DEF Match
  <2> QED
    BY <1>1, <1>2, <2>1 DEF JoinInv
<1> QED
  BY <1>3, <1>4, <1>5, <1>6 DEF JoinInv

LEMMA InvEmit ==
  ASSUME JoinInv, NEW v \in Vms, EmitMiqOnly(v)
  PROVE  JoinInv'
<1>1. /\ Keys' = Keys
      /\ \A q : CostRow(q)' = CostRow(q) /\ Named(q)' = Named(q)
  BY InputsFixed DEF EmitMiqOnly
<1>2. /\ joined = Keys /\ joined' = joined
      /\ v \in Vms \ matched /\ matched' = matched
      /\ out' = out \cup {MiqRow(v)}
  BY DEF EmitMiqOnly
<1>3. \A w : MiqRow(w)' = MiqRow(w)
  BY DEF MiqRow
<1>4. TypeOK'
  BY <1>1, <1>2, MiqRowType DEF JoinInv, TypeOK, EmitMiqOnly, JoinRow
<1>5. \A q \in joined' : CostRow(q)' \in out' /\ Named(q)' \subseteq matched'
  BY <1>1, <1>2 DEF JoinInv
<1>6. \A w \in matched' : \E q \in joined' : w \in Named(q)'
  BY <1>1, <1>2 DEF JoinInv
<1>7. \A j \in out' :
        \/ \E q \in joined' : j = CostRow(q)'
        \/ joined' = Keys' /\ \E w \in Vms \ matched' : j = MiqRow(w)'
  BY <1>1, <1>2, <1>3 DEF JoinInv
<1> QED
  BY <1>4, <1>5, <1>6, <1>7 DEF JoinInv

LEMMA InvStutter ==
  ASSUME JoinInv, UNCHANGED vars
  PROVE  JoinInv'
<1>1. /\ Keys' = Keys
      /\ \A q : CostRow(q)' = CostRow(q) /\ Named(q)' = Named(q)
  BY InputsFixed DEF vars
<1>2. \A w : MiqRow(w)' = MiqRow(w)
  BY DEF MiqRow
<1> QED
  BY <1>1, <1>2 DEF JoinInv, TypeOK, vars

\* join_rows is at every moment what the groups looked up so far make it.
THEOREM JoinInvariant == Spec => []JoinInv
<1>1. JoinInv /\ [Next]_vars => JoinInv'
  BY InvMatch, InvEmit, InvStutter DEF Next
<1> QED
  BY InvInit, <1>1, PTL DEF Spec

-----------------------------------------------------------------------------

LEMMA VmsFromInv == JoinInv => EveryVmOnce
<1> SUFFICES ASSUME JoinInv, Built, NEW v \in Vms
             PROVE  \/ Naming(v) = {MiqRow(v)}
                    \/ /\ Naming(v) # {}
                       /\ \A j \in Naming(v) : j.status \in {"matched", "ambiguous"}
  BY DEF EveryVmOnce
\* A cost row names what its group found; an inventory row names its machine.
<1>1. ASSUME NEW k PROVE CostRow(k).vms = Named(k)
  BY DEF CostRow
<1>2. ASSUME NEW w PROVE MiqRow(w).vms = {w}
  BY DEF MiqRow
<1>3. CASE v \in matched
  <2>1. PICK k \in joined : v \in Named(k)
    BY <1>3 DEF JoinInv
  <2>2. CostRow(k) \in Naming(v)
    BY <1>1, <2>1 DEF JoinInv, Naming
  <2>3. ASSUME NEW j \in Naming(v) PROVE j.status \in {"matched", "ambiguous"}
    <3>1. j \in out /\ v \in j.vms
      BY DEF Naming
    <3>2. PICK q \in joined : j = CostRow(q)
      BY <1>2, <1>3, <3>1 DEF JoinInv
    <3> QED
      BY <1>1, <3>1, <3>2, NamedIsFound
  <2> QED
    BY <2>2, <2>3
<1>4. CASE v \notin matched
  <2>1. MiqRow(v) \in Naming(v)
    BY <1>2, <1>4 DEF Built, Naming
  <2>2. ASSUME NEW j \in Naming(v) PROVE j = MiqRow(v)
    BY <1>1, <1>2, <1>4 DEF JoinInv, Naming
  <2> QED
    BY <2>1, <2>2
<1> QED
  BY <1>3, <1>4

\* Every machine of the inventory is in the result, once as inventory without cost
\* or only as named by costs, whatever the inventory and the exports.
THEOREM EveryMachineAccounted == Spec => []EveryVmOnce
<1> QED
  BY JoinInvariant, VmsFromInv, PTL

LEMMA CostsFromInv == JoinInv => CostsAddUp
<1> SUFFICES ASSUME JoinInv, Built, NEW r \in Rows
             PROVE  \E j \in out : /\ Carrying(r) = {j}
                                  /\ \A s \in j.rows : Key(s) = Key(r)
  BY DEF CostsAddUp
<1>1. ASSUME NEW k PROVE CostRow(k).rows = {s \in Rows : Key(s) = k}
  BY DEF CostRow, Group
<1>2. ASSUME NEW v PROVE MiqRow(v).rows = {}
  BY DEF MiqRow
<1>3. Key(r) \in joined
  BY DEF Built, Keys
<1>4. CostRow(Key(r)) \in Carrying(r)
  BY <1>1, <1>3 DEF JoinInv, Carrying
<1>5. ASSUME NEW j \in Carrying(r) PROVE j = CostRow(Key(r))
  <2>1. j \in out /\ r \in j.rows
    BY DEF Carrying
  <2>2. PICK k \in joined : j = CostRow(k)
    BY <1>2, <2>1 DEF JoinInv
  <2>3. Key(r) = k
    BY <1>1, <2>1, <2>2
  <2> QED
    BY <2>2, <2>3
<1>6. Carrying(r) = {CostRow(Key(r))}
  BY <1>4, <1>5
<1>7. CostRow(Key(r)) \in out
  BY <1>4 DEF Carrying
<1> QED
  BY <1>1, <1>6, <1>7

\* Every cost row is summed into one join row, of its own source and resource.
THEOREM EveryCostAccounted == Spec => []CostsAddUp
<1> QED
  BY JoinInvariant, CostsFromInv, PTL

-----------------------------------------------------------------------------

\* The types alone, for every number of rows and machines.
THEOREM TypeCorrect == Spec => []TypeOK
<1>1. JoinInv => TypeOK
  BY DEF JoinInv
<1> QED
  BY JoinInvariant, <1>1, PTL

\* Bringing an identifier to its canonical form keeps what it names.
LEMMA CanonicalId ==
  ASSUME NEW i \in Id, NEW source \in Sources
  PROVE  /\ Canonical(i, source) \in Id
         /\ Canonical(i, source).res = i.res
         /\ source = "aws" => Canonical(i, source).form = "plain"
         /\ source = "azure" /\ i.form # "arn" => Canonical(i, source).form = "plain"
         /\ source \in {"oci", "upload"} /\ i.form # "arn" =>
              Canonical(i, source).form = IF i.form = "upper" THEN "upper" ELSE "plain"
<1>1. i # NoId
  BY ResourceJoinAssumption
<1>2. /\ i \in [res : Resources, form : Forms]
      /\ [i EXCEPT !.form = "plain"] \in [res : Resources, form : Forms]
      /\ [i EXCEPT !.form = "plain"].res = i.res
      /\ [i EXCEPT !.form = "plain"].form = "plain"
  BY DEF Id, Forms
<1>3. i.form \in {"plain", "upper", "padded", "arn"}
  BY DEF Id, Forms
<1>4. CASE source = "azure"
  <2>1. Canonical(i, source) = Respelled(i, {"padded", "upper"})
    BY <1>1, <1>4 DEF Canonical
  <2> QED
    BY <1>2, <1>3, <1>4, <2>1 DEF Respelled, Id
<1>5. CASE source = "aws"
  <2>1. Canonical(i, source) = Respelled(i, {"padded", "upper", "arn"})
    BY <1>1, <1>5 DEF Canonical
  <2> QED
    BY <1>2, <1>3, <1>5, <2>1 DEF Respelled, Id
<1>6. CASE source \notin {"aws", "azure"}
  <2>1. Canonical(i, source) = Respelled(i, {"padded"})
    BY <1>1, <1>6 DEF Canonical
  <2> QED
    BY <1>2, <1>3, <1>6, <2>1 DEF Respelled, Id
<1> QED
  BY <1>4, <1>5, <1>6

\* An identifier from a cloud's own export finds exactly what it denotes, and so does an
\* uploaded one that no rule of its cloud would respell.
LEMMA FindsWhatIsDenoted ==
  ASSUME TypeOK, NEW r \in Rows, bill[r].source \in Clouds \/ ExactlySpelled(bill[r])
  PROVE  Named(Key(r)) = Denoted(bill[r].cloud, bill[r].rid)
<1> DEFINE c == bill[r].cloud
           i == bill[r].rid
           s == bill[r].source
<1>1. /\ bill[r] \in Bills
      /\ s \in {c, "upload"} /\ c \in Clouds
      /\ i \in Id \cup {NoId} /\ Belongs(i, c)
  <2>1. bill[r] \in Bills
    BY DEF TypeOK
  <2> QED
    BY <2>1, ResourceJoinAssumption DEF Clouds
<1>0. s # c /\ i # NoId => c = "oci" \/ (c = "aws" /\ i.form \in {"plain", "padded"})
  BY <1>1 DEF ExactlySpelled, Clouds
<1>2. Key(r) = <<s, i>>
  BY DEF Key
<1> HIDE DEF c, i, s
<1>3. CASE i = NoId
  <2>1. Named(Key(r)) = {}
    BY <1>2, <1>3 DEF Named
  <2>2. Denoted(c, i) = {}
    BY <1>3 DEF Denoted
  <2> QED
    BY <2>1, <2>2 DEF c, i
<1>4. CASE i # NoId
  <2> DEFINE key(v) == IF c = "azure" THEN vm[v].ref ELSE vm[v].uid
             idx(v) == IndexSource(vm[v], s)
             Found(v) == key(v) # NoId /\ Canonical(key(v), idx(v)) = Canonical(i, s)
             Meant(v) == /\ key(v) # NoId /\ key(v).res = i.res
                         /\ c = "oci" => (key(v).form = "upper" <=> i.form = "upper")
  <2>1. Named(Key(r)) = {v \in Vms : Found(v)}
    <3>1. s = "azure" <=> c = "azure"
      BY <1>0, <1>1, <1>4
    <3>2. \A v \in Vms : MiqKey(vm[v], s) = key(v)
      BY <3>1 DEF MiqKey
    <3> HIDE DEF key, idx
    <3>3. \A v \in Vms : Found(v) <=> /\ MiqKey(vm[v], s) # NoId
                                      /\ Canonical(MiqKey(vm[v], s), idx(v)) = Canonical(i, s)
      BY <3>2
    <3> HIDE DEF Found
    <3>4. Named(Key(r)) = Candidates(<<s, i>>)
      BY <1>2, <1>4 DEF Named
    <3> QED
      BY <3>3, <3>4 DEF Candidates, idx
  <2>2. Denoted(c, i) = {v \in Vms : Meant(v)}
    BY <1>4 DEF Denoted
  <2>3. ASSUME NEW v \in Vms, key(v) # NoId PROVE Found(v) <=> Meant(v)
    <3> DEFINE n == key(v)
               d == VendorCloud(vm[v].vendor)
    <3>1. vm[v] \in Machines
      BY DEF TypeOK
    <3>2. vm[v].vendor \in Vendors /\ n \in Id /\ Belongs(n, d)
      BY <2>3, <3>1, ResourceJoinAssumption
    <3>3. /\ d \in Clouds \cup {"onprem"}
          /\ c # "azure" /\ d = "aws" => idx(v) = "aws"
          /\ c # "azure" /\ d = "oci" => idx(v) = "oci"
          /\ c = "azure" => idx(v) = "azure"
          /\ idx(v) \in Sources
      <4>1. s = "azure" <=> c = "azure"
        BY <1>0, <1>1, <1>4
      <4> QED
        BY <3>2, <1>1, <4>1 DEF VendorCloud, IndexSource, Vendors, Sources, Clouds
    <3>4. i \in Id /\ CloudOf[i.res] = c /\ (i.form = "arn" => c = "aws")
      BY <1>1, <1>4 DEF Belongs
    <3>5. CloudOf[n.res] = d /\ (n.form = "arn" => d = "aws")
      BY <2>3, <3>2 DEF Belongs
    <3> DEFINE cn == Canonical(n, idx(v))
               ci == Canonical(i, s)
    <3>6. /\ cn \in Id /\ cn.res = n.res
          /\ idx(v) = "aws" => cn.form = "plain"
          /\ idx(v) = "azure" /\ n.form # "arn" => cn.form = "plain"
          /\ idx(v) = "oci" /\ n.form # "arn" =>
               cn.form = IF n.form = "upper" THEN "upper" ELSE "plain"
      BY <3>2, <3>3, CanonicalId
    <3>7. /\ ci \in Id /\ ci.res = i.res
          /\ c = "aws" => ci.form = "plain"
          /\ c = "azure" /\ i.form # "arn" => ci.form = "plain"
          /\ c = "oci" /\ i.form # "arn" =>
               ci.form = IF i.form = "upper" THEN "upper" ELSE "plain"
      <4>1. s \in Sources
        BY <1>1 DEF Sources
      <4>2. /\ ci \in Id /\ ci.res = i.res
            /\ s = "aws" => ci.form = "plain"
            /\ s = "azure" /\ i.form # "arn" => ci.form = "plain"
            /\ s \in {"oci", "upload"} /\ i.form # "arn" =>
                 ci.form = IF i.form = "upper" THEN "upper" ELSE "plain"
        BY <3>4, <4>1, CanonicalId
      <4> HIDE DEF ci
      <4> QED
        BY <1>0, <1>1, <1>4, <4>2
    <3>8. cn = ci <=> cn.res = ci.res /\ cn.form = ci.form
      BY <3>6, <3>7 DEF Id
    <3>9. Found(v) <=> cn = ci
      BY <2>3
    <3> HIDE DEF n, d, cn, ci, key, idx, Found
    <3>10. Meant(v) <=> /\ n.res = i.res
                        /\ c = "oci" => (n.form = "upper" <=> i.form = "upper")
      BY <2>3 DEF n
    <3> HIDE DEF Meant
    <3>11. CASE n.res # i.res
      BY <3>6, <3>7, <3>8, <3>9, <3>10, <3>11
    <3>12. CASE n.res = i.res
      <4>1. d = c
        BY <3>4, <3>5, <3>12
      <4>2. CASE c = "aws"
        BY <3>3, <3>6, <3>7, <3>8, <3>9, <3>10, <3>12, <4>1, <4>2
      <4>3. CASE c = "azure"
        BY <3>3, <3>4, <3>5, <3>6, <3>7, <3>8, <3>9, <3>10, <3>12, <4>1, <4>3
      <4>4. CASE c = "oci"
        BY <3>3, <3>4, <3>5, <3>6, <3>7, <3>8, <3>9, <3>10, <3>12, <4>1, <4>4
      <4> QED
        BY <1>1, <4>2, <4>3, <4>4 DEF Clouds
    <3> QED
      BY <3>11, <3>12
  <2>4. \A v \in Vms : Found(v) <=> Meant(v)
    BY <2>3
  <2> HIDE DEF Found, Meant
  <2> QED
    BY <2>1, <2>2, <2>4 DEF c, i
<1> QED
  BY <1>3, <1>4

LEMMA DenotedFromInv == JoinInv => JoinsWhatIsDenoted
<1> SUFFICES ASSUME JoinInv, NEW r \in Rows, bill[r].source \in Clouds,
                    NEW j \in Carrying(r)
             PROVE  /\ j.vms = Denoted(bill[r].cloud, bill[r].rid)
                    /\ j.status = "matched" <=> \E v \in Vms : j.vms = {v}
  BY DEF JoinsWhatIsDenoted
<1>1. j \in out /\ r \in j.rows
  BY DEF Carrying
<1>2. PICK k \in joined : j = CostRow(k)
  BY <1>1 DEF JoinInv, MiqRow
<1>3. /\ j.status = Status(k) /\ j.vms = Named(k)
      /\ j.rows = {s \in Rows : Key(s) = k}
  BY <1>2 DEF CostRow, Group
<1>4. k = Key(r)
  BY <1>1, <1>3
<1>5. Named(k) = Denoted(bill[r].cloud, bill[r].rid)
  BY <1>4, FindsWhatIsDenoted DEF JoinInv
<1>6. Status(k) = "matched" <=> \E v \in Vms : Named(k) = {v}
  BY DEF Status, Named
<1> QED
  BY <1>3, <1>5, <1>6

\* A cloud's own export is joined to the machines its identifiers denote, whatever the
\* letter case, the padding and the ARNs on either side.
THEOREM MatchesAreRight == Spec => []JoinsWhatIsDenoted
<1> QED
  BY JoinInvariant, DenotedFromInv, PTL

LEMMA UploadsFromInv == JoinInv => ExactUploadsJoinAlike
<1> SUFFICES ASSUME JoinInv, NEW r \in Rows, ExactlySpelled(bill[r]), NEW j \in Carrying(r)
             PROVE  j.vms = Denoted(bill[r].cloud, bill[r].rid)
  BY DEF ExactUploadsJoinAlike
<1>1. j \in out /\ r \in j.rows
  BY DEF Carrying
<1>2. PICK k \in joined : j = CostRow(k)
  BY <1>1 DEF JoinInv, MiqRow
<1>3. j.vms = Named(k) /\ j.rows = {s \in Rows : Key(s) = k}
  BY <1>2 DEF CostRow, Group
<1>4. k = Key(r)
  BY <1>1, <1>3
<1> QED
  BY <1>3, <1>4, FindsWhatIsDenoted DEF JoinInv

\* An uploaded row whose identifier no rule of its cloud would respell is joined like a row
\* of that cloud's own export.  What is missing to OriginDoesNotMatter is the Azure column
\* and the folding of AWS ids, and nothing else.
THEOREM ExactUploadsMatch == Spec => []ExactUploadsJoinAlike
<1> QED
  BY JoinInvariant, UploadsFromInv, PTL
==============================================================================
