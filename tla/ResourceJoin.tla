---------------------------- MODULE ResourceJoin -----------------------------
(***************************************************************************)
(* join/resource_join_map.py: build() pairs the rows of every cost export  *)
(* with the virtual machines of the ManageIQ inventory.  Cost rows are     *)
(* grouped by (_source, ResourceId), each group is looked up in the        *)
(* inventory on one of two columns, and the machines that nothing named    *)
(* get a row of their own.                                                 *)
(*                                                                         *)
(* An identifier is a resource and the form it is written in; a group's    *)
(* cost is represented by the set of the rows that were summed.            *)
(***************************************************************************)
CONSTANTS
  Rows,       \* cost rows of focus_combined.csv
  Vms,        \* ids of the machines in out/miq/vms.json
  Resources,
  CloudOf,    \* the cloud a resource belongs to, or "onprem"
  NoId,       \* an identifier that is missing
  Bills,      \* what a cost row may say: source, cloud, rid
  Machines    \* what a machine may be: vendor, uid, ref

Clouds  == {"aws", "azure", "oci"}
Sources == Clouds \cup {"upload"}          \* the tags that the adapters set
Vendors == {"amazon", "azure", "oracle", "redhat"}
Forms   == {"plain", "upper", "padded", "arn"}
Id      == [res : Resources, form : Forms]

\* The cloud that a machine of a vendor runs in; any other vendor is on-prem.
VendorCloud(v) ==
  CASE v = "amazon" -> "aws" [] v = "azure" -> "azure" [] v = "oracle" -> "oci"
    [] OTHER -> "onprem"

\* An identifier names a resource of its own cloud, and only AWS has ARNs.
Belongs(i, cloud) ==
  i # NoId => i \in Id /\ CloudOf[i.res] = cloud /\ (i.form = "arn" => cloud = "aws")

ASSUME ResourceJoinAssumption ==
  /\ CloudOf \in [Resources -> Clouds \cup {"onprem"}]
  /\ NoId \notin Id
  /\ Bills \subseteq [source : Sources, cloud : Clouds, rid : Id \cup {NoId}]
  /\ \A b \in Bills : b.source \in {b.cloud, "upload"} /\ Belongs(b.rid, b.cloud)
  /\ Machines \subseteq [vendor : Vendors, uid : Id \cup {NoId}, ref : Id \cup {NoId}]
  /\ \A m \in Machines : \A i \in {m.uid, m.ref} : Belongs(i, VendorCloud(m.vendor))

VARIABLES
  bill, vm,   \* the two inputs
  joined,     \* groups looked up so far
  matched,    \* matched_vm_ids
  out         \* join_rows

vars == <<bill, vm, joined, matched, out>>

-----------------------------------------------------------------------------

Respelled(i, forms) == IF i.form \in forms THEN [i EXCEPT !.form = "plain"] ELSE i

\* A mutant: the comparison as it was before H-3, which only strips.
StripOnly(i, source) == IF i = NoId THEN NoId ELSE Respelled(i, {"padded"})

\* canonical_id: strip always, fold case for AWS and Azure, reduce ARNs for AWS.
Canonical(i, source) ==
  CASE i = NoId         -> NoId
    [] source = "azure" -> Respelled(i, {"padded", "upper"})
    [] source = "aws"   -> Respelled(i, {"padded", "upper", "arn"})
    [] OTHER            -> Respelled(i, {"padded"})

\* A mutant: uploads are looked up by the path, for the sake of Azure.
MiqKeyByRef(m, source) == IF source \in {"azure", "upload"} THEN m.ref ELSE m.uid

\* _miq_key_for_provider.
MiqKey(m, source) == IF source = "azure" THEN m.ref ELSE m.uid

\* Whose spelling rules a machine's key was indexed with: by_ems_ref takes those of
\* Azure, by_uid_ems those of the vendor, AWS when it is none of the three.
IndexSource(m, source) ==
  IF source = "azure" THEN "azure"
  ELSE IF m.vendor \in {"azure", "oracle"} THEN VendorCloud(m.vendor) ELSE "aws"

Candidates(k) ==
  {v \in Vms : /\ MiqKey(vm[v], k[1]) # NoId
               /\ Canonical(MiqKey(vm[v], k[1]), IndexSource(vm[v], k[1]))
                    = Canonical(k[2], k[1])}

Key(r)   == <<bill[r].source, bill[r].rid>>
Keys     == {Key(r) : r \in Rows}
Group(k) == {r \in Rows : Key(r) = k}

\* What the table's chk_status allows.
Statuses == {"no_resource_id", "unmatched_focus_only", "matched", "ambiguous",
             "unmatched_miq_only"}

\* A mutant: a status that the table refuses.
StatusUnlisted(k) ==
  CASE k[2] = NoId                      -> "no_resource_id"
    [] k[2] # NoId /\ Candidates(k) = {} -> "unmatched"
    [] k[2] # NoId /\ \E v \in Vms : Candidates(k) = {v} -> "matched"
    [] OTHER                            -> "ambiguous"

Status(k) ==
  CASE k[2] = NoId                      -> "no_resource_id"
    [] k[2] # NoId /\ Candidates(k) = {} -> "unmatched_focus_only"
    [] k[2] # NoId /\ \E v \in Vms : Candidates(k) = {v} -> "matched"
    [] OTHER                            -> "ambiguous"

\* The machines that the row of a group names.
Named(k) == IF k[2] = NoId THEN {} ELSE Candidates(k)

CostRow(k) == [status |-> Status(k), rows |-> Group(k), vms |-> Named(k)]
MiqRow(v)  == [status |-> "unmatched_miq_only", rows |-> {}, vms |-> {v}]

JoinRow == [status : Statuses, rows : SUBSET Rows, vms : SUBSET Vms]

TypeOK ==
  /\ bill \in [Rows -> Bills]
  /\ vm \in [Vms -> Machines]
  /\ joined \subseteq Keys
  /\ matched \subseteq Vms
  /\ out \subseteq JoinRow

Init ==
  /\ bill \in [Rows -> Bills]
  /\ vm \in [Vms -> Machines]
  /\ joined = {}
  /\ matched = {}
  /\ out = {}

\* A mutant: only an unambiguous match counts as seen.
MatchOne(k) ==
  /\ k \in Keys \ joined
  /\ joined' = joined \cup {k}
  /\ out' = out \cup {CostRow(k)}
  /\ matched' = IF Status(k) = "matched" THEN matched \cup Named(k) ELSE matched
  /\ UNCHANGED <<bill, vm>>

\* A mutant: a row without ResourceId is passed over.
MatchIdentified(k) ==
  /\ k \in Keys \ joined
  /\ joined' = joined \cup {k}
  /\ out' = IF k[2] = NoId THEN out ELSE out \cup {CostRow(k)}
  /\ matched' = matched \cup Named(k)
  /\ UNCHANGED <<bill, vm>>

\* One turn of the loop over the groups.
Match(k) ==
  /\ k \in Keys \ joined
  /\ joined' = joined \cup {k}
  /\ out' = out \cup {CostRow(k)}
  /\ matched' = matched \cup Named(k)
  /\ UNCHANGED <<bill, vm>>

\* One turn of the loop over the inventory, which follows.
EmitMiqOnly(v) ==
  /\ joined = Keys
  /\ v \in Vms \ matched
  /\ MiqRow(v) \notin out
  /\ out' = out \cup {MiqRow(v)}
  /\ UNCHANGED <<bill, vm, joined, matched>>

Next == (\E k \in Keys : Match(k)) \/ (\E v \in Vms : EmitMiqOnly(v))

Spec == Init /\ [][Next]_vars

-----------------------------------------------------------------------------

(***************************************************************************)
(* Properties.                                                             *)
(***************************************************************************)

\* build() has returned.
Built == joined = Keys /\ \A v \in Vms \ matched : MiqRow(v) \in out

\* The rows of `out` that carry the cost row r, and those that name the machine v.
Carrying(r) == {j \in out : r \in j.rows}
Naming(v)   == {j \in out : v \in j.vms}

\* No cost is lost and none is counted twice: each cost row is in one join row, and
\* everything summed there is of the same source and resource.
CostsAddUp ==
  Built => \A r \in Rows : \E j \in out :
    Carrying(r) = {j} /\ \A s \in j.rows : Key(s) = Key(r)

\* Every machine is accounted for, as named by costs or as inventory without cost,
\* and never as both.
EveryVmOnce ==
  Built => \A v \in Vms :
    \/ Naming(v) = {MiqRow(v)}
    \/ Naming(v) # {} /\ \A j \in Naming(v) : j.status \in {"matched", "ambiguous"}

\* Reference: the machines that an identifier of a cloud denotes, by GOTCHAS J-1
\* (which column) and H-3 (spelling is immaterial, but OCIDs are case-sensitive).
Denoted(cloud, i) ==
  {v \in Vms :
     LET key == IF cloud = "azure" THEN vm[v].ref ELSE vm[v].uid
     IN /\ i # NoId /\ key # NoId
        /\ key.res = i.res
        /\ cloud = "oci" => (key.form = "upper" <=> i.form = "upper")}

\* The export of a cloud is joined to the machines it denotes, in whatever form the
\* two sides write their identifiers, and the status tells how many there are.
JoinsWhatIsDenoted ==
  \A r \in Rows :
    bill[r].source \in Clouds =>
      \A j \in Carrying(r) :
        /\ j.vms = Denoted(bill[r].cloud, bill[r].rid)
        /\ j.status = "matched" <=> \E v \in Vms : j.vms = {v}

\* An uploaded export is joined like the export of its cloud: where the bytes come
\* from is the only difference (UploadSource).
OriginDoesNotMatter ==
  \A r \in Rows : \A j \in Carrying(r) :
    j.vms = Denoted(bill[r].cloud, bill[r].rid)

\* Bills of an upload that no rule of a cloud would have respelled: OCIDs, and the ids of
\* AWS instances as the index has them.
ExactlySpelled(b) ==
  b.rid # NoId => b.cloud = "oci" \/ (b.cloud = "aws" /\ b.rid.form \in {"plain", "padded"})

\* As far as the spelling goes it does hold: an uploaded row with an OCID or the plain id
\* of an instance is joined to the machines that the export of its cloud would be.
ExactUploadsJoinAlike ==
  \A r \in Rows : ExactlySpelled(bill[r]) =>
    \A j \in Carrying(r) : j.vms = Denoted(bill[r].cloud, bill[r].rid)

-----------------------------------------------------------------------------

(***************************************************************************)
(* What makes these inductive: join_rows holds the groups looked up and,   *)
(* once the inventory is gone through, machines that no group named.       *)
(***************************************************************************)
JoinInv ==
  /\ TypeOK
  /\ \A k \in joined : CostRow(k) \in out /\ Named(k) \subseteq matched
  /\ \A v \in matched : \E k \in joined : v \in Named(k)
  /\ \A j \in out : \/ \E k \in joined : j = CostRow(k)
                    \/ joined = Keys /\ \E v \in Vms \ matched : j = MiqRow(v)
==============================================================================
