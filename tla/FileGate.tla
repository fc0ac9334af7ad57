------------------------------- MODULE FileGate -------------------------------
(***************************************************************************)
(* What becomes of one cost export on its way to focus_costs: the upload   *)
(* door (connectors/upload_validate.py), the normalizer of its format      *)
(* (normalizer/*_to_focus.py, connectors/adapters.py), the staging and     *)
(* COPY of db/loader.py under the NOT NULL columns of db/schema.sql, and   *)
(* the conformance gate inside the load's transaction.                     *)
(*                                                                         *)
(* A cell is a member of Cells, what the program can tell apart of a text: *)
(*   good     a value the column may hold                                  *)
(*   padded   such a value with white space around it                      *)
(*   lower    such a value in lower case                                   *)
(*   foreign  another text: a category outside the closed set, a currency  *)
(*            without a rate, what no reader takes for a number or a date  *)
(*   word     what the column's type takes and the program does not know:  *)
(*            a NaN in another case than nan and NaN, "infinity", "now"    *)
(*   huge     a number that NUMERIC(20,6) cannot hold                      *)
(*   space    white space only                                             *)
(*   null     a sentinel that means no value ("NULL", "N/A", ...)          *)
(*   nan      the sentinels nan and NaN, which float() reads as a number   *)
(*   blank    nothing, which is also what an undeclared column reads as    *)
(* Provider formats name their columns otherwise; a column here is the     *)
(* FOCUS column that the provider's column is mapped to.                   *)
(***************************************************************************)
EXTENDS Naturals

CONSTANTS
  Files,     \* the exports considered
  RowCount,  \* rows in an export
  Old        \* the partition a previous load left

Formats == {"upload", "native", "aws", "azure", "oci"}
Cells   == {"good", "padded", "lower", "foreign", "word", "huge", "space", "null", "nan", "blank"}
Cell    == Cells \cup {"NULL"}                    \* SQL NULL, once stored

Mandatory == {"ServiceCategory", "ServiceProviderName", "BillingCurrency",
              "ChargePeriodStart", "ChargePeriodEnd", "BilledCost"}
Periods   == {"ChargePeriodStart", "ChargePeriodEnd"}
Numbers   == {"BilledCost", "Quantity"}
\* Quantity stands for the numbers that no try block guards; ProviderName is
\* the deprecated name of ServiceProviderName.
Columns   == Mandatory \cup {"ChargeCategory", "Quantity", "ProviderName"}

RowIds == 1..RowCount
\* A long row has cells beyond the header.  A short one lacks a cell that a provider's
\* normalizer uses as a text; the cells it lacks are blank, as for every other reader.
Row    == [cell : [Columns -> Cells], shape : {"even", "long", "short"}, key : RowIds \cup {0}]
\* A padded header name has white space around it, or a byte order mark before it.
File   == [format : Formats, text : {"csv", "empty", "binary"},
           header : [Columns -> {"named", "padded", "missing"}],
           rows : [RowIds -> Row], length : {0} \cup RowIds]

ASSUME FileGateAssumption ==
  /\ RowCount \in Nat
  /\ Files \subseteq File
  \* A column's cells differ by what its type can tell apart.
  /\ \A f \in Files, i \in RowIds, c \in Columns :
       /\ f.rows[i].cell[c] = "lower" => c = "BillingCurrency"
       /\ f.rows[i].cell[c] \in {"huge", "nan"} => c \in Numbers
       /\ f.rows[i].cell[c] = "word" => c \in Numbers \cup Periods

VARIABLES
  file,     \* the export under way
  place,    \* where it is
  next,     \* rows the normalizer has read
  kept,     \* rows it passed on, as it mapped them
  report,   \* what it reported of each row
  table     \* the source's partition of focus_costs

vars == <<file, place, next, kept, report, table>>

-----------------------------------------------------------------------------

(***************************************************************************)
(* The door: validate_focus_csv.  A byte order mark is decoded away and    *)
(* header names are stripped before they are compared, and a deprecated    *)
(* name counts for its current one.                                        *)
(***************************************************************************)
Declared(f, c) ==
  \/ f.header[c] # "missing"
  \/ c = "ServiceProviderName" /\ f.header["ProviderName"] # "missing"

DoorAccepts(f) ==
  /\ f.text = "csv"
  /\ \A c \in Mandatory : Declared(f, c)
  /\ f.length > 0

(***************************************************************************)
(* The normalizers.  csv.DictReader does not strip header names, and the   *)
(* file is opened as it is, with its byte order mark.                      *)
(***************************************************************************)
Read(f, i) == [c \in Columns |->
                 IF f.header[c] = "named" THEN f.rows[i].cell[c] ELSE "blank"]

Empty == {"blank", "space"}                             \* not value.strip()

\* A mutant: the rows of the 1.0 sample keep their blank provider.
Unlevelled(f, row) == row

\* level_to_v1_3: a deprecated column fills the current one when that is empty.
Levelled(f, row) ==
  IF f.header["ProviderName"] = "named" /\ row["ServiceProviderName"] \in Empty
  THEN [row EXCEPT !["ServiceProviderName"] = row["ProviderName"]]
  ELSE row

\* focus_native_to_focus.map_row drops these rows and reports them.
NativeFatal(row) ==
  \/ row["ServiceCategory"] \notin {"good", "padded"}
  \/ row["BillingCurrency"] \in Empty
  \/ row["ChargeCategory"] \in {"foreign", "null"}

\* float() of a cell, or of 0 when it is empty, as the combined CSV spells it.
Float(cell) == CASE cell \in {"good", "padded", "blank"} -> "good"
                 [] cell \in {"nan", "word"}             -> "nan"
                 [] cell = "huge"                        -> "huge"
                 [] OTHER                                -> "ValueError"

\* The provider formats default what they cannot map, zero a cost they cannot read, and
\* blank both periods when one that they read does not parse.
Mapped(row, periods, currency, charge) ==
  [c \in Columns |->
     CASE c \in Periods          -> periods
       [] c = "BillingCurrency"  -> currency
       [] c = "ChargeCategory"   -> charge
       [] c = "BilledCost"       -> IF Float(row[c]) = "ValueError" THEN "good" ELSE Float(row[c])
       [] c = "Quantity"         -> Float(row[c])
       [] OTHER                  -> "good"]

Parsed(row, read) == IF \A c \in read : row[c] = "good" THEN "good" ELSE "blank"

\* get(..., "USD"), for a file without the column only.
CurrencyOrUsd(f, row) ==
  IF f.header["BillingCurrency"] # "named" THEN "good" ELSE row["BillingCurrency"]

AwsRow(f, row) == Mapped(row, Parsed(row, Periods), CurrencyOrUsd(f, row), "good")

\* The end is a day after the start; an unknown charge type becomes "Other", which
\* is no charge category.
AzureRow(f, row) ==
  Mapped(row, Parsed(row, {"ChargePeriodStart"}), row["BillingCurrency"],
         IF f.header["ChargeCategory"] = "named" /\ row["ChargeCategory"] # "good"
         THEN "foreign" ELSE "good")

OciRow(f, row) == Mapped(row, Parsed(row, Periods), CurrencyOrUsd(f, row), "good")

Native(f) == f.format \in {"upload", "native"}

MapRow(f, i) ==
  LET row == Read(f, i) IN
  CASE Native(f)          -> Levelled(f, row)
    [] f.format = "aws"   -> AwsRow(f, row)
    [] f.format = "azure" -> AzureRow(f, row)
    [] f.format = "oci"   -> OciRow(f, row)

Fatal(f, i) == IF Native(f) THEN NativeFatal(Levelled(f, Read(f, i)))
                            ELSE MapRow(f, i)["BillingCurrency"] = "blank"

\* startswith() of the None under which csv.DictReader files the cells beyond the
\* header, strip() or a slice of the None that it gives for a missing cell, and a
\* float() that no try block guards.
Raises(f, i) ==
  \/ f.text = "binary"
  \/ f.rows[i].shape = "long" /\ f.format \in {"upload", "native", "aws"}
  \/ f.rows[i].shape = "short" /\ ~Native(f)
  \/ ~Native(f) /\ Float(Read(f, i)["Quantity"]) = "ValueError"

\* aws_to_focus.normalize_csv drops a LineItemId it has seen.
Duplicate(f, i) ==
  /\ f.format = "aws"
  /\ f.rows[i].key # 0
  /\ \E j \in 1..(i - 1) : f.rows[j].key = f.rows[i].key

(***************************************************************************)
(* Staging, COPY and gate.                                                 *)
(***************************************************************************)
\* _build_focus_staging: sentinels and empty cells become NULL.
Stored(row) ==
  [c \in Columns |-> IF row[c] \in {"null", "nan", "blank"} THEN "NULL" ELSE row[c]]

\* billed_cost_usd needs a known currency, looked up in upper case, and what Decimal()
\* reads, a NaN in any case included.
HasUsd(row) == /\ row["BillingCurrency"] \in {"good", "lower"}
               /\ row["BilledCost"] \in {"good", "padded", "word", "huge"}

\* COPY: NOT NULL columns, NUMERIC(20,6) and TIMESTAMPTZ.
CopyTakes(row) ==
  /\ row["ServiceCategory"] # "NULL" /\ row["BillingCurrency"] # "NULL"
  /\ \A c \in Periods \cup Numbers : row[c] \notin {"foreign", "space", "huge"}

\* A mutant: the gate of a loader that looks at NULLs only.
ConformantNulls(row) == \A c \in Mandatory : row[c] # "NULL"

\* _assert_conformant_in_txn.
Conformant(row) ==
  /\ \A c \in Mandatory : row[c] # "NULL"
  /\ row["ServiceCategory"] = "good"
  /\ HasUsd(row)

-----------------------------------------------------------------------------

Places == {"door", "normalize", "load", "gate", "loaded",
           "refused", "unparsable", "copyFailed", "nonConformant"}

TypeOK ==
  /\ file \in File
  /\ place \in Places
  /\ next \in 0..RowCount
  /\ kept \in SUBSET [id : RowIds, row : [Columns -> Cell]]
  /\ report \in [RowIds -> {"unread", "kept", "fatal", "duplicate"}]
  /\ table \in {Old, kept}

Init ==
  /\ file \in Files
  /\ place = IF file.format = "upload" THEN "door" ELSE "normalize"
  /\ next = 0
  /\ kept = {}
  /\ report = [i \in RowIds |-> "unread"]
  /\ table = Old

Goto(from, to) == place = from /\ place' = to

Door ==
  /\ Goto("door", IF DoorAccepts(file) THEN "normalize" ELSE "refused")
  /\ UNCHANGED <<file, next, kept, report, table>>

\* One turn of a normalize_csv loop that does not raise.
Report(i, what) ==
  /\ report' = [report EXCEPT ![i] = what]
  /\ kept' = IF what = "kept" THEN kept \cup {[id |-> i, row |-> MapRow(file, i)]}
                              ELSE kept

NormalizeRow ==
  LET i == next + 1 IN
  /\ place = "normalize" /\ next < file.length
  /\ Duplicate(file, i) \/ ~Raises(file, i)
  /\ next' = i
  /\ Report(i, IF Duplicate(file, i) THEN "duplicate"
               ELSE IF Fatal(file, i) THEN "fatal" ELSE "kept")
  /\ UNCHANGED <<file, place, table>>

\* A duplicate is reported with a slice of its resource id, which a short row may lack.
NormalizeRaises ==
  /\ next < file.length /\ Raises(file, next + 1)
  /\ Duplicate(file, next + 1) => file.rows[next + 1].shape = "short"
  /\ Goto("normalize", "unparsable")
  /\ UNCHANGED <<file, next, kept, report, table>>

Stage ==
  /\ next = file.length
  /\ Goto("normalize", "load")
  /\ kept' = {[k EXCEPT !.row = Stored(k.row)] : k \in kept}
  /\ UNCHANGED <<file, next, report, table>>

\* A mutant: COPY skips the rows it cannot take instead of raising.
CopyRowwise ==
  /\ Goto("load", "gate")
  /\ kept' = {k \in kept : CopyTakes(k.row)}
  /\ UNCHANGED <<file, next, report, table>>

Copy ==
  /\ Goto("load", IF \A k \in kept : CopyTakes(k.row) THEN "gate" ELSE "copyFailed")
  /\ UNCHANGED <<file, next, kept, report, table>>

\* COMMIT, or the ROLLBACK that keeps the previous partition.
Gate ==
  /\ \/ Goto("gate", "loaded") /\ (\A k \in kept : Conformant(k.row)) /\ table' = kept
     \/ Goto("gate", "nonConformant") /\ (\E k \in kept : ~Conformant(k.row)) /\ UNCHANGED table
  /\ UNCHANGED <<file, next, kept, report>>

Next == Door \/ NormalizeRow \/ NormalizeRaises \/ Stage \/ Copy \/ Gate

Spec == Init /\ [][Next]_vars

-----------------------------------------------------------------------------

(***************************************************************************)
(* Properties.                                                             *)
(***************************************************************************)

\* The rows of the file that hold a cell the pipeline can only refuse, whatever
\* their spelling: the source's own view, not the program's.
Sound(f, i) ==
  /\ f.rows[i].shape = "even"
  /\ \A c \in Columns \ {"ProviderName", "ServiceProviderName"} :
       f.rows[i].cell[c] = "good"
  /\ \/ f.header["ServiceProviderName"] # "missing"
           /\ f.rows[i].cell["ServiceProviderName"] = "good"
     \/ f.header["ProviderName"] # "missing" /\ f.rows[i].cell["ProviderName"] = "good"
           /\ \/ f.header["ServiceProviderName"] = "missing"
              \/ f.rows[i].cell["ServiceProviderName"] = "blank"

\* Every row of a committed file is in the table, reported as dropped, or a second
\* sighting of one that was handled: no row vanishes between the file and the table.
EveryRowAccounted ==
  place = "loaded" =>
    \A i \in 1..file.length :
      (\E k \in table : k.id = i) \/ report[i] \in {"fatal", "duplicate"}

\* A committed partition has a category of the closed set, a currency with a rate, and
\* a period and an amount that are one.  The only ones that are not, a NaN or a word for
\* an instant, come from the same cell of a native file: no provider format lets them in.
CommittedIsUsable ==
  place = "loaded" =>
    \A k \in table :
      /\ k.row["ServiceCategory"] = "good" /\ k.row["BillingCurrency"] \in {"good", "lower"}
      /\ \A c \in Periods \cup {"BilledCost"} :
           \/ k.row[c] \in {"good", "padded"}
           \/ Native(file) /\ k.row[c] = "word" /\ file.rows[k.id].cell[c] = "word"

\* A file whose rows are all sound and whose header spells the columns it has exactly, the
\* mandatory ones among them, is loaded to the last row, also when it uses the deprecated
\* provider column (FOCUS 1.0).
SoundFileLoads ==
  (/\ Native(file) /\ file.text = "csv" /\ file.length > 0
   /\ \A c \in Columns : file.header[c] # "padded"
   /\ \A c \in Mandatory \ {"ServiceProviderName"} : file.header[c] = "named"
   /\ \A i \in 1..file.length : Sound(file, i))
  => /\ place \notin {"refused", "unparsable", "copyFailed", "nonConformant"}
     /\ place = "loaded" => {k.id : k \in table} = 1..file.length

\* A load that does not commit leaves the partition as the previous load left it, and
\* one that commits has read the whole file first.
AllOrNothing == [][table' # table => next = file.length /\ place' = "loaded"]_vars

(* web.queries.focus_conformance counts the rows that break one of these.  *)
Displayed(row) ==
  /\ \A c \in Mandatory : row[c] # "NULL"
  /\ row["ServiceCategory"] = "good"
  /\ HasUsd(row)
  /\ row["BillingCurrency"] = "good"                   \* ~ '^[A-Z]{3}$'

(***************************************************************************)
(* Promises of the comments that the code does not keep.                   *)
(***************************************************************************)

\* upload_validate.py and focus_spec.py: door and gate derive from one list so that
\* they cannot drift; a header the door accepts does not make sound rows fail.
DoorAgreesWithGate ==
  file.format = "upload" /\ (\A i \in 1..file.length : Sound(file, i))
    => place # "nonConformant"

\* db/loader.py: any value missing from a mandatory column is found by the gate, which
\* raises the LoadConformanceError that connect_upload handles.
MissingValueIsGated ==
  file.format = "upload"
    /\ (\A i \in 1..file.length : file.rows[i].shape = "even"
          /\ \A c \in Columns : file.rows[i].cell[c] \in {"good", "null", "nan"})
    => place # "copyFailed"

\* db/loader.py: sentinels are compared case-insensitively, so that no spelling of NaN
\* reaches a number.
SentinelsAreNulls ==
  place = "loaded" => \A k \in table, c \in Numbers : k.row[c] # "word"

\* web/queries.py: the conformance panel can never disagree with the loader's gate
\* about what valid FOCUS means.
PanelAgreesWithGate == place = "loaded" => \A k \in table : Displayed(k.row)

====
