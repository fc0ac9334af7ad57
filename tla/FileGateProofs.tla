---------------------------- MODULE FileGateProofs ----------------------------
(***************************************************************************)
(* What holds of every export, whatever its rows, header and format:       *)
(* FileGate with any number of rows and any set of files.                  *)
(***************************************************************************)
EXTENDS FileGate, TLAPS

\* A mapped row, and a stored one, as the database gets it.
MappedRow == {r \in [Columns -> Cells] : \A c \in Columns : r[c] = "lower" => c = "BillingCurrency"}
StoredRow == {r \in [Columns -> Cell] :
                /\ \A c \in Columns : r[c] = "lower" => c = "BillingCurrency"
                /\ \A c \in Columns : r[c] \notin {"null", "nan", "blank"}}

Handled(i) == (\E k \in kept : k.id = i) \/ report[i] \in {"fatal", "duplicate"}

\* Each stage knows of the rows what the stages before it have established.
Stages ==
  /\ place \in {"door", "normalize", "refused", "unparsable"} =>
       \A k \in kept : k.row \in MappedRow
  /\ place \in {"load", "gate", "loaded", "copyFailed", "nonConformant"} =>
       \A k \in kept : k.row \in StoredRow
  /\ place \in {"load", "gate", "loaded"} => next = file.length
  /\ place \in {"gate", "loaded"} => \A k \in kept : CopyTakes(k.row)
  /\ place = "loaded" => table = kept /\ \A k \in kept : Conformant(k.row)
  /\ place # "loaded" => table = Old

Types ==
  /\ file \in Files
  /\ place \in Places
  /\ next \in 0..file.length
  /\ report \in [RowIds -> {"unread", "kept", "fatal", "duplicate"}]
  /\ \A k \in kept : k \in [id : RowIds, row : [Columns -> Cell]]

GateInv ==
  /\ Types
  /\ Stages
  /\ \A i \in 1..next : Handled(i)

-----------------------------------------------------------------------------

\* Rows are numbered, and a file is no longer than the numbers go.
LEMMA FileFacts ==
  ASSUME NEW f \in Files
  PROVE  /\ f \in File
         /\ f.length \in Nat /\ f.length <= RowCount
         /\ \A i \in 1..f.length : i \in RowIds
         /\ \A i \in RowIds : f.rows[i] \in Row
<1>1. f \in File
  BY FileGateAssumption
<1>2. f.length \in {0} \cup RowIds /\ f.rows \in [RowIds -> Row]
  BY <1>1 DEF File
<1> QED
  BY <1>1, <1>2, FileGateAssumption DEF RowIds

\* What the normalizer reads of a row has cells of known kinds.
LEMMA ReadRow ==
  ASSUME NEW f \in Files, NEW i \in RowIds
  PROVE  Read(f, i) \in MappedRow
<1>1. f.rows[i] \in Row
  BY FileFacts
<1>2. \A c \in Columns : f.rows[i].cell[c] \in Cells
  BY <1>1 DEF Row
<1>3. \A c \in Columns : f.rows[i].cell[c] = "lower" => c = "BillingCurrency"
  BY FileGateAssumption
<1> QED
  BY <1>2, <1>3 DEF Read, MappedRow, Cells

\* Every format maps what it reads without raising to such a row again.
LEMMA MapsToRow ==
  ASSUME NEW f \in Files, NEW i \in RowIds, ~Raises(f, i)
  PROVE  MapRow(f, i) \in MappedRow
<1> DEFINE row == Read(f, i)
<1>1. row \in MappedRow
  BY ReadRow
<1>2. f.format \in Formats
  BY FileFacts DEF File
<1>3. ASSUME NEW p \in {"good", "blank"}, NEW u \in Cells, NEW g \in {"good", "foreign"}, ~Native(f)
      PROVE  Mapped(row, p, u, g) \in MappedRow
  <2>1. Float(row["Quantity"]) # "ValueError"
    BY <1>3 DEF Raises
  <2>2. \A x : Float(x) \in {"good", "nan", "huge", "ValueError"}
    BY DEF Float
  <2> HIDE DEF row
  <2>3. ASSUME NEW c \in Columns
        PROVE  /\ Mapped(row, p, u, g)[c] \in Cells
               /\ Mapped(row, p, u, g)[c] = "lower" => c = "BillingCurrency"
    <3>1. CASE c = "BillingCurrency"
      BY <3>1 DEF Mapped, Periods
    <3>2. CASE c = "BilledCost"
      <4>1. Mapped(row, p, u, g)[c] = IF Float(row[c]) = "ValueError" THEN "good" ELSE Float(row[c])
        BY <3>2 DEF Mapped, Periods
      <4>2. Float(row[c]) \in {"good", "nan", "huge", "ValueError"}
        BY <2>2
      <4> QED
        BY <4>1, <4>2 DEF Cells
    <3>3. CASE c = "Quantity"
      <4>1. Mapped(row, p, u, g)[c] = Float(row[c])
        BY <3>3 DEF Mapped, Periods
      <4>2. Float(row[c]) \in {"good", "nan", "huge"}
        BY <2>1, <2>2, <3>3
      <4> QED
        BY <4>1, <4>2 DEF Cells
    <3>4. CASE c \notin {"BillingCurrency", "BilledCost", "Quantity"}
      <4>1. Mapped(row, p, u, g)[c] \in {p, g, "good"}
        BY <3>4 DEF Mapped, Periods
      <4> QED
        BY <4>1 DEF Cells
    <3> QED
      BY <3>1, <3>2, <3>3, <3>4
  <2>4. DOMAIN Mapped(row, p, u, g) = Columns /\ Mapped(row, p, u, g) \in [Columns -> Cells]
    BY <2>3 DEF Mapped
  <2> QED
    BY <2>3, <2>4 DEF MappedRow
<1>4. Levelled(f, row) \in MappedRow
  <2>1. {"ServiceProviderName", "ProviderName"} \subseteq Columns
    BY DEF Columns, Mandatory
  <2> QED
    BY <1>1, <2>1 DEF Levelled, MappedRow, Cells
<1>5. row["BillingCurrency"] \in Cells
  BY <1>1 DEF MappedRow, Columns, Mandatory
<1>6. CurrencyOrUsd(f, row) \in Cells
  BY <1>5 DEF CurrencyOrUsd, Cells
<1>7. \A read : Parsed(row, read) \in {"good", "blank"}
  BY DEF Parsed
<1>8. ~Native(f) => AwsRow(f, row) \in MappedRow
  BY <1>3, <1>6, <1>7 DEF AwsRow
<1>9. ~Native(f) => AzureRow(f, row) \in MappedRow
  BY <1>3, <1>5, <1>7 DEF AzureRow
<1>10. ~Native(f) => OciRow(f, row) \in MappedRow
  BY <1>3, <1>6, <1>7 DEF OciRow
<1> QED
  BY <1>2, <1>4, <1>8, <1>9, <1>10 DEF MapRow, Native, Formats

\* Staging leaves no sentinel and no empty cell.
LEMMA StoresRow ==
  ASSUME NEW row \in MappedRow
  PROVE  Stored(row) \in StoredRow
BY DEF Stored, MappedRow, StoredRow, Cells, Cell

-----------------------------------------------------------------------------

LEMMA InitGate == Init => GateInv
<1> SUFFICES ASSUME Init PROVE GateInv
  OBVIOUS
<1>1. file \in Files /\ file.length \in Nat
  BY FileFacts DEF Init
<1> QED
  BY <1>1 DEF Init, GateInv, Types, Stages, Places, Handled

LEMMA NextGate == GateInv /\ [Next]_vars => GateInv'
<1> SUFFICES ASSUME GateInv, [Next]_vars PROVE GateInv'
  OBVIOUS
<1> USE DEF GateInv
<1>f. /\ file.length \in Nat /\ file.length <= RowCount /\ RowCount \in Nat
      /\ \A i \in 1..file.length : i \in RowIds
  BY FileFacts, FileGateAssumption DEF Types
<1>1. CASE Door
  BY <1>1 DEF Door, Goto, Types, Stages, Places, Handled
<1>2. CASE NormalizeRow
  <2> DEFINE i == next + 1
             what == IF Duplicate(file, i) THEN "duplicate"
                     ELSE IF Fatal(file, i) THEN "fatal" ELSE "kept"
  <2>1. /\ place = "normalize" /\ next < file.length
        /\ next' = i /\ Report(i, what)
        /\ UNCHANGED <<file, place, table>>
    BY <1>2 DEF NormalizeRow
  <2>2. i \in RowIds /\ i \in 1..file.length
    BY <1>f, <2>1 DEF Types
  <2> HIDE DEF i, what
  <2>3. what \in {"kept", "fatal", "duplicate"}
    BY DEF what
  <2>4. /\ report' = [report EXCEPT ![i] = what]
        /\ kept' = IF what = "kept" THEN kept \cup {[id |-> i, row |-> MapRow(file, i)]} ELSE kept
    BY <2>1 DEF Report
  <2>5. what = "kept" => MapRow(file, i) \in MappedRow /\ MapRow(file, i) \in [Columns -> Cell]
    <3>1. what = "kept" => ~Raises(file, i)
      BY <1>2 DEF NormalizeRow, what, i
    <3> QED
      BY <2>2, <3>1, MapsToRow DEF Types, MappedRow, Cell
  <2>6. Types'
    BY <2>1, <2>2, <2>3, <2>4, <2>5 DEF Types
  <2>7. Stages'
    BY <2>1, <2>4, <2>5 DEF Stages
  <2>8. \A j \in 1..next' : Handled(j)'
    <3> SUFFICES ASSUME NEW j \in 1..next' PROVE Handled(j)'
      OBVIOUS
    <3>1. CASE j = i
      <4>1. CASE what = "kept"
        <5>1. [id |-> i, row |-> MapRow(file, i)] \in kept'
          BY <4>1, <2>4
        <5>2. \E k \in kept' : k.id = j
          BY <5>1, <3>1
        <5> QED
          BY <5>2 DEF Handled
      <4>2. CASE what # "kept"
        <5>1. report'[j] \in {"fatal", "duplicate"}
          BY <4>2, <3>1, <2>2, <2>3, <2>4 DEF Types
        <5> QED
          BY <5>1 DEF Handled
      <4> QED
        BY <4>1, <4>2
    <3>2. CASE j # i
      <4>1. j \in 1..next /\ j \in RowIds
        BY <3>2, <2>1, <1>f DEF Types, i
      <4>2. Handled(j)
        BY <4>1
      <4>3. report'[j] = report[j] /\ kept \subseteq kept'
        BY <3>2, <4>1, <2>4 DEF Types
      <4> QED
        BY <4>2, <4>3 DEF Handled
    <3> QED
      BY <3>1, <3>2
  <2> QED
    BY <2>6, <2>7, <2>8
<1>3. CASE NormalizeRaises
  BY <1>3 DEF NormalizeRaises, Goto, Types, Stages, Places, Handled
<1>4. CASE Stage
  <2>1. /\ place = "normalize" /\ place' = "load" /\ next = file.length
        /\ kept' = {[k EXCEPT !.row = Stored(k.row)] : k \in kept}
        /\ UNCHANGED <<file, next, report, table>>
    BY <1>4 DEF Stage, Goto
  <2>2. \A k \in kept : /\ k \in [id : RowIds, row : [Columns -> Cell]]
                        /\ Stored(k.row) \in StoredRow
    BY <2>1, StoresRow DEF Types, Stages
  <2>3. \A k \in kept : [k EXCEPT !.row = Stored(k.row)] = [id |-> k.id, row |-> Stored(k.row)]
    BY <2>2
  <2>4. kept' = {[id |-> k.id, row |-> Stored(k.row)] : k \in kept}
    BY <2>1, <2>3
  <2>5. \A k \in kept' : k \in [id : RowIds, row : [Columns -> Cell]] /\ k.row \in StoredRow
    BY <2>2, <2>4 DEF StoredRow
  <2>6. Types'
    BY <2>1, <2>5 DEF Types, Places
  <2>7. Stages'
    BY <2>1, <2>5 DEF Stages
  <2>8. \A j \in 1..next' : Handled(j)'
    <3> SUFFICES ASSUME NEW j \in 1..next PROVE Handled(j)'
      BY <2>1
    <3>1. Handled(j)
      OBVIOUS
    <3>2. CASE report[j] \in {"fatal", "duplicate"}
      BY <3>2, <2>1 DEF Handled
    <3>3. CASE \E k \in kept : k.id = j
      <4>1. PICK k \in kept : k.id = j
        BY <3>3
      <4>2. [id |-> k.id, row |-> Stored(k.row)] \in kept'
        BY <2>4
      <4>3. \E l \in kept' : l.id = j
        BY <4>1, <4>2
      <4> QED
        BY <4>3 DEF Handled
    <3> QED
      BY <3>1, <3>2, <3>3 DEF Handled
  <2> QED
    BY <2>6, <2>7, <2>8
<1>5. CASE Copy
  BY <1>5 DEF Copy, Goto, Types, Stages, Places, Handled
<1>6. CASE Gate
  <2>1. CASE Goto("gate", "loaded") /\ (\A k \in kept : Conformant(k.row)) /\ table' = kept
    BY <1>6, <2>1 DEF Gate, Goto, Types, Stages, Places, Handled
  <2>2. CASE Goto("gate", "nonConformant") /\ UNCHANGED table
    BY <1>6, <2>2 DEF Gate, Goto, Types, Stages, Places, Handled
  <2> QED
    BY <1>6, <2>1, <2>2 DEF Gate
<1>7. CASE UNCHANGED vars
  BY <1>7 DEF vars, Types, Stages, Handled
<1> QED
  BY <1>1, <1>2, <1>3, <1>4, <1>5, <1>6, <1>7 DEF Next

\* The inductive invariant: what each stage has established of the rows it passed on.
THEOREM GateInvariant == Spec => []GateInv
BY InitGate, NextGate, PTL DEF Spec

\* Types of the model.
THEOREM TypeCorrect == Spec => []TypeOK
<1>1. GateInv => TypeOK
  <2> SUFFICES ASSUME GateInv PROVE TypeOK
    OBVIOUS
  <2>1. file \in File /\ file.length \in Nat /\ file.length <= RowCount /\ RowCount \in Nat
    BY FileFacts, FileGateAssumption DEF GateInv, Types
  <2>2. table \in {Old, kept}
    BY DEF GateInv, Stages
  <2> QED
    BY <2>1, <2>2 DEF GateInv, Types, TypeOK
<1> QED
  BY <1>1, GateInvariant, PTL

\* No row vanishes between the file and the table, in files of any length.
THEOREM RowsAreAccounted == Spec => []EveryRowAccounted
<1>1. GateInv => EveryRowAccounted
  BY DEF GateInv, Stages, Handled, EveryRowAccounted
<1> QED
  BY <1>1, GateInvariant, PTL

\* An amount or a period that only the database reads is the file's own, and a native one.
OwnWords ==
  \A k \in kept, c \in Periods \cup {"BilledCost"} :
    k.row[c] = "word" => Native(file) /\ file.rows[k.id].cell[c] = "word"

LEMMA MapsOwnWords ==
  ASSUME NEW f \in Files, NEW i \in RowIds, NEW c \in Periods \cup {"BilledCost"},
         MapRow(f, i)[c] = "word"
  PROVE  Native(f) /\ f.rows[i].cell[c] = "word"
<1> DEFINE row == Read(f, i)
<1>1. c \in Columns /\ c \notin {"ServiceProviderName", "ProviderName", "BillingCurrency", "ChargeCategory"}
  BY DEF Columns, Mandatory, Periods
<1>2. CASE Native(f)
  <2>1. Levelled(f, row)[c] = "word"
    BY <1>2 DEF MapRow, Native
  <2>2. DOMAIN row = Columns
    BY DEF Read
  <2>3. \A v : [row EXCEPT !["ServiceProviderName"] = v][c] = row[c]
    BY <1>1, <2>2
  <2>4. row[c] = "word"
    BY <2>1, <2>3 DEF Levelled
  <2> QED
    BY <1>1, <1>2, <2>4 DEF Read
<1>3. CASE ~Native(f)
  <2>1. \A read : Parsed(row, read) \in {"good", "blank"}
    BY DEF Parsed
  <2>2. \A x : Float(x) # "word"
    BY DEF Float
  <2> HIDE DEF row
  <2>3. ASSUME NEW p \in {"good", "blank"}, NEW u, NEW g PROVE Mapped(row, p, u, g)[c] # "word"
    <3>1. CASE c \in Periods
      <4>1. Mapped(row, p, u, g)[c] = p
        BY <1>1, <3>1 DEF Mapped, Periods
      <4> QED
        BY <4>1
    <3>2. CASE c = "BilledCost"
      <4>1. Mapped(row, p, u, g)[c] = IF Float(row[c]) = "ValueError" THEN "good" ELSE Float(row[c])
        BY <1>1, <3>2 DEF Mapped, Periods
      <4> QED
        BY <2>2, <4>1
    <3> QED
      BY <3>1, <3>2
  <2>4. f.format \in {"aws", "azure", "oci"}
    BY <1>3, FileFacts DEF File, Formats, Native
  <2>5. MapRow(f, i) \in {AwsRow(f, row), AzureRow(f, row), OciRow(f, row)}
    BY <1>3, <2>4 DEF MapRow, row
  <2> QED
    BY <2>1, <2>3, <2>5 DEF AwsRow, AzureRow, OciRow
<1> QED
  BY <1>2, <1>3

LEMMA OwnWordsNext == GateInv /\ OwnWords /\ [Next]_vars => OwnWords'
<1> SUFFICES ASSUME GateInv, OwnWords, [Next]_vars PROVE OwnWords'
  OBVIOUS
<1>f. file' = file
  BY DEF Next, Door, NormalizeRow, NormalizeRaises, Stage, Copy, Gate, vars
<1> SUFFICES ASSUME NEW k \in kept', NEW c \in Periods \cup {"BilledCost"}, k.row[c] = "word"
             PROVE  Native(file) /\ file.rows[k.id].cell[c] = "word"
  <2>1. Native(file)' <=> Native(file)
    BY <1>f DEF Native
  <2> QED
    BY <1>f, <2>1 DEF OwnWords
<1>1. CASE kept' = kept
  BY <1>1 DEF OwnWords
<1>2. CASE NormalizeRow
  <2>1. PICK i \in 1..file.length : i = next + 1
    BY <1>2, FileFacts DEF NormalizeRow, GateInv, Types
  <2>2. i \in RowIds /\ file \in Files
    BY FileFacts DEF GateInv, Types
  <2>3. k \in kept \/ k = [id |-> i, row |-> MapRow(file, i)]
    BY <1>2, <2>1 DEF NormalizeRow, Report
  <2>4. CASE k = [id |-> i, row |-> MapRow(file, i)]
    <3>1. k.id = i /\ k.row = MapRow(file, i)
      BY <2>4
    <3> QED
      BY <2>2, <3>1, MapsOwnWords
  <2> QED
    BY <2>3, <2>4 DEF OwnWords
<1>3. CASE Stage
  <2>1. PICK l \in kept : k = [l EXCEPT !.row = Stored(l.row)]
    BY <1>3 DEF Stage
  <2>2. l \in [id : RowIds, row : [Columns -> Cell]]
    BY DEF GateInv, Types
  <2>3. k.id = l.id /\ k.row = Stored(l.row)
    BY <2>1, <2>2
  <2>4. c \in Columns
    BY DEF Columns, Mandatory, Periods
  <2>5. l.row[c] = "word"
    BY <2>3, <2>4 DEF Stored
  <2> QED
    BY <2>3, <2>5 DEF OwnWords
<1> QED
  BY <1>1, <1>2, <1>3 DEF Next, Door, NormalizeRaises, Copy, Gate, vars

\* What commits can be grouped by category, and summed and laid out by day but for the
\* words of a native file, whatever the format, the header and the cells.
THEOREM CommittedRowsAreUsable == Spec => []CommittedIsUsable
<1>1. Init => OwnWords
  BY DEF Init, OwnWords
<1>2. GateInv /\ OwnWords => CommittedIsUsable
  <2> SUFFICES ASSUME GateInv, OwnWords, place = "loaded", NEW k \in table
               PROVE  /\ k.row["ServiceCategory"] = "good"
                      /\ k.row["BillingCurrency"] \in {"good", "lower"}
                      /\ \A c \in Periods \cup {"BilledCost"} :
                           \/ k.row[c] \in {"good", "padded"}
                           \/ Native(file) /\ k.row[c] = "word" /\ file.rows[k.id].cell[c] = "word"
    BY DEF CommittedIsUsable
  <2>1. k \in kept /\ k.row \in StoredRow /\ CopyTakes(k.row) /\ Conformant(k.row)
    BY DEF GateInv, Stages
  <2>2. k.row["ServiceCategory"] = "good" /\ k.row["BillingCurrency"] \in {"good", "lower"}
    BY <2>1 DEF Conformant, HasUsd
  <2>3. ASSUME NEW c \in Periods \cup {"BilledCost"}
        PROVE  k.row[c] \in {"good", "padded", "word"}
    <3>1. c \in Columns /\ c \in Mandatory /\ c # "BillingCurrency"
      BY DEF Periods, Columns, Mandatory
    <3>2. k.row[c] \in Cell /\ k.row[c] \notin {"lower", "null", "nan", "blank"}
      BY <2>1, <3>1 DEF StoredRow
    <3>3. k.row[c] \notin {"foreign", "space", "huge"}
      BY <2>1 DEF CopyTakes, Numbers
    <3>4. k.row[c] # "NULL"
      BY <2>1, <3>1 DEF Conformant
    <3> QED
      BY <3>2, <3>3, <3>4 DEF Cell, Cells
  <2> QED
    BY <2>1, <2>2, <2>3 DEF OwnWords
<1> QED
  BY <1>1, <1>2, OwnWordsNext, GateInvariant, PTL DEF Spec

\* Only a load that has read the whole file replaces the partition.
THEOREM LoadsAllOrNothing == Spec => AllOrNothing
<1>1. GateInv /\ [Next]_vars => [table' # table => next = file.length /\ place' = "loaded"]_vars
  BY DEF GateInv, Stages, Next, Door, NormalizeRow, NormalizeRaises, Stage, Copy, Gate, Goto, vars
<1> QED
  BY <1>1, GateInvariant, PTL DEF Spec, AllOrNothing

-----------------------------------------------------------------------------

(***************************************************************************)
(* A sound file in the FOCUS format, with its header spelled exactly.      *)
(***************************************************************************)
Named(f) == \A c \in Columns : f.header[c] # "padded"

SoundFile(f) ==
  /\ Native(f) /\ f.text = "csv" /\ f.length > 0
  /\ Named(f)
  /\ \A c \in Mandatory \ {"ServiceProviderName"} : f.header[c] = "named"
  /\ \A i \in 1..f.length : Sound(f, i)

\* Such a row, once the deprecated provider column has filled the current one; a column
\* that is not mandatory may be missing.
CleanRow == {r \in [Columns -> Cell] :
               /\ \A c \in Mandatory : r[c] = "good"
               /\ \A c \in {"ChargeCategory", "Quantity"} : r[c] \in {"good", "blank", "NULL"}}

\* No stage stops the file, and every row that has been read is passed on.
SoundInv ==
  SoundFile(file) =>
    /\ place \in {"door", "normalize", "load", "gate", "loaded"}
    /\ \A k \in kept : k.row \in CleanRow /\ k.id \in 1..next
    /\ \A i \in 1..next : \E k \in kept : k.id = i

\* A sound row has a provider in one of the two columns.
LEMMA SoundProvider ==
  ASSUME NEW f \in Files, SoundFile(f), NEW i \in 1..f.length
  PROVE  Levelled(f, Read(f, i))["ServiceProviderName"] = "good"
<1> DEFINE new == "ServiceProviderName"
           old == "ProviderName"
           row == Read(f, i)
<1>1. f \in File /\ i \in RowIds
  BY FileFacts
<1>2. f.header[new] \in {"named", "missing"} /\ f.header[old] \in {"named", "missing"}
  <2>1. f.header \in [Columns -> {"named", "padded", "missing"}]
    BY <1>1 DEF File
  <2> QED
    BY <2>1 DEF SoundFile, Named, Columns, Mandatory
<1>3. /\ row[new] = IF f.header[new] = "named" THEN f.rows[i].cell[new] ELSE "blank"
      /\ row[old] = IF f.header[old] = "named" THEN f.rows[i].cell[old] ELSE "blank"
      /\ DOMAIN row = Columns /\ new \in Columns
  BY DEF Read, Columns, Mandatory
<1>4. Sound(f, i)
  BY DEF SoundFile
<1>5. CASE f.header[new] # "missing" /\ f.rows[i].cell[new] = "good"
  <2>1. row[new] = "good"
    BY <1>2, <1>3, <1>5
  <2> QED
    BY <2>1 DEF Levelled, Empty
<1>6. CASE /\ f.header[old] # "missing" /\ f.rows[i].cell[old] = "good"
           /\ f.header[new] = "missing" \/ f.rows[i].cell[new] = "blank"
  <2>1. f.header[old] = "named" /\ row[old] = "good" /\ row[new] = "blank"
    BY <1>2, <1>3, <1>6
  <2>2. Levelled(f, row) = [row EXCEPT ![new] = row[old]]
    BY <2>1 DEF Levelled, Empty
  <2> HIDE DEF row
  <2>3. [row EXCEPT ![new] = row[old]][new] = row[old]
    BY <1>3
  <2> QED
    BY <2>1, <2>2, <2>3 DEF row
<1> QED
  BY <1>4, <1>5, <1>6 DEF Sound

LEMMA SoundRowIsClean ==
  ASSUME NEW f \in Files, SoundFile(f), NEW i \in 1..f.length
  PROVE  /\ MapRow(f, i) \in CleanRow
         /\ ~Fatal(f, i) /\ ~Raises(f, i) /\ ~Duplicate(f, i)
<1> DEFINE row == Levelled(f, Read(f, i))
<1>1. Native(f) /\ f.text = "csv" /\ f.rows[i].shape = "even"
  <2>1. Sound(f, i)
    BY DEF SoundFile
  <2> QED
    BY <2>1 DEF SoundFile, Sound
<1>2. MapRow(f, i) = row
  BY <1>1 DEF MapRow, Native
<1>3. i \in RowIds
  BY FileFacts
<1>9. ~Raises(f, i) /\ ~Duplicate(f, i)
  BY <1>1 DEF Raises, Duplicate, Native
<1>4. row \in [Columns -> Cell]
  BY <1>2, <1>3, <1>9, MapsToRow DEF MappedRow, Cell
<1>5. ASSUME NEW c \in Columns \ {"ServiceProviderName", "ProviderName"}
      PROVE  row[c] \in {"good", "blank"} /\ (c \in Mandatory => row[c] = "good")
  <2>1. c \in Columns /\ c # "ServiceProviderName" /\ f.rows[i].cell[c] = "good"
    BY DEF SoundFile, Sound
  <2>2. c \in Mandatory => f.header[c] = "named"
    BY <2>1 DEF SoundFile
  <2>3. /\ Read(f, i)[c] \in {"good", "blank"} /\ (c \in Mandatory => Read(f, i)[c] = "good")
        /\ DOMAIN Read(f, i) = Columns
    BY <2>1, <2>2 DEF Read
  <2>4. \A v : [Read(f, i) EXCEPT !["ServiceProviderName"] = v][c] = Read(f, i)[c]
    BY <2>1, <2>3
  <2> QED
    BY <2>3, <2>4 DEF Levelled
<1>6. row["ServiceProviderName"] = "good"
  BY SoundProvider
<1>7. row \in CleanRow
  <2>1. \A c \in Mandatory : row[c] = "good"
    BY <1>5, <1>6 DEF Columns, Mandatory
  <2>2. \A c \in {"ChargeCategory", "Quantity"} : row[c] \in {"good", "blank"}
    BY <1>5 DEF Columns, Mandatory
  <2> HIDE DEF row
  <2> QED
    BY <1>4, <2>1, <2>2 DEF CleanRow
<1>8. ~Fatal(f, i)
  BY <1>1, <1>5 DEF Fatal, NativeFatal, Empty, Columns, Mandatory
<1>10. MapRow(f, i) \in CleanRow
  BY <1>2, <1>7
<1> QED
  BY <1>8, <1>9, <1>10

\* The door finds every column it asks for.
LEMMA SoundIsAccepted ==
  ASSUME NEW f \in Files, SoundFile(f)
  PROVE  DoorAccepts(f)
<1>1. 1 \in 1..f.length
  BY FileFacts DEF SoundFile
<1>2. Sound(f, 1)
  BY <1>1 DEF SoundFile
<1>3. Declared(f, "ServiceProviderName")
  BY <1>2 DEF Sound, Declared
<1>4. \A c \in Mandatory \ {"ServiceProviderName"} : Declared(f, c)
  BY DEF SoundFile, Declared, Columns, Mandatory
<1> QED
  BY <1>3, <1>4 DEF DoorAccepts, SoundFile

\* A clean row is stored as it is, and neither COPY nor the gate refuses it.
LEMMA CleanPasses ==
  ASSUME NEW row \in CleanRow
  PROVE  Stored(row) \in CleanRow /\ CopyTakes(row) /\ Conformant(row)
<1>1. /\ \A c \in Mandatory : row[c] = "good"
      /\ \A c \in {"ChargeCategory", "Quantity"} : row[c] \in {"good", "blank", "NULL"}
  BY DEF CleanRow
<1>2. Stored(row) \in CleanRow
  <2>1. \A c \in Columns : Stored(row)[c] = IF row[c] \in {"null", "nan", "blank"} THEN "NULL" ELSE row[c]
    BY DEF Stored
  <2>2. \A c \in Columns : row[c] \in Cell
    BY DEF CleanRow
  <2>3. Stored(row) \in [Columns -> Cell]
    BY <2>2 DEF Stored, Cell
  <2>4. \A c \in Mandatory : Stored(row)[c] = "good"
    BY <1>1, <2>1 DEF Columns
  <2>5. {"ChargeCategory", "Quantity"} \subseteq Columns
    BY DEF Columns
  <2>6. \A c \in {"ChargeCategory", "Quantity"} : Stored(row)[c] \in {"good", "blank", "NULL"}
    BY <1>1, <2>1, <2>5
  <2> QED
    BY <2>3, <2>4, <2>6 DEF CleanRow
<1>3. CopyTakes(row)
  BY <1>1 DEF CopyTakes, Columns, Mandatory, Periods, Numbers
<1>4. Conformant(row)
  BY <1>1 DEF Conformant, HasUsd, Columns, Mandatory
<1> QED
  BY <1>2, <1>3, <1>4

LEMMA SoundNext == GateInv /\ SoundInv /\ [Next]_vars => SoundInv'
<1> SUFFICES ASSUME GateInv, SoundInv, [Next]_vars, SoundFile(file)'
             PROVE  /\ place' \in {"door", "normalize", "load", "gate", "loaded"}
                    /\ \A k \in kept' : k.row \in CleanRow /\ k.id \in 1..next'
                    /\ \A i \in 1..next' : \E k \in kept' : k.id = i
  BY DEF SoundInv
<1>f. file' = file
  BY DEF Next, Door, NormalizeRow, NormalizeRaises, Stage, Copy, Gate, vars
<1>s. /\ SoundFile(file) /\ file \in Files
      /\ file.length \in Nat /\ next \in 0..file.length
  BY <1>f, FileFacts DEF GateInv, Types
<1>t. /\ place \in {"door", "normalize", "load", "gate", "loaded"}
      /\ \A k \in kept : k.row \in CleanRow /\ k.id \in 1..next
      /\ \A i \in 1..next : \E k \in kept : k.id = i
  BY <1>s DEF SoundInv
<1>c. \A k \in kept : Stored(k.row) \in CleanRow /\ CopyTakes(k.row) /\ Conformant(k.row)
  BY <1>t, CleanPasses
<1>1. CASE Door
  <2>1. place' = "normalize" /\ UNCHANGED <<next, kept>>
    BY <1>1, <1>s, SoundIsAccepted DEF Door, Goto
  <2> QED
    BY <1>t, <2>1
<1>2. CASE NormalizeRow
  <2>1. PICK i \in 1..file.length : i = next + 1
    BY <1>2, <1>s DEF NormalizeRow
  <2>2. ~Fatal(file, i) /\ ~Duplicate(file, i) /\ MapRow(file, i) \in CleanRow
    BY <1>s, SoundRowIsClean
  <2>3. place' = place /\ next' = i /\ Report(i, "kept")
    BY <1>2, <2>1, <2>2 DEF NormalizeRow
  <2>4. kept' = kept \cup {[id |-> i, row |-> MapRow(file, i)]}
    BY <2>3 DEF Report
  <2>5. 1..i = (1..next) \cup {i}
    BY <1>s, <2>1
  <2>6. PICK l : l = [id |-> i, row |-> MapRow(file, i)]
    OBVIOUS
  <2>7. l.id = i /\ l.row \in CleanRow
    BY <2>2, <2>6
  <2>8. kept' = kept \cup {l}
    BY <2>4, <2>6
  <2>9. \A k \in kept' : k.row \in CleanRow /\ k.id \in 1..i
    BY <1>t, <2>5, <2>7, <2>8
  <2>10. \A j \in 1..i : \E k \in kept' : k.id = j
    BY <1>t, <2>5, <2>7, <2>8
  <2> QED
    BY <1>t, <2>3, <2>9, <2>10
<1>3. CASE NormalizeRaises
  <2>1. next + 1 \in 1..file.length /\ Raises(file, next + 1)
    BY <1>3, <1>s DEF NormalizeRaises
  <2> QED
    BY <1>s, <2>1, SoundRowIsClean
<1>4. CASE Stage
  <2>1. /\ place' = "load" /\ next' = next
        /\ kept' = {[k EXCEPT !.row = Stored(k.row)] : k \in kept}
    BY <1>4 DEF Stage, Goto
  <2>2. \A k \in kept : k \in [id : RowIds, row : [Columns -> Cell]]
    BY DEF GateInv, Types
  <2>3. \A k \in kept : [k EXCEPT !.row = Stored(k.row)] = [id |-> k.id, row |-> Stored(k.row)]
    BY <2>2
  <2>4. kept' = {[id |-> k.id, row |-> Stored(k.row)] : k \in kept}
    BY <2>1, <2>3
  <2>5. ASSUME NEW l \in kept' PROVE l.row \in CleanRow /\ l.id \in 1..next
    <3>1. PICK k \in kept : l = [id |-> k.id, row |-> Stored(k.row)]
      BY <2>4
    <3>2. l.id = k.id /\ l.row = Stored(k.row)
      BY <3>1
    <3> QED
      BY <1>t, <1>c, <3>2
  <2>6. ASSUME NEW i \in 1..next PROVE \E k \in kept' : k.id = i
    <3>1. PICK k \in kept : k.id = i
      BY <1>t
    <3>2. [id |-> k.id, row |-> Stored(k.row)] \in kept'
      BY <2>4
    <3> QED
      BY <3>1, <3>2
  <2> QED
    BY <2>1, <2>5, <2>6
<1>5. CASE Copy
  <2>1. place' = "gate" /\ UNCHANGED <<next, kept>>
    BY <1>5, <1>c DEF Copy, Goto
  <2> QED
    BY <1>t, <2>1
<1>6. CASE Gate
  <2>1. place' = "loaded" /\ UNCHANGED <<next, kept>>
    BY <1>6, <1>c DEF Gate, Goto
  <2> QED
    BY <1>t, <2>1
<1>7. CASE UNCHANGED vars
  BY <1>7, <1>t DEF vars
<1> QED
  BY <1>1, <1>2, <1>3, <1>4, <1>5, <1>6, <1>7 DEF Next

\* A file whose rows are all sound and whose header is spelled exactly is loaded to the
\* last row, however many there are and whichever provider column they fill.
THEOREM SoundFilesLoad == Spec => []SoundFileLoads
<1>1. Init => SoundInv
  <2> SUFFICES ASSUME Init, SoundFile(file) PROVE SoundInv
    BY DEF SoundInv
  <2>1. place \in {"door", "normalize"} /\ next = 0 /\ kept = {}
    BY DEF Init
  <2> QED
    BY <2>1 DEF SoundInv
<1>2. GateInv /\ SoundInv /\ [Next]_vars => SoundInv'
  BY SoundNext
<1>3. GateInv /\ SoundInv => SoundFileLoads
  <2> SUFFICES ASSUME GateInv, SoundInv, SoundFile(file)
               PROVE  /\ place \notin {"refused", "unparsable", "copyFailed", "nonConformant"}
                      /\ place = "loaded" => {k.id : k \in table} = 1..file.length
    BY DEF SoundFileLoads, SoundFile, Named
  <2>1. /\ place \in {"door", "normalize", "load", "gate", "loaded"}
        /\ \A k \in kept : k.id \in 1..next
        /\ \A i \in 1..next : \E k \in kept : k.id = i
    BY DEF SoundInv
  <2>2. place = "loaded" => table = kept /\ next = file.length
    BY DEF GateInv, Stages
  <2> QED
    BY <2>1, <2>2
<1> QED
  BY <1>1, <1>2, <1>3, GateInvariant, PTL DEF Spec

-----------------------------------------------------------------------------

(***************************************************************************)
(* How far door, gate and conformance panel do agree.                      *)
(***************************************************************************)

\* What is past the door has been let in by it, or never came to it.
DoorInv == file.format = "upload" /\ place \notin {"door", "refused"} => DoorAccepts(file)

LEMMA DoorNext == GateInv /\ DoorInv /\ [Next]_vars => DoorInv'
<1> SUFFICES ASSUME GateInv, DoorInv, [Next]_vars PROVE DoorInv'
  OBVIOUS
<1>1. file' = file /\ DoorAccepts(file)' = DoorAccepts(file)
  BY DEF Next, Door, NormalizeRow, NormalizeRaises, Stage, Copy, Gate, vars, DoorAccepts, Declared
<1>2. CASE Door
  BY <1>1, <1>2 DEF Door, Goto, DoorInv
<1>3. CASE NormalizeRow \/ NormalizeRaises \/ Stage \/ Copy \/ Gate
  <2>1. place \notin {"door", "refused"}
    BY <1>3 DEF NormalizeRow, NormalizeRaises, Stage, Copy, Gate, Goto
  <2> QED
    BY <1>1, <2>1 DEF DoorInv
<1>4. CASE UNCHANGED vars
  BY <1>1, <1>4 DEF vars, DoorInv
<1> QED
  BY <1>2, <1>3, <1>4 DEF Next

\* An upload that has sound rows only and no blanks around the names in its header is refused
\* at the door, where it is told why, or loaded: the gate finds nothing in it that the door
\* should have found.  With blanks around a name it does, which FileGate_promises shows.
THEOREM NamedDoorAgrees == Spec => [](Named(file) => DoorAgreesWithGate)
<1>1. Init => SoundInv /\ DoorInv
  <2> SUFFICES ASSUME Init PROVE SoundInv /\ DoorInv
    OBVIOUS
  <2>1. place = (IF file.format = "upload" THEN "door" ELSE "normalize") /\ next = 0 /\ kept = {}
    BY DEF Init
  <2> QED
    BY <2>1 DEF SoundInv, DoorInv
<1>2. GateInv /\ SoundInv /\ DoorInv /\ [Next]_vars => SoundInv' /\ DoorInv'
  BY SoundNext, DoorNext
<1>3. GateInv /\ SoundInv /\ DoorInv => (Named(file) => DoorAgreesWithGate)
  <2> SUFFICES ASSUME GateInv, SoundInv, DoorInv, Named(file), file.format = "upload",
                      \A i \in 1..file.length : Sound(file, i), place = "nonConformant"
               PROVE  FALSE
    BY DEF DoorAgreesWithGate
  <2>1. DoorAccepts(file)
    BY DEF DoorInv
  <2>2. file \in Files /\ file.header \in [Columns -> {"named", "padded", "missing"}]
    BY FileFacts DEF GateInv, Types, File
  <2>3. ASSUME NEW c \in Mandatory \ {"ServiceProviderName"} PROVE file.header[c] = "named"
    <3>1. file.header[c] # "missing" /\ c \in Columns
      BY <2>1 DEF DoorAccepts, Declared, Columns
    <3> QED
      BY <2>2, <3>1 DEF Named
  <2>4. SoundFile(file)
    BY <2>1, <2>3 DEF SoundFile, DoorAccepts, Native
  <2> QED
    BY <2>4 DEF SoundInv
<1> QED
  BY <1>1, <1>2, <1>3, GateInvariant, PTL DEF Spec

\* Gate and panel differ about the letter case of a currency, and about nothing else.
THEOREM PanelDiffersOnCaseOnly ==
  Spec => [](place = "loaded" =>
               \A k \in table : Displayed(k.row) <=> k.row["BillingCurrency"] # "lower")
<1>1. GateInv => (place = "loaded" =>
               \A k \in table : Displayed(k.row) <=> k.row["BillingCurrency"] # "lower")
  <2> SUFFICES ASSUME GateInv, place = "loaded", NEW k \in table
               PROVE  Displayed(k.row) <=> k.row["BillingCurrency"] # "lower"
    OBVIOUS
  <2>1. Conformant(k.row)
    BY DEF GateInv, Stages
  <2> QED
    BY <2>1 DEF Conformant, Displayed, HasUsd
<1> QED
  BY <1>1, GateInvariant, PTL

-----------------------------------------------------------------------------

(***************************************************************************)
(* The one missing value that the gate is not asked about.                 *)
(***************************************************************************)

\* An upload of which values are missing, written as a sentinel, but no currency.
CurrencyGiven(f) ==
  /\ f.format = "upload"
  /\ \A i \in 1..f.length :
       /\ f.rows[i].shape = "even"
       /\ \A c \in Columns : f.rows[i].cell[c] \in {"good", "null", "nan"}
       /\ f.rows[i].cell["BillingCurrency"] = "good"

\* A row that COPY takes, whatever else it lacks.
KeyedRow ==
  {r \in [Columns -> {"good", "null", "nan", "blank", "NULL"}] :
     r["ServiceCategory"] = "good" /\ r["BillingCurrency"] = "good"}

KeyInv == CurrencyGiven(file) => place # "copyFailed" /\ \A k \in kept : k.row \in KeyedRow

LEMMA KeyedRowIsTaken ==
  ASSUME NEW row \in KeyedRow
  PROVE  Stored(row) \in KeyedRow /\ CopyTakes(row)
<1>1. {"ServiceCategory", "BillingCurrency", "BilledCost", "Quantity"} \cup Periods \subseteq Columns
  BY DEF Columns, Mandatory, Periods
<1>2. \A c \in Columns : row[c] \in {"good", "null", "nan", "blank", "NULL"}
  BY DEF KeyedRow
<1>3. row["ServiceCategory"] = "good" /\ row["BillingCurrency"] = "good"
  BY DEF KeyedRow
<1>4. Stored(row) \in [Columns -> {"good", "null", "nan", "blank", "NULL"}]
  BY <1>2 DEF Stored
<1>5. Stored(row)["ServiceCategory"] = "good" /\ Stored(row)["BillingCurrency"] = "good"
  BY <1>1, <1>3 DEF Stored
<1>6. CopyTakes(row)
  BY <1>1, <1>2, <1>3 DEF CopyTakes, Numbers
<1> QED
  BY <1>4, <1>5, <1>6 DEF KeyedRow

\* What the normalizer passes on of such a file has category and currency.
LEMMA KeptRowIsKeyed ==
  ASSUME NEW f \in Files, CurrencyGiven(f), NEW i \in 1..f.length, ~Fatal(f, i)
  PROVE  MapRow(f, i) \in KeyedRow
<1> DEFINE read == Read(f, i)
           row  == Levelled(f, read)
           Kind == {"good", "null", "nan", "blank", "NULL"}
<1>1. Native(f) /\ MapRow(f, i) = row /\ ~NativeFatal(row)
  BY DEF CurrencyGiven, Native, MapRow, Fatal
<1>2. /\ \A c \in Columns : f.rows[i].cell[c] \in {"good", "null", "nan"}
      /\ f.rows[i].cell["BillingCurrency"] = "good"
  BY DEF CurrencyGiven
<1>3. {"ServiceProviderName", "ProviderName", "ServiceCategory", "BillingCurrency"} \subseteq Columns
  BY DEF Columns, Mandatory
<1>4. read \in [Columns -> Kind] /\ read["BillingCurrency"] \in {"good", "blank"}
  BY <1>2, <1>3 DEF Read
<1> HIDE DEF read
<1>5. row \in [Columns -> Kind] /\ row["BillingCurrency"] \in {"good", "blank"}
  BY <1>3, <1>4 DEF Levelled
<1>6. row["ServiceCategory"] \in {"good", "padded"} /\ row["BillingCurrency"] \notin Empty
  BY <1>1 DEF NativeFatal
<1>7. row["ServiceCategory"] \in Kind
  BY <1>3, <1>5
<1> HIDE DEF row
<1>8. row["ServiceCategory"] = "good" /\ row["BillingCurrency"] = "good"
  BY <1>5, <1>6, <1>7 DEF Empty
<1>9. row \in KeyedRow
  BY <1>5, <1>8 DEF KeyedRow
<1> QED
  BY <1>1, <1>9

LEMMA KeyNext == GateInv /\ KeyInv /\ [Next]_vars => KeyInv'
<1> SUFFICES ASSUME GateInv, KeyInv, [Next]_vars, CurrencyGiven(file)'
             PROVE  place' # "copyFailed" /\ \A k \in kept' : k.row \in KeyedRow
  BY DEF KeyInv
<1>f. file' = file
  BY DEF Next, Door, NormalizeRow, NormalizeRaises, Stage, Copy, Gate, vars
<1>s. /\ CurrencyGiven(file) /\ file \in Files
      /\ file.length \in Nat /\ next \in 0..file.length
  BY <1>f, FileFacts DEF GateInv, Types
<1>t. place # "copyFailed" /\ \A k \in kept : k.row \in KeyedRow
  BY <1>s DEF KeyInv
<1>1. CASE Door
  BY <1>1, <1>t DEF Door, Goto
<1>2. CASE NormalizeRow
  <2>1. PICK i \in 1..file.length : i = next + 1
    BY <1>2, <1>s DEF NormalizeRow
  <2>2. place' = place
    BY <1>2 DEF NormalizeRow
  <2>3. CASE kept' = kept
    BY <1>t, <2>2, <2>3
  <2>4. CASE kept' # kept
    <3>1. ~Fatal(file, i) /\ kept' = kept \cup {[id |-> i, row |-> MapRow(file, i)]}
      BY <1>2, <2>1, <2>4 DEF NormalizeRow, Report
    <3>2. MapRow(file, i) \in KeyedRow
      BY <1>s, <3>1, KeptRowIsKeyed
    <3>3. PICK l : l = [id |-> i, row |-> MapRow(file, i)]
      OBVIOUS
    <3>4. l.row \in KeyedRow /\ kept' = kept \cup {l}
      BY <3>1, <3>2, <3>3
    <3> QED
      BY <1>t, <2>2, <3>4
  <2> QED
    BY <2>3, <2>4
<1>3. CASE NormalizeRaises
  BY <1>3, <1>t DEF NormalizeRaises, Goto
<1>4. CASE Stage
  <2>1. place' = "load" /\ kept' = {[k EXCEPT !.row = Stored(k.row)] : k \in kept}
    BY <1>4 DEF Stage, Goto
  <2>2. \A k \in kept : k \in [id : RowIds, row : [Columns -> Cell]]
    BY DEF GateInv, Types
  <2>3. \A k \in kept : [k EXCEPT !.row = Stored(k.row)].row = Stored(k.row)
    BY <2>2
  <2>4. \A k \in kept : Stored(k.row) \in KeyedRow
    BY <1>t, KeyedRowIsTaken
  <2>5. ASSUME NEW l \in kept' PROVE l.row \in KeyedRow
    <3>1. PICK k \in kept : l = [k EXCEPT !.row = Stored(k.row)]
      BY <2>1
    <3>2. l.row = Stored(k.row)
      BY <2>3, <3>1
    <3> QED
      BY <2>4, <3>2
  <2> QED
    BY <2>1, <2>5
<1>5. CASE Copy
  <2>1. \A k \in kept : CopyTakes(k.row)
    BY <1>t, KeyedRowIsTaken
  <2>2. place' = "gate" /\ kept' = kept
    BY <1>5, <2>1 DEF Copy, Goto
  <2> QED
    BY <1>t, <2>2
<1>6. CASE Gate
  BY <1>6, <1>t DEF Gate, Goto
<1>7. CASE UNCHANGED vars
  BY <1>7, <1>t DEF vars
<1> QED
  BY <1>1, <1>2, <1>3, <1>4, <1>5, <1>6, <1>7 DEF Next

\* Of the values that a row can lack, the currency alone makes COPY fail: the absence of
\* any other is found by the normalizer or the gate, whose exception an upload handles.
THEOREM OnlyCurrencyFailsInCopy ==
  Spec => []((\A i \in 1..file.length : file.rows[i].cell["BillingCurrency"] # "null")
               => MissingValueIsGated)
<1>1. Init => KeyInv
  BY DEF Init, KeyInv
<1>2. GateInv /\ KeyInv => ((\A i \in 1..file.length : file.rows[i].cell["BillingCurrency"] # "null")
                   => MissingValueIsGated)
  <2> SUFFICES ASSUME GateInv, KeyInv, file.format = "upload",
                      \A i \in 1..file.length : /\ file.rows[i].cell["BillingCurrency"] # "null"
                                                /\ file.rows[i].shape = "even"
                                                /\ \A c \in Columns :
                                                     file.rows[i].cell[c] \in {"good", "null", "nan"}
               PROVE  place # "copyFailed"
    BY DEF MissingValueIsGated
  <2>1. "BillingCurrency" \in Columns
    BY DEF Columns, Mandatory
  <2>2. ASSUME NEW i \in 1..file.length PROVE file.rows[i].cell["BillingCurrency"] = "good"
    <3>1. file \in Files /\ i \in RowIds
      BY FileFacts DEF GateInv, Types
    <3>2. file.rows[i].cell["BillingCurrency"] # "nan"
      BY <2>1, <3>1, FileGateAssumption DEF Numbers
    <3> QED
      BY <2>1, <3>2
  <2>3. CurrencyGiven(file)
    BY <2>2 DEF CurrencyGiven
  <2> QED
    BY <2>3 DEF KeyInv
<1> QED
  BY <1>1, <1>2, KeyNext, GateInvariant, PTL DEF Spec

====
