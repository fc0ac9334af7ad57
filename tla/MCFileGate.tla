------------------------------ MODULE MCFileGate ------------------------------
(***************************************************************************)
(* The exports that a FileGate run considers: one odd cell, or a row too   *)
(* long or too short, in a file of up to two rows, under every spelling of *)
(* the header.                                                             *)
(***************************************************************************)
EXTENDS FileGate

\* A column holds only what its type can tell apart.
Odd == (Columns \X {"padded", "foreign", "space", "null", "blank"})
         \cup {<<"BillingCurrency", "lower">>}
         \cup (Numbers \X {"word", "huge", "nan"}) \cup (Periods \X {"word"})

Good      == [c \in Columns |-> "good"]
Plain     == [cell |-> Good, shape |-> "even", key |-> 0]
OddRows   == {Plain, [Plain EXCEPT !.shape = "long"], [Plain EXCEPT !.shape = "short"], [Plain EXCEPT !.key = 1]}
               \cup {[Plain EXCEPT !.cell = [Good EXCEPT ![o[1]] = o[2]]] : o \in Odd}
NextRows  == {Plain, [Plain EXCEPT !.key = 1], [Plain EXCEPT !.key = 1, !.shape = "short"],
              [Plain EXCEPT !.cell = [Good EXCEPT !["BillingCurrency"] = "blank"]]}

Exact     == [c \in Columns |-> IF c = "ProviderName" THEN "missing" ELSE "named"]
Renamed   == [Exact EXCEPT !["ServiceProviderName"] = "missing", !["ProviderName"] = "named"]
Headers   == {Exact, Renamed, [Exact EXCEPT !["ProviderName"] = "named"]}
               \cup {[Exact EXCEPT ![c] = h] : c \in Columns, h \in {"padded", "missing"}}

Export(format, header, one, two, n) ==
  [format |-> format, text |-> "csv", header |-> header,
   rows |-> <<one, two>>, length |-> n]

MCFiles ==
  {Export(p, h, one, two, 2) : p \in Formats, h \in Headers, one \in OddRows, two \in NextRows}
    \cup {Export(p, Exact, one, Plain, 1) : p \in Formats, one \in OddRows}
    \cup {[Export(p, Exact, Plain, Plain, 0) EXCEPT !.text = t] :
             p \in Formats, t \in {"csv", "empty"}}
    \cup {[Export(p, Exact, Plain, Plain, 1) EXCEPT !.text = "binary"] : p \in Formats}

====
