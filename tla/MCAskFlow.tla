------------------------------ MODULE MCAskFlow ------------------------------
(***************************************************************************)
(* An AskFlow run: two canned queries, a question, and replies of every    *)
(* kind that the guard and the database tell apart.                        *)
(***************************************************************************)
EXTENDS AskFlow

T(name)      == [schema |-> "", name |-> name]
S(col, form) == [col |-> col, form |-> form]

Total == [fenced |-> TRUE, prose |-> TRUE, refuses |-> FALSE, statements |-> 1, top |-> "Select",
          nodes |-> {}, ctes |-> {}, tables |-> {T("focus_costs")},
          sums |-> {S("billed_cost_usd", "alone")}, columns |-> {"billed_cost_usd"}, fate |-> "rows"]

FanOut   == [Total EXCEPT !.tables = {T("focus_costs"), T("miq_utilization")},
                          !.sums = {S("billed_cost_usd", "leads")}]
Listed   == [FanOut EXCEPT !.sums = {S("list_cost", "alone"), S("billed_cost_usd", "within")},
                           !.columns = {"list_cost", "billed_cost_usd"}]
Raw      == [Total EXCEPT !.sums = {S("billed_cost", "alone")}, !.columns = {"billed_cost"}]
Both     == [Total EXCEPT !.sums = {S("billed_cost", "leads"), S("billed_cost_usd", "alone")},
                          !.columns = {"billed_cost", "billed_cost_usd"}]
Deletes  == [Total EXCEPT !.nodes = {"Delete"}, !.ctes = {"cte"}]
WithCte  == [Total EXCEPT !.tables = {T("focus_costs"), T("cte")}, !.ctes = {"cte"}, !.fate = "none"]
Elsewhere == [Total EXCEPT !.tables = {T("elsewhere")}]
Two      == [Total EXCEPT !.statements = 2]
Mistyped == [Total EXCEPT !.fate = "fails"]
Stores   == [Total EXCEPT !.sums = {}, !.columns = {}, !.fate = "writes"]
Chatty   == [Total EXCEPT !.fenced = FALSE]
Refusal  == [Total EXCEPT !.refuses = TRUE, !.tables = {}, !.sums = {}]

MCReplies == {Total, FanOut, Listed, Raw, Both, Deletes, WithCte, Elsewhere, Two, Mistyped,
              Stores, Chatty, Refusal}
MCCanned  == [q \in {"top", "ai cost"} |-> IF q = "top" THEN {"n"} ELSE {}]
MCParams  == {[names |-> {"n"}, fit |-> {"n"}], [names |-> {"n"}, fit |-> {}], [names |-> {}, fit |-> {}]}

====
