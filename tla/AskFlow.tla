------------------------------- MODULE AskFlow -------------------------------
(***************************************************************************)
(* The query page of the AI assistant, from the click to the panel that    *)
(* shows an answer: the script of web/templates/view_ai_query.html, the    *)
(* endpoints of ai/router.py, the model call of ai/bedrock_client.py, the  *)
(* guard of ai/sql_guard.py and the read-only execution of web/db.py.      *)
(* The page may have several calls under way at once, loads replace the    *)
(* tables meanwhile, and an answer can be late or lost.                    *)
(***************************************************************************)
EXTENDS Integers, FiniteSets

CONSTANTS
  Canned,      \* canned queries, and the parameters that each declares
  Questions,   \* free-text questions
  Params,      \* parameters that a canned call may carry: name and if it fits
  Replies,     \* texts that the model may answer
  MaxCalls,    \* calls made from a page before it is loaded again
  Losses,      \* whether connections may break
  MaxLoads,    \* loads that commit
  Nothing

ReadOnlyTables == {"focus_costs", "resource_join_map", "miq_utilization", "miq_onprem_cost"}

Forbidden == {"Insert", "Update", "Delete", "Create", "Drop", "Command"}

CostColumns == {"billed_cost", "billed_cost_usd", "effective_cost", "list_cost", "contracted_cost"}

(***************************************************************************)
(* A reply of the model: whether it fences its SQL, whether prose stands   *)
(* around it, and the SQL itself, by what the guard and the database tell  *)
(* apart.  A sum, or an average, is of a column: of the column alone; of   *)
(* an expression that begins with it or with its table's name ("leads");   *)
(* or with the column in a function, in quotes or after DISTINCT           *)
(* ("within").  The columns are the costs that the text names anywhere.    *)
(***************************************************************************)
Sums   == [col : CostColumns \cup {"cpu"}, form : {"alone", "leads", "within"}]
Tables == [schema : {"", "public", "other"}, name : ReadOnlyTables \cup {"cte", "elsewhere"}]

ASSUME AskFlowAssumption ==
  /\ Replies \subseteq [fenced : BOOLEAN, prose : BOOLEAN, refuses : BOOLEAN, statements : Nat,
                        top : {"Select", "Union", "Insert", "Set"}, nodes : SUBSET Forbidden,
                        ctes : SUBSET {"cte"}, tables : SUBSET Tables, sums : SUBSET Sums,
                        columns : SUBSET CostColumns, fate : {"rows", "none", "fails", "writes"}]
  /\ Canned \in [DOMAIN Canned -> SUBSET {"n", "min_cost"}]
  /\ Questions \cap DOMAIN Canned = {} /\ "" \notin Questions
  /\ \A p \in Params : p.names \subseteq {"n", "min_cost", "extra"} /\ p.fit \subseteq p.names
  /\ MaxCalls \in Nat /\ MaxLoads \in Nat /\ Losses \in BOOLEAN
  /\ Nothing \notin Replies /\ Nothing \notin DOMAIN Canned

VARIABLES
  db,        \* the state of the tables, by the number of commits that made it
  enabled,   \* BEDROCK_DISABLED is not 1
  calls,     \* calls under way
  sent,      \* calls made so far
  last,      \* lastQuestion
  asking,    \* the ask button is disabled
  panel,     \* what is shown: whose answer, its rows and warnings, the narrative
  aiOn,      \* AI_ON, as the page was rendered
  loads,     \* loads committed
  lost       \* a call of this page was lost

page == <<last, asking, panel, aiOn>>
vars == <<db, enabled, calls, sent, page, loads, lost>>

-----------------------------------------------------------------------------

(***************************************************************************)
(* The guard.                                                              *)
(***************************************************************************)

\* Without a fence the whole reply is taken for SQL.
Parses(r) == r.fenced \/ ~r.prose

Refuses(r) == r.refuses /\ Parses(r)

\* A mutant: the walk over the tables is left out.
AcceptedAnywhere(r) == r.statements = 1 /\ r.top \in {"Select", "Union"} /\ r.nodes = {}

\* validate, of a text that sqlglot can parse.
Accepted(r) ==
  /\ r.statements = 1
  /\ r.top \in {"Select", "Union"}
  /\ r.nodes = {}
  /\ \A t \in r.tables : t.name \in r.ctes \/ (t.name \in ReadOnlyTables /\ t.schema # "other")

Mentions(r, name) == \E t \in r.tables : t.name = name

\* financial_sanity_warnings: patterns over the text of the statement, of which each finds
\* the sums that are spelled its way.
Warnings(r) ==
  {w \in {"raw", "unnormalised", "fanout"} :
     /\ w = "raw" => \E a \in r.sums : a.form = "alone" /\ a.col = "billed_cost"
     /\ w = "unnormalised" => /\ Mentions(r, "focus_costs") /\ r.sums # {}
                              /\ "billed_cost" \in r.columns /\ "billed_cost_usd" \notin r.columns
     /\ w = "fanout" => /\ \E a \in r.sums : /\ a.form \in {"alone", "leads"}
                                             /\ a.col \in {"billed_cost", "billed_cost_usd"}
                        /\ Mentions(r, "focus_costs") /\ Mentions(r, "miq_utilization")}

-----------------------------------------------------------------------------

(***************************************************************************)
(* The page.                                                               *)
(***************************************************************************)
Blank   == [kind |-> "blank", of |-> Nothing, id |-> 0, rows |-> Nothing, warnings |-> {},
            button |-> "none", narrative |-> Nothing]
Waiting == [Blank EXCEPT !.kind = "waiting"]
Error   == [Blank EXCEPT !.kind = "error"]

Call(kind, question, more) ==
  [id |-> sent + 1, kind |-> kind, question |-> question, more |-> more,
   stage |-> "sent", status |-> 0, body |-> Nothing, warnings |-> {}]

Send(call) ==
  /\ sent < MaxCalls
  /\ sent' = sent + 1
  /\ calls' = calls \cup {call}
  /\ UNCHANGED <<db, enabled, aiOn, loads, lost>>

Init ==
  /\ db = 0
  /\ enabled \in BOOLEAN
  /\ calls = {} /\ sent = 0
  /\ last = "" /\ asking = FALSE /\ panel = Blank
  /\ aiOn = enabled /\ loads = 0 /\ lost = FALSE

\* execCanned: the page asks for the declared parameters, and takes what is typed.
ClickCanned(q, p) ==
  /\ p.names = Canned[q]
  /\ last' = q
  /\ panel' = Waiting
  /\ Send(Call("canned", q, p))
  /\ UNCHANGED asking

\* The form can only be used where the page was rendered with the assistant on, but
\* that page may be older than the last redeployment.
SubmitAsk(q) ==
  /\ ~asking
  /\ aiOn
  /\ last' = q /\ asking' = TRUE
  /\ panel' = Waiting
  /\ Send(Call("ask", q, Nothing))

\* The button under an answer that has rows: the rows are those of the answer, the
\* question is the last one put.
Interpret ==
  /\ panel.kind = "rows" /\ panel.button = "ready"
  /\ panel' = [panel EXCEPT !.button = "thinking"]
  /\ Send(Call("narrate", last, [rows |-> panel.rows, slot |-> panel.id]))
  /\ UNCHANGED <<last, asking>>

Answered(c) == c.stage = "done"

\* show: the panel is replaced, whatever was asked since.
Shown(c) ==
  IF c.status # 200 THEN Error
  ELSE [kind |-> "rows", of |-> c.question, id |-> c.id, rows |-> c.body,
        warnings |-> c.warnings,
        button |-> IF c.body.some /\ aiOn THEN "ready" ELSE "none",
        narrative |-> Nothing]

\* A mutant: the ask button is enabled again only by a good answer.
ReceiveGood(c) ==
  /\ Answered(c) /\ c.kind # "narrate"
  /\ panel' = IF c.status = 200 /\ c.body = Nothing THEN Error ELSE Shown(c)
  /\ asking' = IF c.kind = "ask" /\ c.status = 200 THEN FALSE ELSE asking
  /\ calls' = calls \ {c}
  /\ UNCHANGED <<db, enabled, sent, last, aiOn, loads, lost>>

\* A mutant: show enables the ask button, whichever call it shows.
ReceiveAny(c) ==
  /\ Answered(c) /\ c.kind # "narrate"
  /\ panel' = IF c.status = 200 /\ c.body = Nothing THEN Error ELSE Shown(c)
  /\ asking' = FALSE
  /\ calls' = calls \ {c}
  /\ UNCHANGED <<db, enabled, sent, last, aiOn, loads, lost>>

\* A refusal is answered with status 200, and shown as an error.
Receive(c) ==
  /\ Answered(c) /\ c.kind # "narrate"
  /\ panel' = IF c.status = 200 /\ c.body = Nothing THEN Error ELSE Shown(c)
  /\ asking' = IF c.kind = "ask" THEN FALSE ELSE asking
  /\ calls' = calls \ {c}
  /\ UNCHANGED <<db, enabled, sent, last, aiOn, loads, lost>>

\* A mutant: the slot is looked up when the narrative arrives.
ReceiveNarrativeLate(c) ==
  /\ Answered(c) /\ c.kind = "narrate"
  /\ panel' = IF panel.kind # "rows" THEN panel
              ELSE IF c.body = Nothing THEN [panel EXCEPT !.button = "ready"]
              ELSE [panel EXCEPT !.button = "none", !.narrative = c.body]
  /\ calls' = calls \ {c}
  /\ UNCHANGED <<db, enabled, sent, last, asking, aiOn, loads, lost>>

\* The slot was taken before the call: that of a panel replaced since is out of the page.
ReceiveNarrative(c) ==
  /\ Answered(c) /\ c.kind = "narrate"
  /\ panel' = IF panel.id # c.more.slot THEN panel
              ELSE IF c.body = Nothing THEN [panel EXCEPT !.button = "ready"]
              ELSE [panel EXCEPT !.button = "none", !.narrative = c.body]
  /\ calls' = calls \ {c}
  /\ UNCHANGED <<db, enabled, sent, last, asking, aiOn, loads, lost>>

\* fetch rejects: the handler ends where it awaits it.
Lose(c) ==
  /\ Losses
  /\ lost' = TRUE
  /\ calls' = calls \ {c}
  /\ UNCHANGED <<db, enabled, sent, page, loads>>

\* The page is loaded again: the answers under way have nowhere to go.
Reload ==
  /\ last' = "" /\ asking' = FALSE /\ panel' = Blank
  /\ aiOn' = enabled
  /\ calls' = {} /\ sent' = 0 /\ lost' = FALSE
  /\ UNCHANGED <<db, enabled, loads>>

-----------------------------------------------------------------------------

(***************************************************************************)
(* The server.                                                             *)
(***************************************************************************)

Becomes(c, d) ==
  /\ calls' = (calls \ {c}) \cup {d}
  /\ UNCHANGED <<sent, page, enabled, loads, lost>>

Reply(c, status, body) ==
  Becomes(c, [c EXCEPT !.stage = "done", !.status = status, !.body = body,
                       !.more = IF c.kind = "narrate" THEN @ ELSE Nothing])

\* The rows that a read of the tables returns: what was read, in which state.
Rows(what, some) == [what |-> what, state |-> db, some |-> some]

\* run_canned: exactly the declared parameters, each matching its pattern.
Fits(q, p) == q \in DOMAIN Canned /\ p.names = Canned[q] /\ p.fit = p.names

RunCanned(c) ==
  /\ c.kind = "canned" /\ c.stage = "sent"
  /\ \/ ~Fits(c.question, c.more) /\ Reply(c, 400, Nothing)
     \/ Fits(c.question, c.more) /\ Reply(c, 200, Rows(c.question, TRUE))
     \/ Fits(c.question, c.more) /\ Reply(c, 500, Nothing)     \* the database raises
  /\ UNCHANGED db

AskDisabled(c) ==
  /\ c.kind = "ask" /\ c.stage = "sent" /\ ~enabled
  /\ Reply(c, 503, Nothing)
  /\ UNCHANGED db

\* converse raises when the retries of the client are used up.
AskThrottled(c) ==
  /\ c.kind = "ask" /\ c.stage = "sent" /\ enabled
  /\ Reply(c, 500, Nothing)
  /\ UNCHANGED db

\* The reply of the model, as far as the call of query_untrusted.
AskModel(c, r) ==
  /\ c.kind = "ask" /\ c.stage = "sent" /\ enabled
  /\ \/ /\ Refuses(r)
        /\ Reply(c, 200, Nothing)
     \/ /\ ~Parses(r)
        /\ Reply(c, 500, Nothing)     \* sqlglot's ParseError has no handler
     \/ /\ Parses(r) /\ ~Refuses(r) /\ ~Accepted(r)
        /\ Reply(c, 422, Nothing)
     \/ /\ Parses(r) /\ ~Refuses(r) /\ Accepted(r)
        /\ Becomes(c, [c EXCEPT !.stage = "accepted", !.more = r, !.warnings = Warnings(r)])
  /\ UNCHANGED db

\* query_untrusted: the guard looks again; what fails, runs too long or writes is refused
\* by the database, since the transaction is read-only.
RunUntrusted(c) ==
  /\ c.kind = "ask" /\ c.stage = "accepted"
  /\ IF ~Accepted(c.more) \/ c.more.fate \in {"fails", "writes"} THEN Reply(c, 422, Nothing)
     ELSE Reply(c, 200, Rows(c.more, c.more.fate = "rows"))
  /\ UNCHANGED db

\* narrate: prose about the rows of the call, or nothing when the assistant is off or
\* the model call fails.
Narrate(c) ==
  /\ c.kind = "narrate" /\ c.stage = "sent"
  /\ \/ enabled /\ Reply(c, 200, [question |-> c.question, rows |-> c.more.rows])
     \/ Reply(c, 200, Nothing)
  /\ UNCHANGED db

Load ==
  /\ loads < MaxLoads
  /\ loads' = loads + 1
  /\ db' = db + 1
  /\ UNCHANGED <<enabled, calls, sent, page, lost>>

\* A rolling redeployment: what is under way is answered by the old replica first.
Redeploy ==
  /\ calls = {}
  /\ enabled' = ~enabled
  /\ UNCHANGED <<db, calls, sent, page, loads, lost>>

Serve(c) ==
  \/ RunCanned(c)
  \/ AskDisabled(c)
  \/ AskThrottled(c)
  \/ \E r \in Replies : AskModel(c, r)
  \/ RunUntrusted(c)
  \/ Narrate(c)

Deliver(c) == Receive(c) \/ ReceiveNarrative(c)

Next ==
  \/ \E q \in DOMAIN Canned, p \in Params : ClickCanned(q, p)
  \/ \E q \in Questions : SubmitAsk(q)
  \/ Interpret
  \/ \E c \in calls : Serve(c) \/ Deliver(c) \/ Lose(c)
  \/ Reload
  \/ Load
  \/ Redeploy

\* The server answers what it took up, and the browser runs the handlers of answers.
Spec ==
  /\ Init /\ [][Next]_vars
  /\ WF_vars(\E c \in calls : Serve(c))
  /\ WF_vars(\E c \in calls : Deliver(c))

-----------------------------------------------------------------------------

(***************************************************************************)
(* Properties.                                                             *)
(***************************************************************************)
TypeOK ==
  /\ db \in Nat /\ enabled \in BOOLEAN
  /\ sent \in 0..MaxCalls /\ \A c \in calls : c.id \in 1..sent
  /\ \A c, d \in calls : c.id = d.id => c = d
  /\ last \in Questions \cup DOMAIN Canned \cup {""}
  /\ asking \in BOOLEAN
  /\ panel.kind \in {"blank", "waiting", "error", "rows"}
  /\ panel.button \in {"none", "ready", "thinking"}

\* The narrative shown under rows was written from these rows, however many answers
\* the panel showed between the click and the narrative.
NarrativeIsOfRows == panel.narrative # Nothing => panel.narrative.rows = panel.rows

\* Rows shown as the answer to a free question are what the database read for one
\* statement that reads the four tables and its own CTEs, and above them stand the
\* warnings of this statement: whatever the model replied, whichever of the guards, the
\* run and the patterns failed, and in whatever order the answers came.
AnswersAreVetted ==
  panel.kind = "rows" /\ panel.of \in Questions =>
    LET r == panel.rows.what
    IN /\ r.statements = 1 /\ r.nodes \cup {r.top} \subseteq {"Select", "Union"}
       /\ \A t \in r.tables : t.schema = "" => t.name \in ReadOnlyTables \cup r.ctes
       /\ ~r.refuses /\ r.fate \in {"rows", "none"}
       /\ panel.warnings = Warnings(r)

\* A page has one free question with the model at a time, however its other calls come
\* and go, and its button is disabled for as long as that takes.
OneQuestionAsked ==
  /\ \A c, d \in calls : c.kind = "ask" /\ d.kind = "ask" => c = d
  /\ (\E c \in calls : c.kind = "ask") => asking
  /\ asking => lost \/ \E c \in calls : c.kind = "ask"

\* A question put in free text is answered, or its call is lost.
AskReturns == asking ~> ~asking \/ lost

(***************************************************************************)
(* Promises that the code does not keep.                                   *)
(***************************************************************************)

\* ai/bedrock_client.py: the narrator is given the question and the rows of its query.
NarrativeAnswersQuestion ==
  panel.narrative # Nothing => panel.narrative.question = panel.of

\* ai/sql_guard.py: text that cannot be parsed is rejected, as SqlValidationError.
UnparseableIsRejected ==
  [][\A c \in calls : \A r \in Replies :
       AskModel(c, r) /\ ~Parses(r) => \E d \in calls' : d.id = c.id /\ d.status = 422]_vars

\* ai/sql_guard.py: a total over the raw, mixed-currency column is flagged (H-10).
RawTotalsAreFlagged ==
  panel.kind = "rows" /\ panel.of \in Questions
    /\ (\E a \in panel.rows.what.sums : a.col = "billed_cost") => panel.warnings # {}

\* ai/sql_guard.py: rows that sum costs while joined to utilization are flagged whenever
\* both appear (B-6).
FanOutIsFlagged ==
  panel.kind = "rows" /\ panel.of \in Questions =>
    LET r == panel.rows.what
    IN (\E a \in r.sums : a.col \in CostColumns)
       /\ Mentions(r, "focus_costs") /\ Mentions(r, "miq_utilization")
         => panel.warnings # {}

\* The template's friendlyError: after a failure the user can try again.
AskComesBack == asking ~> ~asking

====
