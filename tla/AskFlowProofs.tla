---------------------------- MODULE AskFlowProofs ----------------------------
(***************************************************************************)
(* The narrative under an answer is of the rows of that answer, an answer  *)
(* to a free question is one that the guard and the database let through,  *)
(* and a page asks the model one question at a time, with any number of    *)
(* calls under way, answered late, out of order or never.                  *)
(***************************************************************************)
EXTENDS AskFlow, TLAPS

CallFields  == {"id", "kind", "question", "more", "stage", "status", "body", "warnings"}
PanelFields == {"kind", "of", "id", "rows", "warnings", "button", "narrative"}

Shapes ==
  /\ DOMAIN panel = PanelFields
  /\ panel.id \in 0..sent
  /\ panel.kind = "rows" => panel.id # 0
  /\ \A c \in calls : /\ DOMAIN c = CallFields
                      /\ c.kind \in {"canned", "ask", "narrate"}
                      /\ c.id # panel.id

\* A narrator is at work on the answer that its slot names, which has been received.
Narrators ==
  \A c \in calls : c.kind = "narrate" =>
    /\ c.more.slot \in 1..sent
    /\ \A d \in calls : d.kind # "narrate" => d.id # c.more.slot
    /\ c.more.slot = panel.id => c.more.rows = panel.rows
    /\ c.stage = "done" /\ c.body # Nothing => c.body.rows = c.more.rows

AskInv == TypeOK /\ Shapes /\ Narrators /\ NarrativeIsOfRows

-----------------------------------------------------------------------------

LEMMA AskInit == Init => AskInv
<1> SUFFICES ASSUME Init PROVE AskInv
  OBVIOUS
<1>0. MaxCalls \in Nat
  BY AskFlowAssumption
<1>1. 0 \in 0..MaxCalls
  BY <1>0
<1>2. TypeOK
  BY <1>1 DEF Init, TypeOK, Blank
<1>3. /\ calls = {} /\ sent = 0
      /\ DOMAIN panel = PanelFields
      /\ panel.id = 0 /\ panel.kind = "blank" /\ panel.narrative = Nothing
  BY DEF Init, Blank, PanelFields
<1>4. Shapes /\ Narrators /\ NarrativeIsOfRows
  BY <1>3 DEF Shapes, Narrators, NarrativeIsOfRows
<1> QED
  BY <1>2, <1>4 DEF AskInv

\* One more call, of which nobody has heard.
LEMMA SendKeeps ==
  ASSUME AskInv, NEW c, Send(c),
         DOMAIN c = CallFields, c.id = sent + 1, c.stage = "sent",
         c.kind \in {"canned", "ask", "narrate"},
         DOMAIN panel' = PanelFields, panel'.id \in {0, panel.id},
         panel'.kind = "rows" => panel'.id # 0,
         panel'.id = panel.id => panel'.rows = panel.rows \/ panel.id = 0,
         c.kind = "narrate" => /\ c.more.slot = panel.id /\ panel.id # 0
                               /\ c.more.rows = panel.rows
  PROVE  /\ Shapes' /\ Narrators'
         /\ sent' \in 0..MaxCalls
         /\ \A d \in calls' : d.id \in 1..sent'
         /\ \A d, e \in calls' : d.id = e.id => d = e
<1>1. /\ sent < MaxCalls /\ sent' = sent + 1 /\ calls' = calls \cup {c}
      /\ sent \in 0..MaxCalls /\ MaxCalls \in Nat
  BY AskFlowAssumption DEF Send, AskInv, TypeOK
<1>2. sent' \in 0..MaxCalls /\ sent \in Nat
  BY <1>1
<1>3. \A d \in calls : d.id \in 1..sent
  BY DEF AskInv, TypeOK
<1>4. \A d \in calls' : d.id \in 1..sent'
  BY <1>1, <1>2, <1>3
<1>5. \A d \in calls : d.id # c.id
  BY <1>2, <1>3
<1>6. \A d, e \in calls' : d.id = e.id => d = e
  BY <1>1, <1>5 DEF AskInv, TypeOK
<1>7. panel.id \in 0..sent
  BY DEF AskInv, Shapes
<1>8. Shapes'
  <2>1. panel'.id \in 0..sent'
    BY <1>1, <1>2, <1>7
  <2>2. \A d \in calls' : d.id # panel'.id
    BY <1>1, <1>2, <1>3, <1>7 DEF AskInv, Shapes
  <2> QED
    BY <1>1, <2>1, <2>2 DEF AskInv, Shapes
<1>9. Narrators'
  <2> SUFFICES ASSUME NEW d \in calls', d.kind = "narrate"
               PROVE  /\ d.more.slot \in 1..sent'
                      /\ \A e \in calls' : e.kind # "narrate" => e.id # d.more.slot
                      /\ d.more.slot = panel'.id => d.more.rows = panel'.rows
                      /\ d.stage = "done" /\ d.body # Nothing => d.body.rows = d.more.rows
    BY DEF Narrators
  <2>1. CASE d = c
    <3>1. d.more.slot \in 1..sent
      BY <2>1, <1>2, <1>7
    <3>2. \A e \in calls : e.id # d.more.slot
      BY <2>1 DEF AskInv, Shapes
    <3>3. c.id # d.more.slot
      BY <1>2, <3>1
    <3> QED
      BY <1>1, <1>2, <2>1, <3>1, <3>2, <3>3
  <2>2. CASE d \in calls
    <3>1. /\ d.more.slot \in 1..sent
          /\ \A e \in calls : e.kind # "narrate" => e.id # d.more.slot
          /\ d.more.slot = panel.id => d.more.rows = panel.rows
          /\ d.stage = "done" /\ d.body # Nothing => d.body.rows = d.more.rows
      BY <2>2 DEF AskInv, Narrators
    <3>2. c.id # d.more.slot /\ d.more.slot # 0 /\ d.more.slot \in 1..sent'
      BY <1>1, <1>2, <3>1
    <3>3. d.more.slot = panel'.id => d.more.rows = panel'.rows
      BY <3>1, <3>2
    <3> QED
      BY <1>1, <3>1, <3>2, <3>3
  <2> QED
    BY <1>1, <2>1, <2>2
<1> QED
  BY <1>2, <1>4, <1>6, <1>8, <1>9

\* The server works on one call, for as long as it stays that call.
LEMMA ServeKeeps ==
  ASSUME AskInv, NEW c \in calls, NEW d, Becomes(c, d), db' \in Nat,
         DOMAIN d = CallFields, d.id = c.id, d.kind = c.kind,
         d.kind = "narrate" => /\ d.more = c.more
                               /\ d.body # Nothing => d.body.rows = c.more.rows
  PROVE  AskInv'
<1>1. /\ calls' = (calls \ {c}) \cup {d}
      /\ UNCHANGED <<sent, last, asking, panel, enabled>>
  BY DEF Becomes, page
<1>2. TypeOK'
  <2>1. \A e \in calls' : e.id \in 1..sent
    BY <1>1 DEF AskInv, TypeOK
  <2>2. \A e, f \in calls' : e.id = f.id => e = f
    <3>1. \A e, f \in calls : e.id = f.id => e = f
      BY DEF AskInv, TypeOK
    <3>2. \A e \in calls \ {c} : e.id # d.id
      BY <3>1
    <3> QED
      BY <1>1, <3>1, <3>2
  <2>3. enabled' = enabled /\ asking' = asking /\ sent' = sent /\ last' = last /\ panel' = panel
    BY <1>1
  <2>4. enabled' \in BOOLEAN /\ asking' \in BOOLEAN
    BY <2>3 DEF AskInv, TypeOK
  <2> QED
    BY <2>1, <2>2, <2>3, <2>4 DEF AskInv, TypeOK
<1>3. Shapes'
  BY <1>1 DEF AskInv, Shapes
<1>4. Narrators'
  <2> SUFFICES ASSUME NEW e \in calls', e.kind = "narrate"
               PROVE  /\ e.more.slot \in 1..sent
                      /\ \A f \in calls' : f.kind # "narrate" => f.id # e.more.slot
                      /\ e.more.slot = panel.id => e.more.rows = panel.rows
                      /\ e.stage = "done" /\ e.body # Nothing => e.body.rows = e.more.rows
    BY <1>1 DEF Narrators
  <2>1. PICK g \in calls : g.kind = "narrate" /\ g.more = e.more
    BY <1>1
  <2>2. \A f \in calls' : \E h \in calls : h.id = f.id /\ h.kind = f.kind
    BY <1>1
  <2>3. /\ e.more.slot \in 1..sent
        /\ \A h \in calls : h.kind # "narrate" => h.id # e.more.slot
        /\ e.more.slot = panel.id => e.more.rows = panel.rows
    BY <2>1 DEF AskInv, Narrators
  <2>4. \A f \in calls' : f.kind # "narrate" => f.id # e.more.slot
    BY <2>2, <2>3
  <2>5. e.stage = "done" /\ e.body # Nothing => e.body.rows = e.more.rows
    BY <1>1 DEF AskInv, Narrators
  <2> QED
    BY <2>3, <2>4, <2>5
<1>5. NarrativeIsOfRows'
  BY <1>1 DEF AskInv, NarrativeIsOfRows
<1> QED
  BY <1>2, <1>3, <1>4, <1>5 DEF AskInv

\* The page takes one answer, or loses it.
LEMMA DropKeeps ==
  ASSUME AskInv, NEW c \in calls,
         calls' = calls \ {c}, sent' = sent,
         DOMAIN panel' = PanelFields, panel'.id \in {0, panel.id, c.id},
         panel'.kind = "rows" => panel'.id # 0,
         panel'.id = panel.id /\ panel.id # 0 => panel'.rows = panel.rows,
         panel'.id = c.id => c.kind # "narrate"
  PROVE  /\ Shapes' /\ Narrators'
         /\ sent' \in 0..MaxCalls
         /\ \A d \in calls' : d.id \in 1..sent'
         /\ \A d, e \in calls' : d.id = e.id => d = e
<1>1. /\ sent \in 0..MaxCalls /\ \A d \in calls : d.id \in 1..sent
      /\ \A d, e \in calls : d.id = e.id => d = e
  BY DEF AskInv, TypeOK
<1>2. \A d \in calls' : d.id \in 1..sent' /\ d.id # c.id /\ d.id # 0
  BY <1>1
<1>3. panel'.id \in 0..sent'
  BY <1>1 DEF AskInv, Shapes
<1>4. Shapes'
  BY <1>2, <1>3 DEF AskInv, Shapes
<1>5. Narrators'
  <2> SUFFICES ASSUME NEW d \in calls', d.kind = "narrate"
               PROVE  /\ d.more.slot \in 1..sent'
                      /\ \A e \in calls' : e.kind # "narrate" => e.id # d.more.slot
                      /\ d.more.slot = panel'.id => d.more.rows = panel'.rows
                      /\ d.stage = "done" /\ d.body # Nothing => d.body.rows = d.more.rows
    BY DEF Narrators
  <2>1. /\ d.more.slot \in 1..sent
        /\ \A e \in calls : e.kind # "narrate" => e.id # d.more.slot
        /\ d.more.slot = panel.id => d.more.rows = panel.rows
        /\ d.stage = "done" /\ d.body # Nothing => d.body.rows = d.more.rows
    BY DEF AskInv, Narrators
  <2>2. d.more.slot = panel'.id => panel'.id = panel.id /\ panel.id # 0
    BY <1>1, <2>1
  <2> QED
    BY <2>1, <2>2
<1> QED
  BY <1>1, <1>2, <1>4, <1>5

\* An answer that is shown is a panel with a slot of its own, or an error without one.
LEMMA ShownPanel ==
  ASSUME NEW c, NEW p, p = IF c.status = 200 /\ c.body = Nothing THEN Error ELSE Shown(c)
  PROVE  /\ DOMAIN p = PanelFields /\ p.id \in {0, c.id}
         /\ p.kind = "rows" => p.id = c.id
         /\ p.id = 0 \/ p.kind = "rows"
         /\ p.kind \in {"error", "rows"} /\ p.button \in {"none", "ready"}
         /\ p.narrative = Nothing
<1>1. /\ DOMAIN Error = PanelFields /\ Error.id = 0 /\ Error.kind = "error"
      /\ Error.button = "none" /\ Error.narrative = Nothing
  BY DEF Error, Blank, PanelFields
<1>2. CASE p = Error
  BY <1>1, <1>2
<1>3. CASE p # Error
  <2>1. p = [kind |-> "rows", of |-> c.question, id |-> c.id, rows |-> c.body,
             warnings |-> c.warnings,
             button |-> IF c.body.some /\ aiOn THEN "ready" ELSE "none",
             narrative |-> Nothing]
    BY <1>3 DEF Shown
  <2> QED
    BY <2>1 DEF PanelFields
<1> QED
  BY <1>2, <1>3

-----------------------------------------------------------------------------

\* The clicks of the page.
LEMMA ClickKeeps ==
  ASSUME AskInv, NEW q, NEW c, Send(c),
         q \in Questions \cup DOMAIN Canned, last' = q, panel' = Waiting,
         asking' \in BOOLEAN,
         DOMAIN c = CallFields, c.id = sent + 1, c.stage = "sent", c.kind \in {"canned", "ask"}
  PROVE  AskInv'
<1>1. /\ DOMAIN Waiting = PanelFields /\ Waiting.id = 0 /\ Waiting.kind = "waiting"
      /\ Waiting.button = "none" /\ Waiting.narrative = Nothing /\ Waiting.rows = Nothing
  BY DEF Waiting, Blank, PanelFields
<1>2. /\ Shapes' /\ Narrators' /\ sent' \in 0..MaxCalls
      /\ \A d \in calls' : d.id \in 1..sent'
      /\ \A d, e \in calls' : d.id = e.id => d = e
  BY <1>1, SendKeeps
<1>3. UNCHANGED <<db, enabled>>
  BY DEF Send
<1>4. TypeOK'
  <2>1. db' \in Nat /\ enabled' \in BOOLEAN
    BY <1>3 DEF AskInv, TypeOK
  <2> QED
    BY <1>1, <1>2, <2>1 DEF TypeOK
<1>5. NarrativeIsOfRows'
  BY <1>1 DEF NarrativeIsOfRows
<1> QED
  BY <1>2, <1>4, <1>5 DEF AskInv

LEMMA CallShape ==
  ASSUME NEW kind, NEW question, NEW more
  PROVE  LET c == Call(kind, question, more) IN
         /\ DOMAIN c = CallFields /\ c.id = sent + 1 /\ c.kind = kind /\ c.stage = "sent"
         /\ c.more = more
BY DEF Call, CallFields

LEMMA InterpretKeeps == AskInv /\ Interpret => AskInv'
<1> SUFFICES ASSUME AskInv, Interpret PROVE AskInv'
  OBVIOUS
<1> DEFINE c == Call("narrate", last, [rows |-> panel.rows, slot |-> panel.id])
<1>1. /\ panel.kind = "rows" /\ panel' = [panel EXCEPT !.button = "thinking"]
      /\ Send(c) /\ last' = last /\ asking' = asking
  BY DEF Interpret
<1>2. /\ DOMAIN c = CallFields /\ c.id = sent + 1 /\ c.kind = "narrate" /\ c.stage = "sent"
      /\ c.more = [rows |-> panel.rows, slot |-> panel.id]
  BY CallShape
<1> HIDE DEF c
<1>3. DOMAIN panel = PanelFields /\ panel.id # 0
  BY <1>1 DEF AskInv, Shapes
<1>4. /\ DOMAIN panel' = PanelFields /\ panel'.id = panel.id /\ panel'.rows = panel.rows
      /\ panel'.kind = "rows" /\ panel'.narrative = panel.narrative /\ panel'.button = "thinking"
  BY <1>1, <1>3 DEF PanelFields
<1>5. c.more.slot = panel.id /\ c.more.rows = panel.rows
  BY <1>2
<1>6. /\ Shapes' /\ Narrators' /\ sent' \in 0..MaxCalls
      /\ \A d \in calls' : d.id \in 1..sent'
      /\ \A d, e \in calls' : d.id = e.id => d = e
  BY <1>1, <1>2, <1>3, <1>4, <1>5, SendKeeps
<1>7. TypeOK'
  <2>1. UNCHANGED <<db, enabled, asking, last>>
    BY <1>1 DEF Send
  <2>2. db' \in Nat /\ enabled' \in BOOLEAN /\ asking' \in BOOLEAN
    BY <2>1 DEF AskInv, TypeOK
  <2> QED
    BY <1>4, <1>6, <2>1, <2>2 DEF AskInv, TypeOK
<1>8. NarrativeIsOfRows'
  BY <1>4 DEF AskInv, NarrativeIsOfRows
<1> QED
  BY <1>6, <1>7, <1>8 DEF AskInv

LEMMA ReceiveKeeps ==
  ASSUME AskInv, NEW c \in calls, Receive(c)
  PROVE  AskInv'
<1>1. /\ c.kind # "narrate" /\ calls' = calls \ {c}
      /\ panel' = IF c.status = 200 /\ c.body = Nothing THEN Error ELSE Shown(c)
      /\ UNCHANGED <<db, enabled, sent, last>>
  BY DEF Receive
<1>2. /\ DOMAIN panel' = PanelFields /\ panel'.id \in {0, c.id}
      /\ panel'.kind = "rows" => panel'.id = c.id
      /\ panel'.kind \in {"error", "rows"} /\ panel'.button \in {"none", "ready"}
      /\ panel'.narrative = Nothing
  BY <1>1, ShownPanel
<1>3. c.id # 0 /\ c.id # panel.id
  <2>1. c.id \in 1..sent /\ c.id # panel.id
    BY DEF AskInv, TypeOK, Shapes
  <2> QED
    BY <2>1
<1>4. panel'.id # panel.id \/ panel.id = 0
  BY <1>2, <1>3
<1>5. /\ Shapes' /\ Narrators' /\ sent' \in 0..MaxCalls
      /\ \A d \in calls' : d.id \in 1..sent'
      /\ \A d, e \in calls' : d.id = e.id => d = e
  BY <1>1, <1>2, <1>3, <1>4, DropKeeps
<1>6. TypeOK'
  <2>1. asking' \in BOOLEAN
    BY DEF Receive, AskInv, TypeOK
  <2>2. db' \in Nat /\ enabled' \in BOOLEAN
    BY <1>1 DEF AskInv, TypeOK
  <2> QED
    BY <1>1, <1>2, <1>5, <2>1, <2>2 DEF AskInv, TypeOK
<1>7. NarrativeIsOfRows'
  BY <1>2 DEF NarrativeIsOfRows
<1> QED
  BY <1>5, <1>6, <1>7 DEF AskInv

LEMMA ReceiveNarrativeKeeps ==
  ASSUME AskInv, NEW c \in calls, ReceiveNarrative(c)
  PROVE  AskInv'
<1>1. /\ c.kind = "narrate" /\ c.stage = "done" /\ calls' = calls \ {c}
      /\ panel' = IF panel.id # c.more.slot THEN panel
                  ELSE IF c.body = Nothing THEN [panel EXCEPT !.button = "ready"]
                  ELSE [panel EXCEPT !.button = "none", !.narrative = c.body]
      /\ UNCHANGED <<db, enabled, sent, last, asking>>
  BY DEF ReceiveNarrative, Answered
<1>2. DOMAIN panel = PanelFields
  BY DEF AskInv, Shapes
<1>3. /\ DOMAIN panel' = PanelFields /\ panel'.id = panel.id /\ panel'.rows = panel.rows
      /\ panel'.kind = panel.kind /\ panel'.button \in {panel.button, "ready", "none"}
      /\ panel'.narrative = panel.narrative
           \/ /\ panel.id = c.more.slot /\ c.body # Nothing
              /\ panel'.narrative = c.body
  BY <1>1, <1>2 DEF PanelFields
<1>4. c.id # panel.id /\ (panel.kind = "rows" => panel.id # 0)
  BY DEF AskInv, Shapes
<1>5. /\ Shapes' /\ Narrators' /\ sent' \in 0..MaxCalls
      /\ \A d \in calls' : d.id \in 1..sent'
      /\ \A d, e \in calls' : d.id = e.id => d = e
  BY <1>1, <1>3, <1>4, DropKeeps
<1>6. TypeOK'
  <2>1. UNCHANGED <<db, enabled, asking, last>>
    BY <1>1
  <2>2. db' \in Nat /\ enabled' \in BOOLEAN /\ asking' \in BOOLEAN
    BY <2>1 DEF AskInv, TypeOK
  <2> QED
    BY <1>3, <1>5, <2>1, <2>2 DEF AskInv, TypeOK
<1>7. NarrativeIsOfRows'
  <2>1. panel.id = c.more.slot /\ c.body # Nothing => c.body.rows = panel.rows
    BY <1>1 DEF AskInv, Narrators
  <2> QED
    BY <1>3, <2>1 DEF AskInv, NarrativeIsOfRows
<1> QED
  BY <1>5, <1>6, <1>7 DEF AskInv

LEMMA LoseKeeps ==
  ASSUME AskInv, NEW c \in calls, Lose(c)
  PROVE  AskInv'
<1>1. calls' = calls \ {c} /\ UNCHANGED <<db, enabled, sent, last, asking, panel>>
  BY DEF Lose, page
<1>2. DOMAIN panel = PanelFields /\ c.id # panel.id /\ (panel.kind = "rows" => panel.id # 0)
  BY DEF AskInv, Shapes
<1>3. /\ Shapes' /\ Narrators' /\ sent' \in 0..MaxCalls
      /\ \A d \in calls' : d.id \in 1..sent'
      /\ \A d, e \in calls' : d.id = e.id => d = e
  BY <1>1, <1>2, DropKeeps
<1>4. TypeOK'
  <2>1. db' \in Nat /\ enabled' \in BOOLEAN /\ asking' \in BOOLEAN
    BY <1>1 DEF AskInv, TypeOK
  <2> QED
    BY <1>1, <1>3, <2>1 DEF AskInv, TypeOK
<1>5. NarrativeIsOfRows'
  BY <1>1 DEF AskInv, NarrativeIsOfRows
<1> QED
  BY <1>3, <1>4, <1>5 DEF AskInv

LEMMA ReloadKeeps == AskInv /\ Reload => AskInv'
<1> SUFFICES ASSUME AskInv, Reload PROVE AskInv'
  OBVIOUS
<1>1. /\ last' = "" /\ asking' = FALSE /\ panel' = Blank /\ calls' = {} /\ sent' = 0
      /\ UNCHANGED <<db, enabled>>
  BY DEF Reload
<1>2. /\ DOMAIN Blank = PanelFields /\ Blank.id = 0 /\ Blank.kind = "blank"
      /\ Blank.button = "none" /\ Blank.narrative = Nothing
  BY DEF Blank, PanelFields
<1>3. MaxCalls \in Nat
  BY AskFlowAssumption
<1>4. TypeOK'
  <2>1. db' \in Nat /\ enabled' \in BOOLEAN
    BY <1>1 DEF AskInv, TypeOK
  <2>2. asking' \in BOOLEAN
    BY <1>1
  <2>3. sent' \in 0..MaxCalls
    <3>1. 0 \in 0..MaxCalls
      BY <1>3
    <3> QED
      BY <1>1, <3>1
  <2> QED
    BY <1>1, <1>2, <2>1, <2>2, <2>3 DEF TypeOK
<1>5. Shapes'
  <2>1. panel'.id = 0 /\ sent' = 0 /\ calls' = {}
    BY <1>1, <1>2
  <2>2. panel'.id \in 0..sent'
    BY <2>1
  <2> QED
    BY <1>1, <1>2, <2>1, <2>2 DEF Shapes
<1>6. Narrators' /\ NarrativeIsOfRows'
  BY <1>1, <1>2 DEF Narrators, NarrativeIsOfRows
<1> QED
  BY <1>4, <1>5, <1>6 DEF AskInv

\* A reply closes the call that it is for.
LEMMA ReplyKeeps ==
  ASSUME AskInv, NEW c \in calls, NEW status, NEW body, Reply(c, status, body), db' = db,
         c.kind = "narrate" /\ body # Nothing => body.rows = c.more.rows
  PROVE  AskInv'
<1> DEFINE d == [c EXCEPT !.stage = "done", !.status = status, !.body = body,
                          !.more = IF c.kind = "narrate" THEN @ ELSE Nothing]
<1>1. Becomes(c, d)
  BY DEF Reply
<1>2. DOMAIN c = CallFields
  BY DEF AskInv, Shapes
<1>3. /\ DOMAIN d = CallFields /\ d.id = c.id /\ d.kind = c.kind /\ d.body = body
      /\ c.kind = "narrate" => d.more = c.more
  BY <1>2 DEF CallFields
<1>4. db' \in Nat
  BY DEF AskInv, TypeOK
<1> HIDE DEF d
<1> QED
  BY <1>1, <1>3, <1>4, ServeKeeps

LEMMA ServerKeeps ==
  ASSUME AskInv, NEW c \in calls, Serve(c)
  PROVE  AskInv'
<1>1. CASE RunCanned(c)
  BY <1>1, ReplyKeeps DEF RunCanned
<1>2. CASE AskDisabled(c)
  BY <1>2, ReplyKeeps DEF AskDisabled
<1>3. CASE AskThrottled(c)
  BY <1>3, ReplyKeeps DEF AskThrottled
<1>4. ASSUME NEW r \in Replies, AskModel(c, r) PROVE AskInv'
  <2>1. c.kind = "ask" /\ db' = db
    BY <1>4 DEF AskModel
  <2>2. CASE \E status : Reply(c, status, Nothing)
    BY <2>1, <2>2, ReplyKeeps
  <2>3. CASE Becomes(c, [c EXCEPT !.stage = "accepted", !.more = r, !.warnings = Warnings(r)])
    <3> DEFINE d == [c EXCEPT !.stage = "accepted", !.more = r, !.warnings = Warnings(r)]
    <3>1. DOMAIN c = CallFields
      BY DEF AskInv, Shapes
    <3>2. DOMAIN d = CallFields /\ d.id = c.id /\ d.kind = c.kind
      BY <3>1 DEF CallFields
    <3>3. db' \in Nat /\ d.kind # "narrate"
      BY <2>1, <3>2 DEF AskInv, TypeOK
    <3> HIDE DEF d
    <3>4. Becomes(c, d)
      BY <2>3 DEF d
    <3> QED
      BY <3>2, <3>3, <3>4, ServeKeeps
  <2> QED
    BY <1>4, <2>2, <2>3 DEF AskModel
<1>5. CASE RunUntrusted(c)
  BY <1>5, ReplyKeeps DEF RunUntrusted
<1>6. CASE Narrate(c)
  <2>1. [question |-> c.question, rows |-> c.more.rows].rows = c.more.rows
    OBVIOUS
  <2>2. db' = db
    BY <1>6 DEF Narrate
  <2>3. CASE Reply(c, 200, Nothing)
    BY <2>2, <2>3, ReplyKeeps
  <2>4. CASE Reply(c, 200, [question |-> c.question, rows |-> c.more.rows])
    BY <2>1, <2>2, <2>4, ReplyKeeps
  <2> QED
    BY <1>6, <2>3, <2>4 DEF Narrate
<1> QED
  BY <1>1, <1>2, <1>3, <1>4, <1>5, <1>6 DEF Serve

\* What happens elsewhere leaves the page and its calls alone.
LEMMA ElsewhereKeeps ==
  ASSUME AskInv, UNCHANGED <<calls, sent, page>>, db' \in Nat, enabled' \in BOOLEAN
  PROVE  AskInv'
<1>1. UNCHANGED <<calls, sent, last, asking, panel>>
  BY DEF page
<1>2. asking' \in BOOLEAN
  BY <1>1 DEF AskInv, TypeOK
<1>3. TypeOK'
  BY <1>1, <1>2 DEF AskInv, TypeOK
<1>4. Shapes' /\ Narrators' /\ NarrativeIsOfRows'
  BY <1>1 DEF AskInv, Shapes, Narrators, NarrativeIsOfRows
<1> QED
  BY <1>3, <1>4 DEF AskInv

LEMMA AskNext == AskInv /\ [Next]_vars => AskInv'
<1> SUFFICES ASSUME AskInv, [Next]_vars PROVE AskInv'
  OBVIOUS
<1>1. ASSUME NEW q \in DOMAIN Canned, NEW p \in Params, ClickCanned(q, p) PROVE AskInv'
  <2> DEFINE c == Call("canned", q, p)
  <2>1. Send(c) /\ last' = q /\ panel' = Waiting /\ asking' = asking
    BY <1>1 DEF ClickCanned
  <2>2. DOMAIN c = CallFields /\ c.id = sent + 1 /\ c.kind = "canned" /\ c.stage = "sent"
    BY CallShape
  <2>3. asking' \in BOOLEAN
    BY <2>1 DEF AskInv, TypeOK
  <2> HIDE DEF c
  <2> QED
    BY <2>1, <2>2, <2>3, ClickKeeps
<1>2. ASSUME NEW q \in Questions, SubmitAsk(q) PROVE AskInv'
  <2> DEFINE c == Call("ask", q, Nothing)
  <2>1. Send(c) /\ last' = q /\ panel' = Waiting /\ asking' = TRUE
    BY <1>2 DEF SubmitAsk
  <2>2. DOMAIN c = CallFields /\ c.id = sent + 1 /\ c.kind = "ask" /\ c.stage = "sent"
    BY CallShape
  <2>3. asking' \in BOOLEAN
    BY <2>1
  <2> HIDE DEF c
  <2> QED
    BY <2>1, <2>2, <2>3, ClickKeeps
<1>3. CASE Interpret
  BY <1>3, InterpretKeeps
<1>4. ASSUME NEW c \in calls, Serve(c) \/ Deliver(c) \/ Lose(c) PROVE AskInv'
  BY <1>4, ServerKeeps, ReceiveKeeps, ReceiveNarrativeKeeps, LoseKeeps DEF Deliver
<1>5. CASE Reload
  BY <1>5, ReloadKeeps
<1>6. CASE Load
  <2>1. UNCHANGED <<calls, sent, page, enabled>> /\ db' = db + 1 /\ db \in Nat
    BY <1>6 DEF Load, AskInv, TypeOK
  <2>2. db' \in Nat
    BY <2>1
  <2>3. enabled' \in BOOLEAN
    BY <2>1 DEF AskInv, TypeOK
  <2> QED
    BY <2>1, <2>2, <2>3, ElsewhereKeeps
<1>7. CASE Redeploy
  <2>1. UNCHANGED <<calls, sent, page>> /\ enabled' \in BOOLEAN /\ db' \in Nat
    BY <1>7 DEF Redeploy, AskInv, TypeOK
  <2> QED
    BY <2>1, ElsewhereKeeps
<1>8. CASE UNCHANGED vars
  <2>1. UNCHANGED <<calls, sent, page>> /\ enabled' \in BOOLEAN /\ db' \in Nat
    BY <1>8 DEF vars, AskInv, TypeOK
  <2> QED
    BY <2>1, ElsewhereKeeps
<1> QED
  BY <1>1, <1>2, <1>3, <1>4, <1>5, <1>6, <1>7, <1>8 DEF Next

-----------------------------------------------------------------------------

(***************************************************************************)
(* What is shown as the answer to a question passed the guard and the run, *)
(* and its warnings travelled with it from the guard to the panel.         *)
(***************************************************************************)
Reads(r) ==
  /\ r.statements = 1 /\ r.nodes \cup {r.top} \subseteq {"Select", "Union"}
  /\ \A t \in r.tables : t.schema = "" => t.name \in ReadOnlyTables \cup r.ctes
  /\ ~r.refuses

Vetted(r, warnings) == Reads(r) /\ r.fate \in {"rows", "none"} /\ warnings = Warnings(r)

Flagged(c) ==
  /\ c.kind = "canned" => c.question \notin Questions
  /\ c.kind = "ask" /\ c.stage = "accepted" =>
       c.more \in Replies /\ Reads(c.more) /\ c.warnings = Warnings(c.more)
  /\ c.kind = "ask" /\ c.stage = "done" /\ c.body # Nothing => Vetted(c.body.what, c.warnings)

PanelFlagged ==
  panel.kind = "rows" /\ panel.of \in Questions => Vetted(panel.rows.what, panel.warnings)

FlagInv == (\A c \in calls : Flagged(c)) /\ PanelFlagged

LEMMA FlagInit == Init => FlagInv
<1> SUFFICES ASSUME Init PROVE FlagInv
  OBVIOUS
<1>1. calls = {} /\ panel.kind = "blank"
  BY DEF Init, Blank
<1> QED
  BY <1>1 DEF FlagInv, PanelFlagged

\* A call that was just made, and a panel that shows no rows.
LEMMA FlagClick ==
  ASSUME FlagInv, NEW kind \in {"canned", "ask"}, NEW q, NEW more, Send(Call(kind, q, more)),
         kind = "canned" => q \notin Questions, panel' = Waiting
  PROVE  FlagInv'
<1> DEFINE c == Call(kind, q, more)
<1>1. c.kind = kind /\ c.question = q /\ c.stage = "sent"
  BY DEF Call
<1>2. Flagged(c)
  BY <1>1 DEF Flagged
<1>3. panel'.kind = "waiting"
  BY DEF Waiting, Blank
<1> HIDE DEF c
<1>4. calls' = calls \cup {c}
  BY DEF Send, c
<1> QED
  BY <1>2, <1>3, <1>4 DEF FlagInv, PanelFlagged, Flagged

\* A panel that changes its button and its narrative only.
LEMMA FlagSamePanel ==
  ASSUME FlagInv, NEW c, calls' \subseteq calls \cup {c}, Flagged(c),
         panel'.kind = panel.kind, panel'.of = panel.of, panel'.rows = panel.rows,
         panel'.warnings = panel.warnings
  PROVE  FlagInv'
<1>1. \A d \in calls' : Flagged(d)
  BY DEF FlagInv
<1> QED
  BY <1>1 DEF FlagInv, PanelFlagged, Flagged

\* What the guard accepts reads.
LEMMA AcceptedReads ==
  ASSUME NEW r, Accepted(r), Parses(r), ~Refuses(r)
  PROVE  Reads(r)
<1>1. ~r.refuses
  BY DEF Refuses
<1>2. \A t \in r.tables : t.schema = "" => t.name \in ReadOnlyTables \cup r.ctes
  BY DEF Accepted
<1>3. r.statements = 1 /\ r.nodes \cup {r.top} \subseteq {"Select", "Union"}
  BY DEF Accepted
<1> QED
  BY <1>1, <1>2, <1>3 DEF Reads

\* A reply that brings no rows, or rows that were vetted.
LEMMA FlagReply ==
  ASSUME AskInv, FlagInv, NEW c \in calls, NEW status, NEW body, Reply(c, status, body),
         c.kind = "ask" => body = Nothing \/ Vetted(body.what, c.warnings)
  PROVE  FlagInv'
<1> DEFINE d == [c EXCEPT !.stage = "done", !.status = status, !.body = body,
                          !.more = IF c.kind = "narrate" THEN @ ELSE Nothing]
<1>1. DOMAIN c = CallFields
  BY DEF AskInv, Shapes
<1>2. /\ d.kind = c.kind /\ d.question = c.question /\ d.warnings = c.warnings
      /\ d.stage = "done" /\ d.body = body
  BY <1>1 DEF CallFields
<1>3. Flagged(c)
  BY DEF FlagInv
<1> HIDE DEF d
<1>4. Flagged(d)
  BY <1>2, <1>3 DEF Flagged
<1>5. calls' = (calls \ {c}) \cup {d} /\ panel' = panel
  BY DEF Reply, Becomes, page, d
<1> QED
  BY <1>4, <1>5, FlagSamePanel

LEMMA FlagServer ==
  ASSUME AskInv, FlagInv, NEW c \in calls, Serve(c)
  PROVE  FlagInv'
<1>0. Flagged(c)
  BY DEF FlagInv
<1>1. CASE RunCanned(c)
  BY <1>1, FlagReply DEF RunCanned
<1>2. CASE AskDisabled(c) \/ AskThrottled(c)
  BY <1>2, FlagReply DEF AskDisabled, AskThrottled
<1>3. ASSUME NEW r \in Replies, AskModel(c, r) PROVE FlagInv'
  <2>1. CASE \E status : Reply(c, status, Nothing)
    BY <2>1, FlagReply
  <2>2. ASSUME Reads(r),
               Becomes(c, [c EXCEPT !.stage = "accepted", !.more = r, !.warnings = Warnings(r)])
        PROVE  FlagInv'
    <3> DEFINE d == [c EXCEPT !.stage = "accepted", !.more = r, !.warnings = Warnings(r)]
    <3>1. DOMAIN c = CallFields
      BY DEF AskInv, Shapes
    <3>2. /\ d.kind = c.kind /\ d.question = c.question
          /\ d.stage = "accepted" /\ d.more = r /\ d.warnings = Warnings(r)
      BY <3>1 DEF CallFields
    <3> HIDE DEF d
    <3>3. Flagged(d)
      BY <1>0, <2>2, <3>2 DEF Flagged
    <3>4. calls' = (calls \ {c}) \cup {d} /\ panel' = panel
      BY <2>2 DEF Becomes, page, d
    <3> QED
      BY <3>3, <3>4, FlagSamePanel
  <2>3. CASE Parses(r) /\ ~Refuses(r) /\ Accepted(r)
    BY <1>3, <2>1, <2>2, <2>3, AcceptedReads DEF AskModel
  <2> QED
    BY <1>3, <2>1, <2>3 DEF AskModel
<1>4. CASE RunUntrusted(c)
  <2>1. c.more \in Replies /\ Reads(c.more) /\ c.warnings = Warnings(c.more)
    BY <1>0, <1>4 DEF RunUntrusted, Flagged
  <2>2. \A some : Rows(c.more, some).what = c.more
    BY DEF Rows
  <2>3. c.more.fate \in {"rows", "none", "fails", "writes"}
    BY <2>1, AskFlowAssumption
  <2>4. CASE c.more.fate \in {"rows", "none"}
    <3>1. Vetted(c.more, c.warnings)
      BY <2>1, <2>4 DEF Vetted
    <3> QED
      BY <1>4, <2>2, <3>1, FlagReply DEF RunUntrusted
  <2>5. CASE c.more.fate \in {"fails", "writes"}
    BY <1>4, <2>5, FlagReply DEF RunUntrusted
  <2> QED
    BY <2>3, <2>4, <2>5
<1>5. CASE Narrate(c)
  BY <1>5, FlagReply DEF Narrate
<1> QED
  BY <1>1, <1>2, <1>3, <1>4, <1>5 DEF Serve

LEMMA FlagReceive ==
  ASSUME AskInv, FlagInv, NEW c \in calls, Receive(c)
  PROVE  FlagInv'
<1>1. /\ c.kind # "narrate" /\ c.stage = "done" /\ calls' = calls \ {c}
      /\ panel' = IF c.status = 200 /\ c.body = Nothing THEN Error ELSE Shown(c)
  BY DEF Receive, Answered
<1>2. Flagged(c) /\ c.kind \in {"canned", "ask", "narrate"}
  BY DEF FlagInv, AskInv, Shapes
<1>3. PanelFlagged'
  <2>1. CASE panel' = Error
    BY <2>1 DEF Error, Blank, PanelFlagged
  <2>2. CASE panel' # Error
    <3>1. c.status = 200 /\ c.body # Nothing
      BY <1>1, <2>2 DEF Shown
    <3>2. panel'.of = c.question /\ panel'.rows = c.body /\ panel'.warnings = c.warnings
      BY <1>1, <3>1 DEF Shown
    <3> QED
      BY <1>1, <1>2, <3>1, <3>2 DEF PanelFlagged, Flagged
  <2> QED
    BY <2>1, <2>2
<1> QED
  BY <1>1, <1>3 DEF FlagInv, Flagged

LEMMA FlagNarrative ==
  ASSUME AskInv, FlagInv, NEW c \in calls, ReceiveNarrative(c)
  PROVE  FlagInv'
<1>1. DOMAIN panel = PanelFields
  BY DEF AskInv, Shapes
<1>2. /\ calls' = calls \ {c}
      /\ panel'.kind = panel.kind /\ panel'.of = panel.of /\ panel'.rows = panel.rows
      /\ panel'.warnings = panel.warnings
  BY <1>1 DEF ReceiveNarrative, PanelFields
<1>3. Flagged(c)
  BY DEF FlagInv
<1> QED
  BY <1>2, <1>3, FlagSamePanel

LEMMA FlagInterpret == AskInv /\ FlagInv /\ Interpret => FlagInv'
<1> SUFFICES ASSUME AskInv, FlagInv, Interpret PROVE FlagInv'
  OBVIOUS
<1> DEFINE c == Call("narrate", last, [rows |-> panel.rows, slot |-> panel.id])
<1>1. DOMAIN panel = PanelFields
  BY DEF AskInv, Shapes
<1>2. /\ panel'.kind = panel.kind /\ panel'.of = panel.of /\ panel'.rows = panel.rows
      /\ panel'.warnings = panel.warnings
  BY <1>1 DEF Interpret, PanelFields
<1>3. Flagged(c)
  BY DEF Flagged, Call
<1> HIDE DEF c
<1>4. calls' = calls \cup {c}
  BY DEF Interpret, Send, c
<1> QED
  BY <1>2, <1>3, <1>4, FlagSamePanel

LEMMA FlagNext == AskInv /\ FlagInv /\ [Next]_vars => FlagInv'
<1> SUFFICES ASSUME AskInv, FlagInv, [Next]_vars PROVE FlagInv'
  OBVIOUS
<1>1. ASSUME NEW q \in DOMAIN Canned, NEW p \in Params, ClickCanned(q, p) PROVE FlagInv'
  <2>1. q \notin Questions
    BY AskFlowAssumption
  <2> QED
    BY <1>1, <2>1, FlagClick DEF ClickCanned
<1>2. ASSUME NEW q \in Questions, SubmitAsk(q) PROVE FlagInv'
  BY <1>2, FlagClick DEF SubmitAsk
<1>3. CASE Interpret
  BY <1>3, FlagInterpret
<1>4. ASSUME NEW c \in calls, Serve(c) \/ Deliver(c) \/ Lose(c) PROVE FlagInv'
  <2>1. CASE Lose(c)
    BY <2>1 DEF Lose, page, FlagInv, PanelFlagged, Flagged
  <2> QED
    BY <1>4, <2>1, FlagServer, FlagReceive, FlagNarrative DEF Deliver
<1>5. CASE Reload
  BY <1>5 DEF Reload, FlagInv, PanelFlagged, Blank
<1>6. CASE Load \/ Redeploy \/ UNCHANGED vars
  BY <1>6 DEF Load, Redeploy, vars, page, FlagInv, PanelFlagged, Flagged
<1> QED
  BY <1>1, <1>2, <1>3, <1>4, <1>5, <1>6 DEF Next

-----------------------------------------------------------------------------

\* The inductive invariant: what the calls under way know of the panel.
THEOREM AskInvariant == Spec => []AskInv
BY AskInit, AskNext, PTL DEF Spec

\* Types of the model.
THEOREM TypeCorrect == Spec => []TypeOK
<1>1. AskInv => TypeOK
  BY DEF AskInv
<1> QED
  BY <1>1, AskInvariant, PTL

\* No narrative is shown under the rows of another answer, whatever the user clicks
\* while it is written and however late it arrives.
THEOREM NarrativeStaysWithRows == Spec => []NarrativeIsOfRows
<1>1. AskInv => NarrativeIsOfRows
  BY DEF AskInv
<1> QED
  BY <1>1, AskInvariant, PTL

\* Rows stand as the answer to a free question only if the guard accepted the statement,
\* the database read them for it, and its warnings stand above them, whichever answers the
\* page received in between and in whatever order.
THEOREM AnswersStayVetted == Spec => []AnswersAreVetted
<1>1. FlagInv => AnswersAreVetted
  BY DEF FlagInv, PanelFlagged, Vetted, Reads, AnswersAreVetted
<1>2. Spec => []FlagInv
  BY AskInvariant, FlagInit, FlagNext, PTL DEF Spec
<1> QED
  BY <1>1, <1>2, PTL

-----------------------------------------------------------------------------

(***************************************************************************)
(* One free question at a time.                                            *)
(***************************************************************************)

LEMMA AskedInit == Init => OneQuestionAsked
BY DEF Init, OneQuestionAsked

\* The server works on a call, which stays of its kind.
LEMMA AskedServe ==
  ASSUME AskInv, OneQuestionAsked, NEW c \in calls, Serve(c)
  PROVE  OneQuestionAsked'
<1>1. DOMAIN c = CallFields
  BY DEF AskInv, Shapes
<1>2. ASSUME NEW status, NEW body, Reply(c, status, body)
      PROVE  \E d : d.kind = c.kind /\ Becomes(c, d)
  <2> DEFINE d == [c EXCEPT !.stage = "done", !.status = status, !.body = body,
                            !.more = IF c.kind = "narrate" THEN @ ELSE Nothing]
  <2>1. d.kind = c.kind
    BY <1>1 DEF CallFields
  <2>2. Becomes(c, d)
    BY <1>2 DEF Reply
  <2> HIDE DEF d
  <2> QED
    BY <2>1, <2>2
<1>3. ASSUME NEW r \in Replies, AskModel(c, r)
      PROVE  \E d : d.kind = c.kind /\ Becomes(c, d)
  <2> DEFINE d == [c EXCEPT !.stage = "accepted", !.more = r, !.warnings = Warnings(r)]
  <2>1. d.kind = c.kind
    BY <1>1 DEF CallFields
  <2>2. Becomes(c, d) \/ \E status, body : Reply(c, status, body)
    BY <1>3 DEF AskModel
  <2> HIDE DEF d
  <2> QED
    BY <1>2, <2>1, <2>2
<1>4. PICK d : d.kind = c.kind /\ Becomes(c, d)
  BY <1>2, <1>3 DEF Serve, RunCanned, AskDisabled, AskThrottled, RunUntrusted, Narrate
<1>5. calls' = (calls \ {c}) \cup {d} /\ asking' = asking /\ lost' = lost
  BY <1>4 DEF Becomes, page
<1> QED
  BY <1>4, <1>5 DEF OneQuestionAsked

LEMMA AskedNext == AskInv /\ OneQuestionAsked /\ [Next]_vars => OneQuestionAsked'
<1> SUFFICES ASSUME AskInv, OneQuestionAsked, [Next]_vars PROVE OneQuestionAsked'
  OBVIOUS
<1>1. ASSUME NEW q \in DOMAIN Canned, NEW p \in Params, ClickCanned(q, p)
      PROVE  OneQuestionAsked'
  <2>1. Call("canned", q, p).kind = "canned"
    BY DEF Call
  <2> QED
    BY <1>1, <2>1 DEF ClickCanned, Send, OneQuestionAsked
<1>2. ASSUME NEW q \in Questions, SubmitAsk(q) PROVE OneQuestionAsked'
  <2>1. Call("ask", q, Nothing).kind = "ask"
    BY DEF Call
  <2> QED
    BY <1>2, <2>1 DEF SubmitAsk, Send, OneQuestionAsked
<1>3. CASE Interpret
  <2> DEFINE c == Call("narrate", last, [rows |-> panel.rows, slot |-> panel.id])
  <2>1. c.kind = "narrate"
    BY DEF Call
  <2>2. calls' = calls \cup {c} /\ asking' = asking /\ lost' = lost
    BY <1>3 DEF Interpret, Send
  <2> HIDE DEF c
  <2> QED
    BY <2>1, <2>2 DEF OneQuestionAsked
<1>4. ASSUME NEW c \in calls, Serve(c) \/ Deliver(c) \/ Lose(c) PROVE OneQuestionAsked'
  <2>1. CASE Receive(c)
    BY <2>1 DEF Receive, OneQuestionAsked
  <2>2. CASE ReceiveNarrative(c)
    BY <2>2 DEF ReceiveNarrative, OneQuestionAsked
  <2>3. CASE Lose(c)
    BY <2>3 DEF Lose, page, OneQuestionAsked
  <2> QED
    BY <1>4, <2>1, <2>2, <2>3, AskedServe DEF Deliver
<1>5. CASE Reload
  BY <1>5 DEF Reload, OneQuestionAsked
<1>6. CASE Load \/ Redeploy \/ UNCHANGED vars
  BY <1>6 DEF Load, Redeploy, vars, page, OneQuestionAsked
<1> QED
  BY <1>1, <1>2, <1>3, <1>4, <1>5, <1>6 DEF Next

\* However many canned queries and narratives come and go meanwhile, the model is never
\* asked a second question by a page that waits for its answer to the first.
THEOREM OneQuestionAtATime == Spec => []OneQuestionAsked
BY AskInvariant, AskedInit, AskedNext, PTL DEF Spec

-----------------------------------------------------------------------------

(***************************************************************************)
(* Whose question a narrator is given.                                     *)
(***************************************************************************)

\* The user waits for the answer to a question before putting another.
OneQuestion == \A c, d \in calls : c.kind # "narrate" /\ d.kind # "narrate" => c = d

\* The question under way is the page's last one, and a narrator that is at work on the
\* panel, or done, was given the panel's own.
Asked(c) ==
  /\ c.kind # "narrate" => c.question = last
  /\ c.kind = "narrate" /\ c.more.slot = panel.id => c.question = panel.of
  /\ c.kind = "narrate" /\ c.stage = "done" /\ c.body # Nothing => c.body.question = c.question

QuestionInv ==
  /\ \A c \in calls : Asked(c)
  /\ panel.kind = "rows" => panel.of = last
  /\ NarrativeAnswersQuestion

LEMMA QuestionInit == Init => QuestionInv
<1> SUFFICES ASSUME Init PROVE QuestionInv
  OBVIOUS
<1>1. calls = {} /\ panel.kind = "blank" /\ panel.narrative = Nothing
  BY DEF Init, Blank
<1> QED
  BY <1>1 DEF QuestionInv, NarrativeAnswersQuestion

LEMMA QuestionClick ==
  ASSUME AskInv, QuestionInv, OneQuestion', NEW kind \in {"canned", "ask"}, NEW q, NEW more,
         Send(Call(kind, q, more)), panel' = Waiting, last' = q
  PROVE  QuestionInv'
<1> DEFINE c == Call(kind, q, more)
<1>1. c.kind = kind /\ c.question = q /\ c.kind # "narrate"
  BY DEF Call
<1>2. panel'.kind = "waiting" /\ panel'.id = 0 /\ panel'.narrative = Nothing
  BY DEF Waiting, Blank
<1> HIDE DEF c
<1>3. calls' = calls \cup {c}
  BY DEF Send, c
<1>4. ASSUME NEW d \in calls' PROVE Asked(d)'
  <2>1. CASE d.kind # "narrate"
    <3>1. d = c
      BY <1>1, <1>3, <2>1 DEF OneQuestion
    <3> QED
      BY <1>1, <2>1, <3>1 DEF Asked
  <2>2. CASE d.kind = "narrate"
    <3>1. d \in calls /\ Asked(d)
      BY <1>1, <1>3, <2>2 DEF QuestionInv
    <3>2. d.more.slot \in 1..sent
      BY <2>2, <3>1 DEF AskInv, Narrators
    <3>3. d.more.slot # panel'.id
      <4>1. 0 \notin 1..sent
        OBVIOUS
      <4> QED
        BY <1>2, <3>2, <4>1
    <3> QED
      BY <2>2, <3>1, <3>3 DEF Asked
  <2> QED
    BY <2>1, <2>2
<1> QED
  BY <1>2, <1>4 DEF QuestionInv, NarrativeAnswersQuestion

\* A call that goes or is answered, while the panel is left alone.
LEMMA QuestionSamePanel ==
  ASSUME QuestionInv, NEW c, calls' \subseteq calls \cup {c}, Asked(c),
         last' = last, panel'.kind = panel.kind, panel'.of = panel.of, panel'.id = panel.id,
         panel'.narrative = panel.narrative \/ panel'.narrative.question = panel.of
  PROVE  QuestionInv'
<1>1. \A d \in calls' : Asked(d)
  BY DEF QuestionInv
<1>2. \A d \in calls' : Asked(d)'
  BY <1>1 DEF Asked
<1> QED
  BY <1>2 DEF QuestionInv, NarrativeAnswersQuestion

LEMMA QuestionReply ==
  ASSUME AskInv, QuestionInv, NEW c \in calls, NEW status, NEW body, Reply(c, status, body),
         c.kind = "narrate" /\ body # Nothing => body.question = c.question
  PROVE  QuestionInv'
<1> DEFINE d == [c EXCEPT !.stage = "done", !.status = status, !.body = body,
                          !.more = IF c.kind = "narrate" THEN @ ELSE Nothing]
<1>1. DOMAIN c = CallFields
  BY DEF AskInv, Shapes
<1>2. /\ d.kind = c.kind /\ d.question = c.question /\ d.body = body
      /\ c.kind = "narrate" => d.more = c.more
  BY <1>1 DEF CallFields
<1>3. Asked(c)
  BY DEF QuestionInv
<1> HIDE DEF d
<1>4. Asked(d)
  BY <1>2, <1>3 DEF Asked
<1>5. calls' = (calls \ {c}) \cup {d} /\ panel' = panel /\ last' = last
  BY DEF Reply, Becomes, page, d
<1> QED
  BY <1>4, <1>5, QuestionSamePanel

LEMMA QuestionServer ==
  ASSUME AskInv, QuestionInv, NEW c \in calls, Serve(c)
  PROVE  QuestionInv'
<1>1. CASE RunCanned(c)
  BY <1>1, QuestionReply DEF RunCanned
<1>2. CASE AskDisabled(c) \/ AskThrottled(c)
  BY <1>2, QuestionReply DEF AskDisabled, AskThrottled
<1>3. ASSUME NEW r \in Replies, AskModel(c, r) PROVE QuestionInv'
  <2>1. CASE \E status : Reply(c, status, Nothing)
    BY <2>1, QuestionReply
  <2>2. CASE Becomes(c, [c EXCEPT !.stage = "accepted", !.more = r, !.warnings = Warnings(r)])
    <3> DEFINE d == [c EXCEPT !.stage = "accepted", !.more = r, !.warnings = Warnings(r)]
    <3>1. DOMAIN c = CallFields /\ c.kind = "ask" /\ Asked(c)
      BY <1>3 DEF AskInv, Shapes, AskModel, QuestionInv
    <3>2. d.kind = "ask" /\ d.question = c.question
      BY <3>1 DEF CallFields
    <3> HIDE DEF d
    <3>3. Asked(d)
      BY <3>1, <3>2 DEF Asked
    <3>4. calls' = (calls \ {c}) \cup {d} /\ panel' = panel /\ last' = last
      BY <2>2 DEF Becomes, page, d
    <3> QED
      BY <3>3, <3>4, QuestionSamePanel
  <2> QED
    BY <1>3, <2>1, <2>2 DEF AskModel
<1>4. CASE RunUntrusted(c)
  BY <1>4, QuestionReply DEF RunUntrusted
<1>5. CASE Narrate(c)
  <2>1. \A rows : [question |-> c.question, rows |-> rows].question = c.question
    OBVIOUS
  <2> QED
    BY <1>5, <2>1, QuestionReply DEF Narrate
<1> QED
  BY <1>1, <1>2, <1>3, <1>4, <1>5 DEF Serve

LEMMA QuestionReceive ==
  ASSUME AskInv, QuestionInv, NEW c \in calls, Receive(c)
  PROVE  QuestionInv'
<1>1. /\ c.kind # "narrate" /\ calls' = calls \ {c} /\ last' = last
      /\ panel' = IF c.status = 200 /\ c.body = Nothing THEN Error ELSE Shown(c)
  BY DEF Receive
<1>2. panel'.id \in {0, c.id} /\ panel'.narrative = Nothing
  BY <1>1, ShownPanel
<1>3. c.question = last
  BY <1>1 DEF QuestionInv, Asked
<1>4. panel'.kind = "rows" => panel'.of = last
  <2>1. CASE panel' = Error
    BY <2>1 DEF Error, Blank
  <2>2. CASE panel' # Error
    BY <1>1, <1>3, <2>2 DEF Shown
  <2> QED
    BY <2>1, <2>2
<1>5. ASSUME NEW d \in calls' PROVE Asked(d)'
  <2>1. d \in calls /\ Asked(d)
    BY <1>1 DEF QuestionInv
  <2>2. d.kind = "narrate" => d.more.slot # panel'.id
    <3>1. d.kind = "narrate" => d.more.slot \in 1..sent /\ c.id # d.more.slot
      BY <1>1, <2>1 DEF AskInv, Narrators
    <3>2. 0 \notin 1..sent
      OBVIOUS
    <3> QED
      BY <1>2, <3>1, <3>2
  <2> QED
    BY <1>1, <2>1, <2>2 DEF Asked
<1> QED
  BY <1>1, <1>2, <1>4, <1>5 DEF QuestionInv, NarrativeAnswersQuestion

LEMMA QuestionNarrative ==
  ASSUME AskInv, QuestionInv, NEW c \in calls, ReceiveNarrative(c)
  PROVE  QuestionInv'
<1>1. DOMAIN panel = PanelFields /\ Asked(c)
  BY DEF AskInv, Shapes, QuestionInv
<1>2. /\ c.kind = "narrate" /\ c.stage = "done" /\ calls' = calls \ {c} /\ last' = last
      /\ panel' = IF panel.id # c.more.slot THEN panel
                  ELSE IF c.body = Nothing THEN [panel EXCEPT !.button = "ready"]
                  ELSE [panel EXCEPT !.button = "none", !.narrative = c.body]
  BY DEF ReceiveNarrative, Answered
<1>3. /\ panel'.kind = panel.kind /\ panel'.of = panel.of /\ panel'.id = panel.id
      /\ panel'.narrative = panel.narrative
           \/ /\ panel.id = c.more.slot /\ c.body # Nothing
              /\ panel'.narrative = c.body
  BY <1>1, <1>2 DEF PanelFields
<1>4. panel.id = c.more.slot /\ c.body # Nothing => c.body.question = panel.of
  BY <1>1, <1>2 DEF Asked
<1>5. panel'.narrative = panel.narrative \/ panel'.narrative.question = panel.of
  BY <1>3, <1>4
<1> QED
  BY <1>1, <1>2, <1>3, <1>5, QuestionSamePanel

LEMMA QuestionInterpret == AskInv /\ QuestionInv /\ Interpret => QuestionInv'
<1> SUFFICES ASSUME AskInv, QuestionInv, Interpret PROVE QuestionInv'
  OBVIOUS
<1> DEFINE c == Call("narrate", last, [rows |-> panel.rows, slot |-> panel.id])
<1>1. DOMAIN panel = PanelFields /\ panel.kind = "rows"
  BY DEF AskInv, Shapes, Interpret
<1>2. /\ panel'.kind = panel.kind /\ panel'.of = panel.of /\ panel'.id = panel.id
      /\ panel'.narrative = panel.narrative /\ last' = last
  BY <1>1 DEF Interpret, PanelFields
<1>3. c.kind = "narrate" /\ c.question = last /\ c.stage = "sent"
  BY DEF Call
<1> HIDE DEF c
<1>4. Asked(c)
  BY <1>1, <1>3 DEF Asked, QuestionInv
<1>5. calls' = calls \cup {c}
  BY DEF Interpret, Send, c
<1> QED
  BY <1>2, <1>4, <1>5, QuestionSamePanel

LEMMA QuestionNext == AskInv /\ QuestionInv /\ OneQuestion' /\ [Next]_vars => QuestionInv'
<1> SUFFICES ASSUME AskInv, QuestionInv, OneQuestion', [Next]_vars PROVE QuestionInv'
  OBVIOUS
<1>1. ASSUME NEW q \in DOMAIN Canned, NEW p \in Params, ClickCanned(q, p) PROVE QuestionInv'
  BY <1>1, QuestionClick DEF ClickCanned
<1>2. ASSUME NEW q \in Questions, SubmitAsk(q) PROVE QuestionInv'
  BY <1>2, QuestionClick DEF SubmitAsk
<1>3. CASE Interpret
  BY <1>3, QuestionInterpret
<1>4. ASSUME NEW c \in calls, Serve(c) \/ Deliver(c) \/ Lose(c) PROVE QuestionInv'
  <2>1. CASE Lose(c)
    <3>1. calls' = calls \ {c} /\ panel' = panel /\ last' = last /\ Asked(c)
      BY <2>1 DEF Lose, page, QuestionInv
    <3> QED
      BY <3>1, QuestionSamePanel
  <2> QED
    BY <1>4, <2>1, QuestionServer, QuestionReceive, QuestionNarrative DEF Deliver
<1>5. CASE Reload
  BY <1>5 DEF Reload, QuestionInv, NarrativeAnswersQuestion, Blank
<1>6. CASE Load \/ Redeploy \/ UNCHANGED vars
  <2>1. UNCHANGED <<calls, panel, last>>
    BY <1>6 DEF Load, Redeploy, vars, page
  <2> QED
    BY <2>1 DEF QuestionInv, NarrativeAnswersQuestion, Asked
<1> QED
  BY <1>1, <1>2, <1>3, <1>4, <1>5, <1>6 DEF Next

\* A narrator is given the question that its rows answer, as long as no question is put
\* while another is under way.  When one is, it need not be: AskFlow_promises shows it.
THEOREM OneAtATimeIsNarrated == Spec /\ []OneQuestion => []NarrativeAnswersQuestion
<1>1. QuestionInv => NarrativeAnswersQuestion
  BY DEF QuestionInv
<1> QED
  BY <1>1, AskInvariant, QuestionInit, QuestionNext, PTL DEF Spec

====
