----------------------------- MODULE ScoringScreen -----------------------------
(***************************************************************************)
(* The assessor's scoring page (public/js/views/assessor.js) with its save *)
(* queue (public/js/score-save-queue.js) and the two handlers it calls     *)
(* (api/handlers/assessor.mjs).  Every edit of a mark or comment is saved  *)
(* at once, one request at a time; a request that takes too long is given  *)
(* up, wherever it then is (public/js/api.js).                             *)
(*                                                                         *)
(* A mark is the number of the edit that made it; 0 is no mark.            *)
(***************************************************************************)
EXTENDS Naturals, Sequences, SequencesExt

CONSTANTS
  OpenItems,     \* the open questions of the paper, 1..n
  InOrder,       \* the requests of one paper are served as they came: one process
  MaxEdits,      \* bound: edits
  MaxTroubles    \* bound: requests that fail or are given up, and restarts

ASSUME ScoringAssumption ==
  /\ OpenItems \subseteq Nat \ {0} /\ InOrder \in BOOLEAN
  /\ MaxEdits \in Nat /\ MaxTroubles \in Nat

VARIABLES
  form,     \* the page: [marks, blanks: the edits that emptied a field, edits, step]
  saves,     \* the queue: [line: saves under way and waiting, failed: questions whose
             \* latest save failed]
  call,      \* the request the page waits for, and its answer
  inbox,     \* requests that reached the server
  stored,    \* the marks in the table
  issued,    \* the report: <<>>, or <<the marks it has>>
  pressed,   \* history: what the page showed when it asked for the report
  troubles

scoringVars == <<form, saves, call, inbox, stored, issued, pressed, troubles>>

Unmarked == [q \in OpenItems |-> 0]
NoCall == [kind |-> "none", answer |-> "none"]

ScoringInit ==
  /\ form = [marks |-> Unmarked, blanks |-> {}, edits |-> 0, step |-> "editing"]
  /\ saves = [line |-> << >>, failed |-> {}]
  /\ call = NoCall /\ inbox = << >>
  /\ stored = Unmarked /\ issued = << >>
  /\ pressed = {} /\ troubles = 0

IsMark(m) == m # 0 /\ m \notin form.blanks
AllMarked(marks) == \A q \in OpenItems : IsMark(marks[q])

----------------------------------------------------------------------------
(* The queue *)

Save(q, m) == [q |-> q, mark |-> m]
Superseded(q) == \E k \in 2..Len(saves.line) : saves.line[k].q = q

\* What the page calls "All changes saved".
AllSaved == saves.line = << >> /\ saves.failed = {}

\* Controls are disabled while the report is asked for.
Editable == form.step \in {"editing", "confirming", "closing"}

Enqueue(q, m) == [line |-> Append(saves.line, Save(q, m)), failed |-> saves.failed \ {q}]

Edit ==
  /\ Editable /\ form.edits < MaxEdits
  /\ \E q \in OpenItems, blank \in BOOLEAN :
       LET m == form.edits + 1 IN
       /\ form' = [form EXCEPT !.marks[q] = m, !.edits = m,
                                 !.blanks = IF blank THEN @ \cup {m} ELSE @]
       /\ saves' = Enqueue(q, m)
  /\ UNCHANGED <<call, inbox, stored, issued, pressed, troubles>>

\* The button is there when nothing is pending.
RetrySaves ==
  /\ Editable /\ saves.line = << >> /\ saves.failed # {}
  /\ saves' = [line |-> [k \in DOMAIN SetToSeq(saves.failed) |->
                           LET q == SetToSeq(saves.failed)[k] IN Save(q, form.marks[q])],
               failed |-> {}]
  /\ UNCHANGED <<form, call, inbox, stored, issued, pressed, troubles>>

\* A request leaves the page; it may never arrive.
Dispatch(request) ==
  /\ call' = [kind |-> request.kind, answer |-> "none"]
  /\ inbox' \in {inbox, Append(inbox, request)}

SendSave ==
  /\ saves.line # << >> /\ call.kind = "none"
  /\ Dispatch([kind |-> "score", save |-> Head(saves.line), awaited |-> TRUE])
  /\ UNCHANGED <<form, saves, stored, issued, pressed, troubles>>

\* Faulty variant of AfterSave: a save that failed is forgotten.
FaultyAfterSave(q, done) == saves.failed

\* The questions not saved once the first save of the line has ended.
AfterSave(q, done) == IF done \/ Superseded(q) THEN saves.failed ELSE saves.failed \cup {q}

SaveEnds(done) ==
  saves' = [line |-> Tail(saves.line), failed |-> AfterSave(Head(saves.line).q, done)]

SaveAnswered ==
  /\ call.kind = "score" /\ call.answer # "none"
  /\ SaveEnds(call.answer = "ok") /\ call' = NoCall
  /\ UNCHANGED <<form, inbox, stored, issued, pressed, troubles>>

----------------------------------------------------------------------------
(* Finalizing *)

\* The button is disabled while anything is pending or failed.
PressFinalize ==
  /\ form.step = "editing" /\ AllSaved /\ AllMarked(form.marks)
  /\ form' = [form EXCEPT !.step = "confirming"]
  /\ UNCHANGED <<saves, call, inbox, stored, issued, pressed, troubles>>

AnswerDialog ==
  /\ form.step = "confirming"
  /\ \E yes \in BOOLEAN : form' = [form EXCEPT !.step = IF yes THEN "closing" ELSE "editing"]
  /\ UNCHANGED <<saves, call, inbox, stored, issued, pressed, troubles>>

\* Faulty variant: the second flush is left out.
FaultyFlushed == call.kind = "none"

\* flush: nothing is under way or waiting.
Flushed == saves.line = << >>

\* The second flush, then the request for the report.
AskForReport ==
  /\ form.step = "closing" /\ Flushed
  /\ IF saves.failed # {}
     THEN form' = [form EXCEPT !.step = "editing"] /\ UNCHANGED <<call, inbox, pressed>>
     ELSE /\ form' = [form EXCEPT !.step = "asking"]
          /\ Dispatch([kind |-> "finalize", awaited |-> TRUE])
          /\ pressed' = pressed \cup {form.marks}
  /\ UNCHANGED <<saves, stored, issued, troubles>>

ReportAnswered ==
  /\ call.kind = "finalize" /\ call.answer # "none"
  /\ form' = [form EXCEPT !.step = IF call.answer = "ok" THEN "report" ELSE "editing"]
  /\ call' = NoCall
  /\ UNCHANGED <<saves, inbox, stored, issued, pressed, troubles>>

\* The request takes too long or its answer is lost: for the page it has failed.
GiveUpCall ==
  /\ call.kind # "none" /\ troubles < MaxTroubles
  /\ troubles' = troubles + 1 /\ call' = NoCall
  /\ inbox' = [k \in DOMAIN inbox |-> [inbox[k] EXCEPT !.awaited = FALSE]]
  /\ \/ call.kind = "score" /\ SaveEnds(FALSE) /\ UNCHANGED form
     \/ call.kind = "finalize" /\ form' = [form EXCEPT !.step = "editing"] /\ UNCHANGED saves
  /\ UNCHANGED <<stored, issued, pressed>>

----------------------------------------------------------------------------
(* The server *)

Takes(k) == k \in DOMAIN inbox /\ (InOrder => k = 1)
Answer(r, what) == call' = IF r.awaited THEN [call EXCEPT !.answer = what] ELSE call

\* PUT scores: an empty mark clears the stored one.
ServeScore ==
  \E k \in DOMAIN inbox :
    LET r == inbox[k] IN
    /\ Takes(k) /\ r.kind = "score"
    /\ inbox' = RemoveAt(inbox, k)
    /\ IF issued = << >>
       THEN stored' = [stored EXCEPT ![r.save.q] = r.save.mark] /\ Answer(r, "ok")
       ELSE UNCHANGED stored /\ Answer(r, "refused")
    /\ UNCHANGED <<form, saves, issued, pressed, troubles>>

\* POST finalize, retry_safe: the report is written once; asked for again it is answered.
ServeFinalize ==
  \E k \in DOMAIN inbox :
    LET r == inbox[k] IN
    /\ Takes(k) /\ r.kind = "finalize"
    /\ inbox' = RemoveAt(inbox, k)
    /\ IF issued # << >> THEN UNCHANGED issued /\ Answer(r, "ok")
       ELSE IF ~AllMarked(stored) THEN UNCHANGED issued /\ Answer(r, "refused")
       ELSE issued' = <<stored>> /\ Answer(r, "ok")
    /\ UNCHANGED <<form, saves, stored, pressed, troubles>>

\* A storage call fails before anything is written, or after the report is.
ServeFails ==
  \E k \in DOMAIN inbox :
    LET r == inbox[k] IN
    /\ Takes(k) /\ troubles < MaxTroubles
    /\ troubles' = troubles + 1
    /\ inbox' = RemoveAt(inbox, k)
    /\ Answer(r, "failed")
    /\ \/ UNCHANGED issued
       \/ r.kind = "finalize" /\ issued = << >> /\ AllMarked(stored) /\ issued' = <<stored>>
    /\ UNCHANGED <<form, saves, stored, pressed>>

\* What had arrived is gone with the process.
RestartServer ==
  /\ inbox # << >> /\ troubles < MaxTroubles
  /\ troubles' = troubles + 1 /\ inbox' = << >>
  /\ UNCHANGED <<form, saves, call, stored, issued, pressed>>

ScoringNext ==
  \/ Edit \/ RetrySaves \/ SendSave \/ SaveAnswered
  \/ PressFinalize \/ AnswerDialog \/ AskForReport \/ ReportAnswered \/ GiveUpCall
  \/ ServeScore \/ ServeFinalize \/ ServeFails \/ RestartServer

ScoringSpec == ScoringInit /\ [][ScoringNext]_scoringVars

----------------------------------------------------------------------------
(* Properties *)

\* While the page says that all changes are saved the table has the marks it shows,
\* whatever was given up before (assessor.js:214-222, score-save-queue.js).
SavedMeansStored == AllSaved => stored = form.marks

\* The report has the marks the page showed when the assessor asked for it, all of them
\* real, and the page shows a report only when there is one (assessor.js:273-297).
ReportIsConfirmed ==
  /\ \A k \in DOMAIN issued : issued[k] \in pressed /\ AllMarked(issued[k])
  /\ form.step = "report" => issued # << >>

=============================================================================
