------------------------------ MODULE ExamHall ------------------------------
(***************************************************************************)
(* One assessment while it is sat, closed and scored: the exam routes of   *)
(* src/api/handlers/candidate.mjs, the expiry rule of exam-expiry.mjs, the *)
(* quiz state of quiz-session.mjs and the scoring routes of assessor.mjs,  *)
(* interleaved storage call by storage call.                               *)
(*                                                                         *)
(* A function instance runs at most one exam or scoring request of the     *)
(* paper at a time (withLock on "assessment:<id>" is a per-process lock),  *)
(* so an instance is a slot that holds one request.  The listing screens   *)
(* call expireExam outside that lock: they run in slots of their own,      *)
(* Sweepers.  A request reads the assessment, then goes on in steps, each  *)
(* one storage call that is atomic because the store re-runs the decision  *)
(* on the row that is current when the write lands (module BlobTable).     *)
(* Between two steps any other slot may run and the instance may die; a    *)
(* client retry is a new request.                                          *)
(***************************************************************************)
EXTENDS Integers

CONSTANTS
  Instances,   \* function instances (or the single server process)
  Sweepers,    \* requests of listing screens, which hold no assessment lock
  N,           \* number of questions of the paper, numbered 0..N-1
  Kind,        \* Kind[q]: "auto" (scored from its key) or "open" (spoken, marked by hand)
  Answers,     \* non-blank answers
  Silent,      \* the answers that carry typed notes and no recording
  Blank,       \* a stored answer without content
  Nothing,     \* no row, no posted answer, no score
  Scheduled,   \* is the paper a booked exam (booking_id and scheduled_at)?
  Ops,         \* the requests clients send in this instance of the model
  Timed,       \* the questions whose time may run out in this instance
  MaxBeacons   \* bound: no new integrity beacon once this many are recorded

Questions == 0..(N-1)
Slots == Instances \cup Sweepers

ASSUME PaperAssumption ==
  /\ N \in Nat \ {0}
  /\ Kind \in [0..(N-1) -> {"auto", "open"}]

ASSUME AnswerAssumption ==
  /\ Blank \notin Answers /\ Nothing \notin Answers /\ Blank # Nothing
  /\ Silent \subseteq Answers

ASSUME EnvironmentAssumption ==
  /\ Scheduled \in BOOLEAN
  /\ MaxBeacons \in Nat
  /\ Timed \subseteq 0..(N-1)
  /\ Ops \subseteq {"get", "draft", "beacon", "phase", "next", "submit", "marks", "finalize"}

VARIABLES
  row,         \* the assessment row
  responses,   \* the response row of each question
  report,      \* report_json: for each question the answer it was computed from
  booking,     \* status of the test booking: "none", "booked" or "cancelled"
  hour,        \* wall clock against the exam window: "before", "during" or "after"
  req,         \* req[s]: the request slot s is working on
  starts,      \* history: how often the clock of each question and phase was started
  begun,       \* history: how often started_at was written
  heard,       \* history: integrity beacons answered with success
  overran      \* history: of each question and phase, whether its time was over when it
               \* was left ("due": the trail has to say so), and whether the request
               \* that knew it was not the one that moved the cursor ("lost")

vars == <<row, responses, report, booking, hour, req, starts, begun, heard, overran>>

----------------------------------------------------------------------------
(* Data *)

Status == {"assigned", "in_progress", "submitted", "scored", "cancelled"}
Phases == {"review", "answer"}

\* An assessment: its status, whether started_at is set, and its quiz_state.
\* `opened` says the quiz state has a cursor, `clock` how far the time of the
\* question in hand has run (in its budget, past it, past the grace too).  The
\* trail is in `beacons`, `missing` (spoken_answer_missing events of a question) and
\* `timeouts` (time_expired events of a question and phase).
Rows == [status: Status, started: BOOLEAN, opened: BOOLEAN, index: 0..N, phase: Phases,
         clock: {"running", "grace", "late"}, beacons: Nat, missing: [Questions -> Nat],
         timeouts: [Questions -> [Phases -> Nat]], expired: BOOLEAN]

\* A response: the answer, its lock, the answer its auto_score was computed
\* from, and whether the assessor has marked it.
Responses == [answer: Answers \cup {Blank, Nothing}, locked: BOOLEAN,
              auto: Answers \cup {Blank, Nothing}, mark: BOOLEAN]

NoRow == [answer |-> Nothing, locked |-> FALSE, auto |-> Nothing, mark |-> FALSE]
NoRows == [q \in Questions |-> NoRow]

NewPaper == [status |-> "assigned", started |-> FALSE, opened |-> FALSE, index |-> 0,
             phase |-> "answer", clock |-> "running", beacons |-> 0,
             missing |-> [q \in Questions |-> 0],
             timeouts |-> [q \in Questions |-> [p \in Phases |-> 0]], expired |-> FALSE]

Steps == {"idle", "expiring", "settling", "cancelling", "open", "draft", "start", "beacon",
          "phase", "turn", "lock", "move", "list", "score", "close", "entering", "marking",
          "grade", "record", "publish"}

\* What a request goes on using of the assessment it read.
Seen == [status: Status, started: BOOLEAN, index: 0..N]

SeenOf(r) == [status |-> r.status, started |-> r.started, index |-> r.index]

\* A request: its next step, what it has read, the question and answer it
\* carries, for a lock the clock it read, the response rows it listed, and the
\* trail events it has pending (the answer it locked lacks the recording; the
\* time of the answer was over).
Requests == [step: Steps, seen: Seen, q: Questions, v: Answers \cup {Nothing},
             clock: {"running", "grace", "late"}, sheet: [Questions -> Responses],
             silent: BOOLEAN, overdue: BOOLEAN]

Idle == [step |-> "idle", seen |-> SeenOf(NewPaper), q |-> 0, v |-> Nothing, clock |-> "running",
         sheet |-> NoRows, silent |-> FALSE, overdue |-> FALSE]

FirstPhase(k) == IF k \in Questions /\ Kind[k] = "open" THEN "review" ELSE "answer"

\* quiz-session.mjs ensureQuizState: a state without a cursor is replaced by a
\* fresh one (which carries over neither counters nor the expiry marker).
EnsureQuizState(r) ==
  IF r.opened THEN r
  ELSE [r EXCEPT !.opened = TRUE, !.index = 0, !.phase = FirstPhase(0), !.clock = "running",
                 !.beacons = 0, !.missing = [q \in Questions |-> 0],
                 !.timeouts = [q \in Questions |-> [p \in Phases |-> 0]], !.expired = FALSE]

IsOpen(r) == r.status \in {"assigned", "in_progress"}

\* exam-expiry.mjs examHasExpired, on the row given and the time of the call.
ExamHasExpired(r) ==
  /\ hour = "after"
  /\ \/ r.status = "in_progress" /\ (Scheduled \/ r.started)
     \/ r.status = "assigned" /\ Scheduled

\* The write expireExam goes on to for the row it is given ("idle": none).
Expiry(r) ==
  CASE ~IsOpen(r)           -> "idle"
    [] IsOpen(r) /\ booking = "cancelled" -> "cancelling"
    [] IsOpen(r) /\ booking # "cancelled" /\ ExamHasExpired(r) -> "settling"
    [] OTHER -> "idle"

\* candidate.mjs noteMissingSpoken: an open answer stored without its recording.
LacksRecording(q, answer) == Kind[q] = "open" /\ answer \in Silent

----------------------------------------------------------------------------
(* Initial states *)

Init ==
  /\ row = NewPaper
  /\ responses = NoRows
  /\ report = [q \in Questions |-> Nothing]
  /\ booking = IF Scheduled THEN "booked" ELSE "none"
  /\ hour = IF Scheduled THEN "before" ELSE "during"
  /\ req = [s \in Slots |-> Idle]
  /\ starts = [q \in Questions |-> [p \in Phases |-> 0]]
  /\ begun = 0
  /\ heard = 0
  /\ overran = [q \in Questions |-> [p \in Phases |-> "no"]]

----------------------------------------------------------------------------
(* Arrivals.  A request is admitted when assertExamAccess lets it pass and *)
(* its status check holds; a refused request changes nothing and is left   *)
(* out.  Reading the assessment and its booking is one step.               *)

Begin(s, request) ==
  /\ req' = [req EXCEPT ![s] = request]
  /\ UNCHANGED <<row, responses, report, booking, hour, starts, begun, heard, overran>>

\* A request that goes on to decide on the row current at its write only.
Fresh(step, q) == [Idle EXCEPT !.step = step, !.q = q]

\* A request that goes on using the assessment as it read it here.
Stale(step, q, v) == [Idle EXCEPT !.step = step, !.seen = SeenOf(row), !.q = q, !.v = v]

Admitted(s, op) ==
  /\ s \in Instances /\ req[s].step = "idle"
  /\ op \in Ops
  /\ row.status # "cancelled"
  /\ IsOpen(row) => booking # "cancelled" /\ hour # "before"

\* An exam request on an open paper whose window is not over.
Sitting(s, op) == Admitted(s, op) /\ IsOpen(row) /\ ~ExamHasExpired(row)

\* GET /candidate/assessments/:id
GetExam(s) ==
  /\ Admitted(s, "get")
  /\ Begin(s, Fresh(IF ExamHasExpired(row) THEN "expiring" ELSE "open", 0))

\* Any other exam route on a paper past its deadline: expireExam, then a refusal.
ArriveLate(s) ==
  /\ \E op \in Ops \ {"get", "marks", "finalize"} : Admitted(s, op)
  /\ ExamHasExpired(row)
  /\ Begin(s, Fresh("settling", 0))

\* PUT /answers with one answer, or Nothing to clear it.  Only the question on
\* screen is accepted, and only while its clock runs; otherwise the request may
\* still go on to set started_at.
SaveDraft(s, q, v) ==
  /\ Sitting(s, "draft")
  /\ LET live == row.opened /\ q = row.index /\ row.clock # "late"
     IN \/ live /\ Begin(s, Stale("draft", q, v))
        \/ ~live /\ row.status = "assigned" /\ Begin(s, Fresh("start", 0))

\* POST /integrity
SendBeacon(s) ==
  /\ Sitting(s, "beacon")
  /\ heard < MaxBeacons
  /\ Begin(s, Fresh("beacon", 0))

\* POST /phase for question q
StartAnswering(s, q) ==
  /\ Sitting(s, "phase")
  /\ Begin(s, Fresh("phase", q))

\* POST /next for the question under the cursor (any other is a duplicate and
\* changes nothing), with an answer or Nothing.  A review whose time is over is
\* turned into the answer phase instead of being locked.
PostNext(s, q, v) ==
  /\ Sitting(s, "next")
  /\ q = row.index
  /\ LET quiz == EnsureQuizState(row)
         reviewOver == Kind[q] = "open" /\ quiz.phase = "review" /\ quiz.clock # "running"
     IN Begin(s, IF reviewOver THEN Fresh("turn", q)
                 ELSE [Stale("lock", q, v) EXCEPT !.clock = quiz.clock])

\* POST /submit
PostSubmit(s) ==
  /\ Sitting(s, "submit")
  /\ Begin(s, Stale("list", 0, Nothing))

\* PUT /assessor/.../scores, a sheet that marks every open question.  (That
\* `own` first expires an overdue paper is the work of a Sweeper.)
PutScores(s) ==
  /\ Admitted(s, "marks")
  /\ row.status = "submitted"
  /\ Begin(s, Fresh("entering", 0))

\* POST /assessor/.../finalize
PostFinalize(s) ==
  /\ Admitted(s, "finalize")
  /\ row.status = "submitted"
  /\ Begin(s, Fresh("grade", 0))

\* expireExam from a listing screen, or from the second half of a cancellation.
Sweep(s) ==
  /\ s \in Sweepers /\ req[s].step = "idle"
  /\ Expiry(row) # "idle"
  /\ Begin(s, Fresh(Expiry(row), 0))

----------------------------------------------------------------------------
(* Steps of a request: each is one storage call *)

At(s, step) == req[s].step = step
Finish(s) == req' = [req EXCEPT ![s] = Idle]
Goto(s, step) == req' = [req EXCEPT ![s] = Fresh(step, 0)]
SameClocks == UNCHANGED <<starts, begun>>
StartClock(q, p) ==
  starts' = IF q \in Questions THEN [starts EXCEPT ![q][p] = @ + 1] ELSE starts

\* Faulty variant of Expired: a booked exam nobody opened is forgotten.
FaultyExpired(r) ==
  IF ExamHasExpired(r) /\ r.status = "in_progress"
  THEN [r EXCEPT !.status = "submitted", !.expired = TRUE] ELSE r

\* The write of expireExam for a paper past its deadline.
Expired(r) == IF ExamHasExpired(r) THEN [r EXCEPT !.status = "submitted", !.expired = TRUE] ELSE r

Expire(s) ==
  /\ req[s].step \in {"expiring", "settling"}
  /\ row' = Expired(row)
  /\ Goto(s, IF At(s, "expiring") THEN "open" ELSE "idle")
  /\ UNCHANGED <<responses, report, booking, hour, heard, overran>> /\ SameClocks

\* The write of expireExam for a paper whose booking was cancelled.
Cancelled(r) == IF IsOpen(r) THEN [r EXCEPT !.status = "cancelled"] ELSE r

CancelPaper(s) ==
  /\ At(s, "cancelling")
  /\ row' = Cancelled(row)
  /\ Finish(s)
  /\ UNCHANGED <<responses, report, booking, hour, heard, overran>> /\ SameClocks

\* GET: does the write set started_at (first entry, or the legacy repair)?
SetsStart(r) == r.status = "assigned" \/ (r.status = "in_progress" /\ ~Scheduled /\ ~r.started)

Opened(r) ==
  LET entered == IF SetsStart(r) THEN [r EXCEPT !.status = "in_progress", !.started = TRUE] ELSE r
  IN EnsureQuizState(entered)

OpenExam(s) ==
  /\ At(s, "open")
  /\ row' = Opened(row)
  /\ IF row.opened THEN UNCHANGED starts ELSE StartClock(0, FirstPhase(0))
  /\ begun' = IF SetsStart(row) THEN begun + 1 ELSE begun
  /\ Goto(s, Expiry(row'))
  /\ UNCHANGED <<responses, report, booking, hour, heard, overran>>

\* Faulty variant of Drafted: the deadline is checked on arrival only.
FaultyDrafted(r, w) ==
  IF r.locked THEN r ELSE IF w.v = Nothing THEN NoRow ELSE [r EXCEPT !.answer = w.v]

\* PUT /answers, the decision on the response row: refused past the deadline
\* (of the assessment as the request read it) and on a locked row.
Drafted(r, w) ==
  IF ExamHasExpired(w.seen) \/ r.locked THEN r
  ELSE IF w.v = Nothing THEN NoRow ELSE [r EXCEPT !.answer = w.v]

WriteDraft(s) ==
  /\ At(s, "draft")
  /\ LET w == req[s] IN
     /\ responses' = [responses EXCEPT ![w.q] = Drafted(@, w)]
     /\ Goto(s, IF ExamHasExpired(w.seen) THEN Expiry(w.seen)
                ELSE IF w.seen.status = "assigned" THEN "start" ELSE "idle")
  /\ UNCHANGED <<row, report, booking, hour, heard, overran>> /\ SameClocks

\* PUT /answers, last step: an assigned paper becomes in progress.
StartPaper(s) ==
  /\ At(s, "start")
  /\ row' = IF row.status = "assigned"
            THEN [row EXCEPT !.status = "in_progress", !.started = TRUE] ELSE row
  /\ begun' = IF row.status = "assigned" THEN begun + 1 ELSE begun
  /\ Finish(s)
  /\ UNCHANGED <<responses, report, booking, hour, starts, heard, overran>>

\* POST /integrity: the event joins the quiz state that is current at the write.
WithBeacon(r) == LET quiz == EnsureQuizState(r) IN [quiz EXCEPT !.beacons = @ + 1]

RecordBeacon(s) ==
  /\ At(s, "beacon")
  /\ IF IsOpen(row)
     THEN /\ row' = WithBeacon(row)
          /\ IF row.opened THEN UNCHANGED starts ELSE StartClock(0, FirstPhase(0))
          /\ heard' = heard + 1
     ELSE UNCHANGED <<row, starts, heard>>
  /\ Finish(s)
  /\ UNCHANGED <<responses, report, booking, hour, begun, overran>>

\* POST /phase: the answer phase starts if the question asked for is still in review.
InReview(r, q) ==
  LET quiz == EnsureQuizState(r)
  IN quiz.index = q /\ Kind[q] = "open" /\ quiz.phase = "review"

\* A time_expired event of question q and phase p joins the trail.
Overrun(timeouts, q, p) == [timeouts EXCEPT ![q][p] = @ + 1]

\* A review left past its grace is noted in the same write.
Answering(r) ==
  LET quiz == EnsureQuizState(r)
  IN [quiz EXCEPT !.phase = "answer", !.clock = "running",
                  !.timeouts = IF quiz.clock = "late" THEN Overrun(quiz.timeouts, quiz.index, "review")
                               ELSE quiz.timeouts]

ReviewLeft(q) ==
  overran' = IF EnsureQuizState(row).clock = "late"
             THEN [overran EXCEPT ![q]["review"] = "due"] ELSE overran

BeginAnswer(s) ==
  /\ At(s, "phase")
  /\ IF IsOpen(row) /\ ~ExamHasExpired(row) /\ InReview(row, req[s].q)
     THEN row' = Answering(row) /\ StartClock(req[s].q, "answer") /\ ReviewLeft(req[s].q)
     ELSE UNCHANGED <<row, starts, overran>>
  /\ Goto(s, IF IsOpen(row) /\ ~ExamHasExpired(row) THEN "idle" ELSE Expiry(row))
  /\ UNCHANGED <<responses, report, booking, hour, begun, heard>>

\* POST /next on a review whose time is over: turned if that review is still on.
TurnPhase(s) ==
  /\ At(s, "turn")
  /\ IF IsOpen(row) /\ ~ExamHasExpired(row) /\ InReview(row, req[s].q)
     THEN row' = Answering(row) /\ StartClock(req[s].q, "answer") /\ ReviewLeft(req[s].q)
     ELSE UNCHANGED <<row, starts, overran>>
  /\ Goto(s, IF ExamHasExpired(row) THEN Expiry(row) ELSE "idle")
  /\ UNCHANGED <<responses, report, booking, hour, begun, heard>>

\* Faulty variants of Locked: nothing is stored for a question left without an
\* answer; a later /next replaces what an earlier one locked.
FaultyBlankLocked(r, w) ==
  IF ExamHasExpired(w.seen) \/ r.locked \/ (w.v = Nothing /\ r.answer = Nothing) THEN r
  ELSE [r EXCEPT !.answer = IF w.v # Nothing THEN w.v ELSE r.answer, !.locked = TRUE]

FaultyRelocked(r, w) ==
  IF ExamHasExpired(w.seen) THEN r
  ELSE [r EXCEPT !.answer = IF w.v # Nothing THEN w.v ELSE IF r.answer = Nothing THEN Blank ELSE r.answer,
                 !.locked = TRUE]

\* POST /next, the decision on the response row: the posted answer unless the
\* grace was over when the request read the clock, else the draft, else a blank.
Locked(r, w) ==
  IF ExamHasExpired(w.seen) \/ r.locked THEN r
  ELSE LET posted == w.v # Nothing /\ w.clock # "late"
           kept == IF r.answer = Nothing THEN Blank ELSE r.answer
       IN [r EXCEPT !.answer = IF posted THEN w.v ELSE kept, !.locked = TRUE]

\* The time of the answer was over as the request read the clock: reported if it
\* ran past the grace, or nothing was there to lock.
OutOfTime(w, answer) == w.clock = "late" \/ (w.clock = "grace" /\ answer = Blank)

\* The trail events a /next has to write: the missing recording also when the row
\* was locked before, the time only for the lock the request made itself.
LockAnswer(s) ==
  /\ At(s, "lock")
  /\ LET w == req[s]
         r == Locked(responses[w.q], w)
         over == ~responses[w.q].locked /\ OutOfTime(w, r.answer)
     IN /\ responses' = [responses EXCEPT ![w.q] = r]
        /\ IF ExamHasExpired(w.seen)
           THEN Goto(s, Expiry(w.seen)) /\ UNCHANGED overran
           ELSE /\ req' = [req EXCEPT ![s] = [w EXCEPT !.step = "move", !.v = Nothing,
                                                !.clock = "running", !.overdue = over,
                                                !.silent = LacksRecording(w.q, r.answer)]]
                /\ overran' = IF over THEN [overran EXCEPT ![w.q]["answer"] = "due"] ELSE overran
  /\ UNCHANGED <<row, report, booking, hour, heard>> /\ SameClocks

\* Faulty variants of Movable and Moved: the cursor is not compared with the one
\* read; the counters of the quiz state are not carried over; the time that was
\* over is not among the events of the write.
FaultyMovable(r, w) == IsOpen(r) /\ ~ExamHasExpired(r)

FaultyRebuilt(r, w) ==
  [EnsureQuizState(r) EXCEPT !.index = w.seen.index + 1, !.phase = FirstPhase(w.seen.index + 1),
                             !.clock = "running", !.beacons = 0]

FaultyUntimed(r, w) ==
  [EnsureQuizState(r) EXCEPT !.index = w.seen.index + 1, !.phase = FirstPhase(w.seen.index + 1),
                             !.clock = "running",
                             !.missing = IF w.silent THEN [@ EXCEPT ![w.q] = @ + 1] ELSE @]

\* POST /next, last step: the cursor moves if nobody moved it since the request read it.
Movable(r, w) == IsOpen(r) /\ ~ExamHasExpired(r) /\ EnsureQuizState(r).index = w.seen.index

Counted(missing, w) == IF w.silent THEN [missing EXCEPT ![w.q] = @ + 1] ELSE missing

CountedLate(timeouts, w) == IF w.overdue THEN Overrun(timeouts, w.q, "answer") ELSE timeouts

Moved(r, w) ==
  LET quiz == EnsureQuizState(r)
  IN [quiz EXCEPT !.index = w.seen.index + 1, !.phase = FirstPhase(w.seen.index + 1),
                  !.clock = "running", !.missing = Counted(quiz.missing, w),
                  !.timeouts = CountedLate(quiz.timeouts, w)]

\* A cursor moved by another request than the one that locked the answer passes
\* the question without the time_expired event only that one had.
AnswerLeft(w) ==
  overran' = IF overran[w.q]["answer"] = "due" /\ ~w.overdue
             THEN [overran EXCEPT ![w.q]["answer"] = "lost"] ELSE overran

MoveCursor(s) ==
  /\ At(s, "move")
  /\ LET w == req[s] IN
     IF Movable(row, w)
     THEN /\ row' = Moved(row, w)
          /\ StartClock(w.seen.index + 1, FirstPhase(w.seen.index + 1))
          /\ AnswerLeft(w)
     ELSE UNCHANGED <<row, starts, overran>>
  /\ Goto(s, IF ExamHasExpired(row) THEN Expiry(row) ELSE "idle")
  /\ UNCHANGED <<responses, report, booking, hour, begun, heard>>

\* POST /submit: list the rows; refused while a question is unanswered, unless
\* the walk is complete.
Unanswered(sheet) == {q \in Questions : sheet[q].answer \in {Blank, Nothing}}

ListRows(s) ==
  /\ At(s, "list")
  /\ LET done == req[s].seen.index >= N IN
     IF Unanswered(responses) # {} /\ ~done
     THEN Finish(s)
     ELSE req' = [req EXCEPT ![s] = [Fresh("score", 0) EXCEPT !.sheet = responses]]
  /\ UNCHANGED <<row, responses, report, booking, hour, heard, overran>> /\ SameClocks

\* The rows of a listed sheet that are gone, or have come, since it was listed.
Exists(r) == r.answer # Nothing
Collides(sheet) == \E q \in Questions : ~Exists(sheet[q]) /\ Exists(responses[q])

\* Faulty variant of Scored: a row scored once is not scored again.
FaultyScored(r, listed, q) ==
  IF Exists(r) /\ Exists(listed) /\ Kind[q] = "auto" /\ r.auto = Nothing
  THEN [r EXCEPT !.auto = listed.answer] ELSE r

\* The auto-score of each listed row, computed from the answer listed.
Scored(r, listed, q) ==
  IF Exists(r) /\ Exists(listed) /\ Kind[q] = "auto" THEN [r EXCEPT !.auto = listed.answer] ELSE r

\* ... and a blank row for each question that had none (an insert of the batch
\* fails as a whole when one of its rows exists).
Filled(r, listed, q) ==
  IF Exists(listed) THEN Scored(r, listed, q)
  ELSE [NoRow EXCEPT !.answer = Blank, !.auto = IF Kind[q] = "auto" THEN Blank ELSE Nothing]

ScoreRows(s) ==
  /\ At(s, "score")
  /\ LET sheet == req[s].sheet IN
     IF Collides(sheet)
     THEN /\ responses' = [q \in Questions |-> Scored(responses[q], sheet[q], q)]
          /\ Finish(s)
     ELSE /\ responses' = [q \in Questions |-> Filled(responses[q], sheet[q], q)]
          /\ Goto(s, "close")
  /\ UNCHANGED <<row, report, booking, hour, heard, overran>> /\ SameClocks

\* POST /submit, last step: an unconditional update of the row.
ClosePaper(s) ==
  /\ At(s, "close")
  /\ row' = [row EXCEPT !.status = "submitted"]
  /\ Finish(s)
  /\ UNCHANGED <<responses, report, booking, hour, heard, overran>> /\ SameClocks

\* PUT /scores: list the rows, then mark the open questions; a question without
\* a row gets one with a null answer.
ListForMarks(s) ==
  /\ At(s, "entering")
  /\ req' = [req EXCEPT ![s] = [@ EXCEPT !.step = "marking", !.sheet = responses]]
  /\ UNCHANGED <<row, responses, report, booking, hour, heard, overran>> /\ SameClocks

OpenQuestions == {q \in Questions : Kind[q] = "open"}

Marked(r, listed, collides) ==
  IF Exists(listed)
  THEN IF Exists(r) THEN [r EXCEPT !.mark = TRUE] ELSE r
  ELSE IF collides THEN r ELSE [NoRow EXCEPT !.answer = Blank, !.mark = TRUE]

WriteMarks(s) ==
  /\ At(s, "marking")
  /\ LET sheet == req[s].sheet
         collides == \E q \in OpenQuestions : ~Exists(sheet[q]) /\ Exists(responses[q])
     IN responses' = [q \in Questions |-> IF q \in OpenQuestions
                                          THEN Marked(responses[q], sheet[q], collides)
                                          ELSE responses[q]]
  /\ Finish(s)
  /\ UNCHANGED <<row, report, booking, hour, heard, overran>> /\ SameClocks

\* finalizeScoring: list the rows; refused while an open question has no mark.
Grade(s) ==
  /\ At(s, "grade")
  /\ IF \A q \in OpenQuestions : responses[q].mark
     THEN req' = [req EXCEPT ![s] = [@ EXCEPT !.step = "record", !.sheet = responses]]
     ELSE Finish(s)
  /\ UNCHANGED <<row, responses, report, booking, hour, heard, overran>> /\ SameClocks

RecordScores(s) ==
  /\ At(s, "record")
  /\ responses' = [q \in Questions |-> Scored(responses[q], req[s].sheet[q], q)]
  /\ req' = [req EXCEPT ![s] = [@ EXCEPT !.step = "publish"]]
  /\ UNCHANGED <<row, report, booking, hour, heard, overran>> /\ SameClocks

\* The report is computed from the listed rows; a missing one counts as blank.
ReportOf(sheet) == [q \in Questions |-> IF Exists(sheet[q]) THEN sheet[q].answer ELSE Blank]

PublishReport(s) ==
  /\ At(s, "publish")
  /\ row' = [row EXCEPT !.status = "scored"]
  /\ report' = ReportOf(req[s].sheet)
  /\ Finish(s)
  /\ UNCHANGED <<responses, booking, hour, heard, overran>> /\ SameClocks

----------------------------------------------------------------------------
(* The environment *)

\* The instance dies, or the platform stops the invocation, between two calls.
Crash(s) ==
  /\ req[s].step # "idle"
  /\ Finish(s)
  /\ UNCHANGED <<row, responses, report, booking, hour, heard, overran>> /\ SameClocks

\* Time passes on the question in hand: past its budget, then past the grace.
ClockTick ==
  /\ IsOpen(row) /\ row.opened /\ row.index \in Timed /\ row.clock # "late"
  /\ row' = [row EXCEPT !.clock = IF @ = "running" THEN "grace" ELSE "late"]
  /\ UNCHANGED <<responses, report, booking, hour, req, heard, overran>> /\ SameClocks

\* The booked time is reached; two hours after it, or after started_at, the
\* window is over.
OpenWindow ==
  /\ hour = "before" /\ hour' = "during"
  /\ UNCHANGED <<row, responses, report, booking, req, heard, overran>> /\ SameClocks

Deadline ==
  /\ hour = "during" /\ (Scheduled \/ row.started) /\ hour' = "after"
  /\ UNCHANGED <<row, responses, report, booking, req, heard, overran>> /\ SameClocks

\* POST /admin/test-bookings/:id/cancel, first half; its second half, expireExam
\* on the paper, is a Sweep (it may never come: the server can die in between).
CancelBooking ==
  /\ booking = "booked" /\ booking' = "cancelled"
  /\ UNCHANGED <<row, responses, report, hour, req, heard, overran>> /\ SameClocks

Arrive(s) ==
  \/ GetExam(s) \/ ArriveLate(s)
  \/ SendBeacon(s) \/ PostSubmit(s) \/ PutScores(s) \/ PostFinalize(s) \/ Sweep(s)
  \/ \E q \in Questions :
       \/ StartAnswering(s, q)
       \/ \E v \in Answers \cup {Nothing} : SaveDraft(s, q, v) \/ PostNext(s, q, v)

Step(s) ==
  \/ Expire(s) \/ CancelPaper(s) \/ OpenExam(s)
  \/ WriteDraft(s) \/ StartPaper(s) \/ RecordBeacon(s) \/ BeginAnswer(s)
  \/ TurnPhase(s) \/ LockAnswer(s) \/ MoveCursor(s)
  \/ ListRows(s) \/ ScoreRows(s) \/ ClosePaper(s)
  \/ ListForMarks(s) \/ WriteMarks(s)
  \/ Grade(s) \/ RecordScores(s) \/ PublishReport(s)

Next ==
  \/ \E s \in Slots : Arrive(s) \/ Step(s) \/ Crash(s)
  \/ ClockTick \/ OpenWindow \/ Deadline \/ CancelBooking

Spec == Init /\ [][Next]_vars

----------------------------------------------------------------------------
(* Invariants *)

\* Every variable stays in its type.
TypeOK ==
  /\ row \in Rows
  /\ responses \in [Questions -> Responses]
  /\ report \in [Questions -> Answers \cup {Blank, Nothing}]
  /\ booking \in {"none", "booked", "cancelled"}
  /\ hour \in {"before", "during", "after"}
  /\ req \in [Slots -> Requests]
  /\ starts \in [Questions -> [Phases -> Nat]]
  /\ begun \in Nat
  /\ heard \in Nat
  /\ overran \in [Questions -> [Phases -> {"no", "due", "lost"}]]

\* The walk never leaves a question open behind it: whatever requests, retries
\* and crashes interleave, each question the cursor has passed has a locked row.
\* The lock and the cursor are written by two storage calls of /next.
PassedQuestionsLocked == \A q \in Questions : q < row.index => responses[q].locked

\* No request buys time: the clock of a question, and of each of its phases, is
\* started at most once, although four routes restart it and each may be retried.
ClockStartedOnce == \A q \in Questions, p \in Phases : starts[q][p] <= 1

\* The two-hour window of an exam is opened once: reopening the exam, or a draft
\* that races the opening request, never moves started_at.
WindowOpenedOnce == begun <= 1

\* Every integrity beacon answered with success stays counted in the quiz state,
\* whichever request rewrites that state next.
NoBeaconLost == row.beacons = heard

\* The trail counts an answer locked without its recording once, although two
\* /next requests may work on the same question and the one that locked it may
\* die before it writes the trail.
MissingRecordingCountedOnce ==
  \A q \in Questions :
    row.missing[q] = IF q < row.index /\ LacksRecording(q, responses[q].answer) THEN 1 ELSE 0

\* The trail says once, and only where it is so, that the time of a review or of an
\* answer was over when it was left; of an answer it says it if the request that
\* locked it is also the one that moves the cursor (when that request dies in
\* between, or another /next overtakes it, the event is lost: the code puts it in
\* the write of the cursor and only the locking request has it).
TimeoutsCounted ==
  \A q \in Questions, p \in Phases :
    row.timeouts[q][p] =
      IF overran[q][p] = "due" /\ (p = "review" \/ q < row.index) THEN 1 ELSE 0

\* The integrity trail holds every acknowledged beacon, every answer locked without
\* its recording once, and each time_expired event that was due, once, except
\* those a crash or an overtaking /next loses between the lock and the cursor.
TrailIsExact == NoBeaconLost /\ MissingRecordingCountedOnce /\ TimeoutsCounted

\* Handing in a paper never has to make up a row: when /submit scores the rows
\* it listed, every question has one, so the batch insert cannot collide.
SubmitFindsEveryRow ==
  \A s \in Slots : req[s].step = "score" => \A q \in Questions : Exists(req[s].sheet[q])

\* The inductive invariant behind them.  A request that locks or moves works on
\* a question the cursor has not gone behind of; once it has locked, the row
\* stays locked with the answer its trail event was decided from.  A hand-in has
\* read a cursor that was not ahead, and scores a sheet without gaps.
RequestInv(w) ==
  /\ w.step \in {"draft", "lock", "move"} => w.q = w.seen.index /\ w.seen.index <= row.index
  /\ w.step = "move" => /\ responses[w.q].locked
                        /\ w.silent = LacksRecording(w.q, responses[w.q].answer)
                        /\ w.overdue => overran[w.q]["answer"] # "no"
  /\ w.step = "list" => w.seen.index <= row.index
  /\ w.step = "score" => \A q \in Questions : Exists(w.sheet[q])

RequestsInv == \A s \in Slots : RequestInv(req[s])

\* Seeding the quiz state loses nothing, and only an unstarted paper is assigned.
RowInv ==
  /\ ~row.opened => row.index = 0 /\ row.beacons = 0
  /\ row.status = "assigned" => ~row.started
  /\ begun = IF row.started THEN 1 ELSE 0

\* A clock that has been started is the running one or lies behind the cursor.
ClocksInv ==
  \A q \in Questions, p \in Phases :
    /\ starts[q][p] \in {0, 1}
    /\ starts[q][p] = 1 =>
         /\ row.opened
         /\ q < row.index \/ (q = row.index /\ (p = "review" \/ row.phase = "answer"))

\* Time is noted over of a review that was left, of an answer that was locked; and
\* the note is lost only by a cursor that has passed the answer.
OverranInv ==
  \A q \in Questions :
    /\ overran[q]["review"] # "no" =>
         row.opened /\ (q < row.index \/ (q = row.index /\ row.phase = "answer"))
    /\ overran[q]["answer"] # "no" => responses[q].locked
    /\ overran[q]["answer"] = "lost" => q < row.index
    /\ overran[q]["review"] # "lost"

\* A locked row holds an answer, if only a blank one.
LockedHasAnswer == \A q \in Questions : responses[q].locked => Exists(responses[q])

IInv ==
  /\ TypeOK
  /\ RequestsInv /\ RowInv /\ ClocksInv
  /\ PassedQuestionsLocked /\ LockedHasAnswer
  /\ NoBeaconLost /\ MissingRecordingCountedOnce /\ TimeoutsCounted /\ OverranInv

----------------------------------------------------------------------------
(* Action properties *)

\* Answers are sealed: once the paper is handed in or expired, or its window is
\* over, no draft and no lock is stored, even for a request admitted before.
\* (An assessor's mark may add a row without an answer.)
AnswersAreSealed ==
  [][row.status \in {"submitted", "scored"} \/ hour = "after" =>
       \A q \in Questions :
         \/ /\ responses'[q].answer = responses[q].answer
            /\ row.status \in {"submitted", "scored"} => responses'[q].locked = responses[q].locked
         \/ responses[q] = NoRow /\ responses'[q].answer = Blank /\ (hour = "after" => responses'[q].mark)]_vars

\* The report was computed from the answers on the paper.
ReportMatchesPaper ==
  row.status = "scored" =>
    \A q \in Questions :
      /\ Exists(responses[q]) => report[q] = responses[q].answer
      /\ Kind[q] = "auto" /\ Exists(responses[q]) => responses[q].auto = report[q]

----------------------------------------------------------------------------
(* What the documentation says and the code does not keep (each is checked *)
(* by a run that ends in a counterexample)                                 *)

\* exam-expiry.mjs: a cancelled exam is not submitted for scoring.  A hand-in in
\* flight writes "submitted" over the "cancelled" a listing screen wrote.
CancellationWins == [][row.status = "cancelled" => row'.status # "submitted"]_vars

\* docs/RELIABILITY-FIX-STRATEGY.md: an expired attempt carries an expiry marker
\* in its quiz state.  Opening an exam that expired unopened replaces that state.
ExpiryMarkerKept == [][row.expired => row'.expired]_vars

----------------------------------------------------------------------------
(* The abstract sheet *)

Sheet == INSTANCE AnswerSheet WITH
  sheet <- [q \in Questions |-> IF responses[q].locked THEN responses[q].answer ELSE Nothing],
  cursor <- row.index, Unsealed <- Nothing

\* Seen through its locked rows and its cursor, the exam hall is an answer sheet:
\* sealed once, in order, never changed (AnswerSheet!Spec).
ImplementsAnswerSheet == Sheet!Spec

----------------------------------------------------------------------------
(* Liveness *)

\* Requests that were admitted are worked on, time passes, and the listing
\* screens are opened again and again (they are the landing pages of both
\* portals, and the only thing that closes a paper nobody returns to).  Any of
\* those requests may die, but not every one of them dies before its write.
Fairness ==
  /\ \A s \in Instances : WF_vars(Step(s))
  /\ \A s \in Sweepers : WF_vars(Sweep(s)) /\ SF_vars(Step(s))
  /\ WF_vars(OpenWindow) /\ WF_vars(Deadline)

FairSpec == Spec /\ Fairness

\* A paper past its deadline is closed although its candidate never comes back
\* and any request working on it may die.
OverdueIsClosed == (ExamHasExpired(row)) ~> ~IsOpen(row)

=============================================================================
