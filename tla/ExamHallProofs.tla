--------------------------- MODULE ExamHallProofs ---------------------------
(***************************************************************************)
(* Proofs about ExamHall, for every paper, every set of answers and every  *)
(* number of function instances and listing screens.                       *)
(***************************************************************************)
EXTENDS ExamHall, TLAPS

USE PaperAssumption, AnswerAssumption, EnvironmentAssumption

LEMMA QuestionsFact == Questions = 0..(N-1) /\ 0 \in Questions /\ N \in Nat /\ N # 0
  BY DEF Questions

LEMMA FirstPhaseType == \A k : FirstPhase(k) \in Phases
  BY DEF FirstPhase, Phases

LEMMA NewPaperType == NewPaper \in Rows
  BY QuestionsFact DEF NewPaper, Rows, Status, Phases

LEMMA NoRowsType == NoRow \in Responses /\ NoRows \in [Questions -> Responses]
  BY DEF NoRow, NoRows, Responses

LEMMA SeenType == ASSUME NEW r \in Rows PROVE SeenOf(r) \in Seen
  BY DEF SeenOf, Seen, Rows

LEMMA IdleType == Idle \in Requests
  BY QuestionsFact, NewPaperType, SeenType, NoRowsType DEF Idle, Requests, Steps

LEMMA EnsureType == ASSUME NEW r \in Rows PROVE EnsureQuizState(r) \in Rows
<1>1. /\ FirstPhase(0) \in Phases /\ 0 \in 0..N /\ "running" \in {"running", "grace", "late"}
      /\ [q \in Questions |-> 0] \in [Questions -> Nat]
      /\ [q \in Questions |-> [p \in Phases |-> 0]] \in [Questions -> [Phases -> Nat]]
  BY FirstPhaseType, QuestionsFact
<1> QED
  BY <1>1 DEF EnsureQuizState, Rows

LEMMA FreshType ==
  ASSUME NEW step \in Steps, NEW q \in Questions PROVE Fresh(step, q) \in Requests
  BY IdleType DEF Fresh, Requests

LEMMA StaleType ==
  ASSUME row \in Rows, NEW step \in Steps, NEW q \in Questions, NEW v \in Answers \cup {Nothing}
  PROVE  Stale(step, q, v) \in Requests
  BY IdleType, SeenType DEF Stale, Requests

\* A /next carries the clock it read.
LEMMA ClockedType ==
  ASSUME row \in Rows, NEW q \in Questions, NEW v \in Answers \cup {Nothing}
  PROVE  [Stale("lock", q, v) EXCEPT !.clock = EnsureQuizState(row).clock] \in Requests
<1>1. EnsureQuizState(row).clock \in {"running", "grace", "late"}
  BY EnsureType DEF Rows
<1>2. Stale("lock", q, v) \in Requests
  BY StaleType DEF Steps
<1> QED
  BY <1>1, <1>2 DEF Requests

LEMMA ExpiryType ==
  \A r : Expiry(r) \in Steps /\ Expiry(r) \in {"idle", "cancelling", "settling"}
  BY DEF Expiry, Steps

LEMMA OpenedType == ASSUME NEW r \in Rows PROVE Opened(r) \in Rows
<1>1. [r EXCEPT !.status = "in_progress", !.started = TRUE] \in Rows
  BY DEF Rows, Status
<1> QED
  BY <1>1, EnsureType DEF Opened

LEMMA OverrunFacts ==
  ASSUME NEW t \in [Questions -> [Phases -> Nat]], NEW q \in Questions, NEW p \in Phases
  PROVE  /\ Overrun(t, q, p) \in [Questions -> [Phases -> Nat]]
         /\ \A k \in Questions, x \in Phases :
              Overrun(t, q, p)[k][x] = IF k = q /\ x = p THEN t[k][x] + 1 ELSE t[k][x]
<1>1. t[q] \in [Phases -> Nat] /\ t[q][p] + 1 \in Nat
  OBVIOUS
<1>2. [t[q] EXCEPT ![p] = t[q][p] + 1] \in [Phases -> Nat]
  BY <1>1
<1>3. Overrun(t, q, p) = [t EXCEPT ![q] = [t[q] EXCEPT ![p] = t[q][p] + 1]]
  BY DEF Overrun
<1> QED
  BY <1>1, <1>2, <1>3

LEMMA AnsweringType ==
  ASSUME NEW r \in Rows, EnsureQuizState(r).index \in Questions
  PROVE  Answering(r) \in Rows
<1>1. PICK quiz \in Rows : quiz = EnsureQuizState(r)
  BY EnsureType
<1>2. PICK t : t = IF quiz.clock = "late" THEN Overrun(quiz.timeouts, quiz.index, "review") ELSE quiz.timeouts
  OBVIOUS
<1>3. quiz.timeouts \in [Questions -> [Phases -> Nat]] /\ "review" \in Phases
  BY <1>1 DEF Rows, Phases
<1>4. t \in [Questions -> [Phases -> Nat]]
  BY <1>1, <1>2, <1>3, OverrunFacts
<1>5. [quiz EXCEPT !.phase = "answer", !.clock = "running", !.timeouts = t] \in Rows
  BY <1>4 DEF Rows, Phases
<1> QED
  BY <1>1, <1>2, <1>5 DEF Answering

LEMMA WithBeaconType == ASSUME NEW r \in Rows PROVE WithBeacon(r) \in Rows
<1>1. EnsureQuizState(r) \in Rows
  BY EnsureType
<1>2. ASSUME NEW quiz \in Rows, NEW n \in Nat
      PROVE  [quiz EXCEPT !.beacons = n] \in Rows
  BY DEF Rows
<1>3. EnsureQuizState(r).beacons + 1 \in Nat
  BY <1>1 DEF Rows
<1> QED
  BY <1>1, <1>2, <1>3 DEF WithBeacon

LEMMA ExpiredType ==
  ASSUME NEW r \in Rows PROVE Expired(r) \in Rows /\ Cancelled(r) \in Rows
  BY DEF Expired, Cancelled, Rows, Status

LEMMA DraftedType ==
  ASSUME NEW r \in Responses, NEW w \in Requests PROVE Drafted(r, w) \in Responses
  BY NoRowsType DEF Drafted, Responses, Requests

LEMMA LockedType ==
  ASSUME NEW r \in Responses, NEW w \in Requests PROVE Locked(r, w) \in Responses
  BY DEF Locked, Responses, Requests

LEMMA CountedType ==
  ASSUME NEW m \in [Questions -> Nat], NEW w \in Requests
  PROVE  Counted(m, w) \in [Questions -> Nat]
  BY DEF Counted, Requests

LEMMA CountedLateType ==
  ASSUME NEW t \in [Questions -> [Phases -> Nat]], NEW w \in Requests
  PROVE  CountedLate(t, w) \in [Questions -> [Phases -> Nat]]
<1>1. w.q \in Questions /\ "answer" \in Phases
  BY DEF Requests, Phases
<1> QED
  BY <1>1, OverrunFacts DEF CountedLate

LEMMA MovedType ==
  ASSUME NEW r \in Rows, NEW w \in Requests, w.q = w.seen.index
  PROVE  Moved(r, w) \in Rows
<1>1. w.seen.index + 1 \in 0..N
  BY QuestionsFact DEF Requests
<1>2. FirstPhase(w.seen.index + 1) \in Phases
  BY FirstPhaseType
<1>3. PICK quiz \in Rows : quiz = EnsureQuizState(r)
  BY EnsureType
<1>4. PICK m \in [Questions -> Nat] : m = Counted(quiz.missing, w)
  BY <1>3, CountedType DEF Rows
<1>5. PICK t \in [Questions -> [Phases -> Nat]] : t = CountedLate(quiz.timeouts, w)
  BY <1>3, CountedLateType DEF Rows
<1>6. [quiz EXCEPT !.index = w.seen.index + 1, !.phase = FirstPhase(w.seen.index + 1),
                   !.clock = "running", !.missing = m, !.timeouts = t] \in Rows
  BY <1>1, <1>2 DEF Rows
<1> QED
  BY <1>3, <1>4, <1>5, <1>6 DEF Moved

LEMMA ScoredType ==
  ASSUME NEW r \in Responses, NEW listed \in Responses, NEW q \in Questions
  PROVE  Scored(r, listed, q) \in Responses /\ Filled(r, listed, q) \in Responses
  BY NoRowsType DEF Scored, Filled, Responses, NoRow

LEMMA MarkedType ==
  ASSUME NEW r \in Responses, NEW listed \in Responses, NEW c \in BOOLEAN
  PROVE  Marked(r, listed, c) \in Responses
  BY NoRowsType DEF Marked, Responses, NoRow

----------------------------------------------------------------------------
(* Typing *)

LEMMA ReqUpdate ==
  ASSUME req \in [Slots -> Requests], NEW s \in Slots, NEW w \in Requests
  PROVE  [req EXCEPT ![s] = w] \in [Slots -> Requests]
  OBVIOUS

LEMMA BeginType ==
  ASSUME TypeOK, NEW s \in Slots, NEW w \in Requests, Begin(s, w)
  PROVE  TypeOK'
  BY ReqUpdate DEF TypeOK, Begin

LEMMA FinishType ==
  ASSUME TypeOK, NEW s \in Slots, Finish(s)
  PROVE  req' \in [Slots -> Requests]
  BY ReqUpdate, IdleType DEF TypeOK, Finish

LEMMA GotoType ==
  ASSUME TypeOK, NEW s \in Slots, NEW step \in Steps, Goto(s, step)
  PROVE  req' \in [Slots -> Requests]
  BY ReqUpdate, FreshType, QuestionsFact DEF TypeOK, Goto

LEMMA StartClockType ==
  ASSUME TypeOK, NEW q, NEW p \in Phases, StartClock(q, p)
  PROVE  starts' \in [Questions -> [Phases -> Nat]]
<1>1. CASE q \in Questions
  <2>1. starts[q] \in [Phases -> Nat] /\ starts[q][p] + 1 \in Nat
    BY <1>1 DEF TypeOK
  <2>2. [starts[q] EXCEPT ![p] = starts[q][p] + 1] \in [Phases -> Nat]
    BY <2>1
  <2> QED
    BY <1>1, <2>1, <2>2 DEF TypeOK, StartClock
<1>2. CASE q \notin Questions
  BY <1>2 DEF TypeOK, StartClock
<1> QED
  BY <1>1, <1>2

LEMMA OverranType ==
  ASSUME NEW h \in [Questions -> [Phases -> {"no", "due", "lost"}]], NEW q \in Questions,
         NEW p \in Phases, NEW x \in {"no", "due", "lost"}
  PROVE  /\ [h EXCEPT ![q][p] = x] \in [Questions -> [Phases -> {"no", "due", "lost"}]]
         /\ \A k \in Questions, y \in Phases :
              [h EXCEPT ![q][p] = x][k][y] = IF k = q /\ y = p THEN x ELSE h[k][y]
<1>1. [h[q] EXCEPT ![p] = x] \in [Phases -> {"no", "due", "lost"}]
  OBVIOUS
<1>2. [h EXCEPT ![q][p] = x] = [h EXCEPT ![q] = [h[q] EXCEPT ![p] = x]]
  OBVIOUS
<1> QED
  BY <1>1, <1>2

LEMMA ArriveType ==
  ASSUME TypeOK, NEW s \in Slots, Arrive(s)
  PROVE  TypeOK'
<1>1. /\ {"expiring", "settling", "cancelling", "open", "draft", "start", "beacon", "phase", "turn",
           "lock", "list", "entering", "grade"} \subseteq Steps
      /\ row \in Rows /\ Nothing \in Answers \cup {Nothing}
  BY DEF Steps, TypeOK
<1>2. CASE GetExam(s)
  BY <1>1, <1>2, BeginType, FreshType, QuestionsFact DEF GetExam
<1>3. CASE ArriveLate(s) \/ SendBeacon(s) \/ PutScores(s) \/ PostFinalize(s)
  BY <1>1, <1>3, BeginType, FreshType, QuestionsFact DEF ArriveLate, SendBeacon, PutScores, PostFinalize
<1>4. CASE PostSubmit(s)
  BY <1>1, <1>4, BeginType, StaleType, QuestionsFact DEF PostSubmit
<1>5. CASE Sweep(s)
  BY <1>1, <1>5, BeginType, FreshType, ExpiryType, QuestionsFact DEF Sweep
<1>6. ASSUME NEW q \in Questions, StartAnswering(s, q)
      PROVE  TypeOK'
  BY <1>1, <1>6, BeginType, FreshType DEF StartAnswering
<1>7. ASSUME NEW q \in Questions, NEW v \in Answers \cup {Nothing}, SaveDraft(s, q, v)
      PROVE  TypeOK'
  BY <1>1, <1>7, BeginType, FreshType, StaleType, QuestionsFact DEF SaveDraft
<1>8. ASSUME NEW q \in Questions, NEW v \in Answers \cup {Nothing}, PostNext(s, q, v)
      PROVE  TypeOK'
  BY <1>1, <1>8, BeginType, FreshType, ClockedType DEF PostNext
<1> QED
  BY <1>2, <1>3, <1>4, <1>5, <1>6, <1>7, <1>8 DEF Arrive

LEMMA StepType ==
  ASSUME TypeOK, RequestsInv, NEW s \in Slots, Step(s)
  PROVE  TypeOK'
<1> DEFINE w == req[s]
<1>1. /\ {"open", "idle", "start", "score", "close"} \subseteq Steps
      /\ row \in Rows /\ w \in Requests /\ w.sheet \in [Questions -> Responses]
      /\ w.q \in Questions /\ w.seen \in Seen
      /\ responses[w.q] \in Responses
  BY DEF Steps, TypeOK, Requests
<1> HIDE DEF w
<1>2. CASE Expire(s)
  BY <1>1, <1>2, GotoType, ExpiredType DEF Expire, TypeOK, SameClocks
<1>3. CASE CancelPaper(s)
  BY <1>1, <1>3, FinishType, ExpiredType DEF CancelPaper, TypeOK, SameClocks
<1>4. CASE OpenExam(s)
  <2>1. row' \in Rows /\ req' \in [Slots -> Requests]
    BY <1>1, <1>4, OpenedType, GotoType, ExpiryType DEF OpenExam
  <2>2. starts' \in [Questions -> [Phases -> Nat]]
    BY <1>4, StartClockType, FirstPhaseType DEF OpenExam, TypeOK
  <2>3. begun' \in Nat
    BY <1>4 DEF OpenExam, TypeOK
  <2> QED
    BY <1>4, <2>1, <2>2, <2>3 DEF OpenExam, TypeOK
<1>5. CASE WriteDraft(s)
  <2>1. responses' \in [Questions -> Responses]
    BY <1>1, <1>5, DraftedType DEF WriteDraft, TypeOK, w
  <2>2. req' \in [Slots -> Requests]
    BY <1>1, <1>5, GotoType, ExpiryType DEF WriteDraft
  <2> QED
    BY <1>5, <2>1, <2>2 DEF WriteDraft, TypeOK, SameClocks
<1>6. CASE StartPaper(s)
  <2>1. row' \in Rows
    BY <1>6 DEF StartPaper, TypeOK, Rows, Status
  <2> QED
    BY <1>6, <2>1, FinishType DEF StartPaper, TypeOK
<1>7. CASE RecordBeacon(s)
  <2>1. row' \in Rows /\ heard' \in Nat
    BY <1>1, <1>7, WithBeaconType DEF RecordBeacon, TypeOK
  <2>2. starts' \in [Questions -> [Phases -> Nat]]
    BY <1>7, StartClockType, FirstPhaseType DEF RecordBeacon, TypeOK
  <2> QED
    BY <1>7, <2>1, <2>2, FinishType DEF RecordBeacon, TypeOK
<1>8. CASE BeginAnswer(s) \/ TurnPhase(s)
  <2>1. row' \in Rows
    BY <1>1, <1>8, AnsweringType DEF BeginAnswer, TurnPhase, InReview, w
  <2>2. starts' \in [Questions -> [Phases -> Nat]]
    BY <1>8, StartClockType DEF BeginAnswer, TurnPhase, TypeOK, Phases
  <2>3. req' \in [Slots -> Requests]
    BY <1>1, <1>8, GotoType, ExpiryType DEF BeginAnswer, TurnPhase
  <2>4. overran' \in [Questions -> [Phases -> {"no", "due", "lost"}]]
    <3>1. overran' = overran \/ overran' = [overran EXCEPT ![w.q]["review"] = "due"]
      BY <1>8 DEF BeginAnswer, TurnPhase, ReviewLeft, w
    <3>2. "review" \in Phases /\ "due" \in {"no", "due", "lost"}
          /\ overran \in [Questions -> [Phases -> {"no", "due", "lost"}]]
      BY DEF Phases, TypeOK
    <3>3. [overran EXCEPT ![w.q]["review"] = "due"] \in [Questions -> [Phases -> {"no", "due", "lost"}]]
      BY <1>1, <3>2, OverranType
    <3> QED
      BY <3>1, <3>2, <3>3
  <2> QED
    BY <1>8, <2>1, <2>2, <2>3, <2>4 DEF BeginAnswer, TurnPhase, TypeOK
<1>9. CASE LockAnswer(s)
  <2>1. responses' \in [Questions -> Responses]
    BY <1>1, <1>9, LockedType DEF LockAnswer, TypeOK, w
  <2>2. \A a, b \in BOOLEAN :
          [w EXCEPT !.step = "move", !.v = Nothing, !.clock = "running", !.overdue = a, !.silent = b]
            \in Requests
    BY <1>1 DEF Requests, Steps
  <2>3. PICK a, b \in BOOLEAN :
          \/ Goto(s, Expiry(w.seen))
          \/ req' = [req EXCEPT ![s] = [w EXCEPT !.step = "move", !.v = Nothing, !.clock = "running",
                                                 !.overdue = a, !.silent = b]]
    BY <1>9 DEF LockAnswer, LacksRecording, OutOfTime, w
  <2>4. req' \in [Slots -> Requests]
    <3>1. Goto(s, Expiry(w.seen)) => req' \in [Slots -> Requests]
      BY GotoType, ExpiryType
    <3>2. PICK x \in Requests :
            x = [w EXCEPT !.step = "move", !.v = Nothing, !.clock = "running", !.overdue = a, !.silent = b]
      BY <2>2
    <3>3. Goto(s, Expiry(w.seen)) \/ req' = [req EXCEPT ![s] = x]
      BY <2>3, <3>2
    <3>4. [req EXCEPT ![s] = x] \in [Slots -> Requests]
      BY ReqUpdate DEF TypeOK
    <3> QED
      BY <3>1, <3>3, <3>4
  <2>5. overran' \in [Questions -> [Phases -> {"no", "due", "lost"}]]
    <3>1. overran' = overran \/ overran' = [overran EXCEPT ![w.q]["answer"] = "due"]
      BY <1>9 DEF LockAnswer, w
    <3>2. "answer" \in Phases /\ "due" \in {"no", "due", "lost"}
          /\ overran \in [Questions -> [Phases -> {"no", "due", "lost"}]]
      BY DEF Phases, TypeOK
    <3>3. [overran EXCEPT ![w.q]["answer"] = "due"] \in [Questions -> [Phases -> {"no", "due", "lost"}]]
      BY <1>1, <3>2, OverranType
    <3> QED
      BY <3>1, <3>2, <3>3
  <2> QED
    BY <1>9, <2>1, <2>4, <2>5 DEF LockAnswer, TypeOK, SameClocks
<1>10. CASE MoveCursor(s)
  <2>1. w.q = w.seen.index
    BY <1>10 DEF MoveCursor, At, RequestsInv, RequestInv, w
  <2>2. row' \in Rows
    BY <1>1, <1>10, <2>1, MovedType DEF MoveCursor, w
  <2>3. starts' \in [Questions -> [Phases -> Nat]]
    BY <1>10, StartClockType, FirstPhaseType DEF MoveCursor, TypeOK
  <2>4. req' \in [Slots -> Requests]
    BY <1>1, <1>10, GotoType, ExpiryType DEF MoveCursor
  <2>5. overran' \in [Questions -> [Phases -> {"no", "due", "lost"}]]
    <3>1. overran' = overran \/ overran' = [overran EXCEPT ![w.q]["answer"] = "lost"]
      BY <1>10 DEF MoveCursor, AnswerLeft, w
    <3>2. "answer" \in Phases /\ "lost" \in {"no", "due", "lost"}
          /\ overran \in [Questions -> [Phases -> {"no", "due", "lost"}]]
      BY DEF Phases, TypeOK
    <3>3. [overran EXCEPT ![w.q]["answer"] = "lost"] \in [Questions -> [Phases -> {"no", "due", "lost"}]]
      BY <1>1, <3>2, OverranType
    <3> QED
      BY <3>1, <3>2, <3>3
  <2> QED
    BY <1>10, <2>2, <2>3, <2>4, <2>5 DEF MoveCursor, TypeOK
<1>11. CASE ListRows(s) \/ ListForMarks(s) \/ Grade(s)
  <2>1. /\ [Fresh("score", 0) EXCEPT !.sheet = responses] \in Requests
        /\ [w EXCEPT !.step = "marking", !.sheet = responses] \in Requests
        /\ [w EXCEPT !.step = "record", !.sheet = responses] \in Requests
    <3>1. \A x \in Requests : [x EXCEPT !.sheet = responses] \in Requests
      BY DEF Requests, TypeOK
    <3>2. \A step \in {"marking", "record"} :
            [w EXCEPT !.step = step, !.sheet = responses] \in Requests
      BY <1>1 DEF Requests, TypeOK, Steps
    <3>3. Fresh("score", 0) \in Requests
      BY <1>1, FreshType, QuestionsFact
    <3> QED
      BY <3>1, <3>2, <3>3
  <2>2. PICK x \in Requests : Finish(s) \/ req' = [req EXCEPT ![s] = x]
    BY <1>11, <2>1, FreshType, QuestionsFact DEF ListRows, ListForMarks, Grade, w
  <2>3. req' \in [Slots -> Requests]
    BY <2>2, FinishType, ReqUpdate DEF TypeOK
  <2> QED
    BY <1>11, <2>3 DEF ListRows, ListForMarks, Grade, TypeOK, SameClocks
<1>12. CASE ScoreRows(s)
  <2>1. responses' \in [Questions -> Responses]
    BY <1>1, <1>12, ScoredType DEF ScoreRows, TypeOK, w
  <2>2. req' \in [Slots -> Requests]
    BY <1>1, <1>12, GotoType, FinishType DEF ScoreRows
  <2> QED
    BY <1>12, <2>1, <2>2 DEF ScoreRows, TypeOK, SameClocks
<1>13. CASE ClosePaper(s)
  <2>1. row' \in Rows
    BY <1>13 DEF ClosePaper, TypeOK, Rows, Status
  <2> QED
    BY <1>13, <2>1, FinishType DEF ClosePaper, TypeOK, SameClocks
<1>14. CASE WriteMarks(s)
  <2>1. responses' \in [Questions -> Responses]
    BY <1>1, <1>14, MarkedType DEF WriteMarks, TypeOK, w
  <2> QED
    BY <1>14, <2>1, FinishType DEF WriteMarks, TypeOK, SameClocks
<1>15. CASE RecordScores(s)
  <2>1. responses' \in [Questions -> Responses]
    BY <1>1, <1>15, ScoredType DEF RecordScores, TypeOK, w
  <2>2. [w EXCEPT !.step = "publish"] \in Requests
    BY <1>1 DEF Requests, Steps
  <2> QED
    BY <1>15, <2>1, <2>2, ReqUpdate DEF RecordScores, TypeOK, SameClocks, w
<1>16. CASE PublishReport(s)
  <2>1. row' \in Rows
    BY <1>16 DEF PublishReport, TypeOK, Rows, Status
  <2>2. report' \in [Questions -> Answers \cup {Blank, Nothing}]
    BY <1>1, <1>16 DEF PublishReport, ReportOf, Responses, w
  <2> QED
    BY <1>16, <2>1, <2>2, FinishType DEF PublishReport, TypeOK, SameClocks
<1> QED
  BY <1>2, <1>3, <1>4, <1>5, <1>6, <1>7, <1>8, <1>9, <1>10, <1>11, <1>12, <1>13, <1>14,
     <1>15, <1>16 DEF Step

LEMMA EnvironmentType ==
  ASSUME TypeOK, ClockTick \/ OpenWindow \/ Deadline \/ CancelBooking
  PROVE  TypeOK'
<1>1. CASE ClockTick
  <2>1. row' \in Rows
    BY <1>1 DEF ClockTick, TypeOK, Rows
  <2> QED
    BY <1>1, <2>1 DEF ClockTick, TypeOK, SameClocks
<1>2. CASE OpenWindow \/ Deadline \/ CancelBooking
  BY <1>2 DEF OpenWindow, Deadline, CancelBooking, TypeOK, SameClocks
<1> QED
  BY <1>1, <1>2

LEMMA CrashType ==
  ASSUME TypeOK, NEW s \in Slots, Crash(s)
  PROVE  TypeOK'
  BY FinishType DEF Crash, TypeOK, SameClocks

----------------------------------------------------------------------------
(* The inductive invariant *)

LEMMA InitIInv == Init => IInv
<1> SUFFICES ASSUME Init PROVE IInv
  OBVIOUS
<1>1. TypeOK
  BY NewPaperType, NoRowsType, IdleType DEF Init, TypeOK, Phases
<1>2. RequestsInv
  BY DEF Init, RequestsInv, RequestInv, Idle
<1>3. RowInv /\ NoBeaconLost /\ MissingRecordingCountedOnce /\ PassedQuestionsLocked
  BY DEF Init, RowInv, NewPaper, NoBeaconLost, MissingRecordingCountedOnce,
         PassedQuestionsLocked, Questions
<1>4. ClocksInv /\ LockedHasAnswer /\ TimeoutsCounted /\ OverranInv
  BY DEF Init, ClocksInv, LockedHasAnswer, TimeoutsCounted, OverranInv, NoRows, NoRow, NewPaper,
         Questions, Phases
<1> QED
  BY <1>1, <1>2, <1>3, <1>4 DEF IInv

\* A step that leaves the cursor and the trail alone and respects locked rows
\* keeps the invariant, if it keeps the clocks and the beacons in order.
LEMMA SameTrailKeepsIInv ==
  ASSUME IInv, TypeOK', RowInv', NoBeaconLost', ClocksInv', TimeoutsCounted', OverranInv',
         row'.index = row.index, row'.missing = row.missing,
         \A q \in Questions : overran[q]["answer"] # "no" => overran'[q]["answer"] # "no",
         \A q \in Questions :
           /\ responses[q].locked => responses'[q].locked /\ responses'[q].answer = responses[q].answer
           /\ responses'[q].locked => Exists(responses'[q]),
         \A s \in Slots : req'[s] = req[s] \/ RequestInv(req[s])'
  PROVE  IInv'
<1>1. RequestsInv'
  <2> SUFFICES ASSUME NEW s \in Slots, req'[s] = req[s] PROVE RequestInv(req[s])'
    BY DEF RequestsInv
  <2>1. RequestInv(req[s]) /\ req[s].q \in Questions
    BY DEF IInv, RequestsInv, TypeOK, Requests
  <2> QED
    BY <2>1 DEF RequestInv
<1>2. PassedQuestionsLocked' /\ LockedHasAnswer'
  BY DEF IInv, PassedQuestionsLocked, LockedHasAnswer
<1>3. MissingRecordingCountedOnce'
  BY DEF IInv, PassedQuestionsLocked, MissingRecordingCountedOnce
<1> QED
  BY <1>1, <1>2, <1>3 DEF IInv

\* The same of a step that starts no clock and leaves the quiz state open, or shut.
LEMMA SamePaperKeepsIInv ==
  ASSUME IInv, TypeOK', RowInv', NoBeaconLost',
         row'.opened = row.opened, row'.index = row.index, row'.phase = row.phase,
         row'.missing = row.missing, row'.timeouts = row.timeouts, UNCHANGED <<starts, overran>>,
         \A q \in Questions :
           /\ responses[q].locked => responses'[q].locked /\ responses'[q].answer = responses[q].answer
           /\ responses'[q].locked => Exists(responses'[q]),
         \A s \in Slots : req'[s] = req[s] \/ RequestInv(req[s])'
  PROVE  IInv'
<1>1. ClocksInv'
  BY DEF IInv, ClocksInv
<1>2. TimeoutsCounted' /\ OverranInv'
  BY DEF IInv, TimeoutsCounted, OverranInv
<1> QED
  BY <1>1, <1>2, SameTrailKeepsIInv

LEMMA BeginKeepsIInv ==
  ASSUME IInv, NEW s \in Slots, NEW w \in Requests, Begin(s, w), RequestInv(w)
  PROVE  IInv'
<1>1. TypeOK'
  BY BeginType DEF IInv
<1>2. \A t \in Slots : req'[t] = req[t] \/ RequestInv(req[t])'
  BY DEF Begin, RequestInv, LacksRecording, IInv, TypeOK
<1> QED
  BY <1>1, <1>2, SamePaperKeepsIInv DEF Begin, IInv, LockedHasAnswer, RowInv, NoBeaconLost

LEMMA FreshCalm ==
  ASSUME NEW step, NEW q, step \notin {"draft", "lock", "move", "list", "score"}
  PROVE  RequestInv(Fresh(step, q))
  BY DEF RequestInv, Fresh, Idle

LEMMA ArriveKeepsIInv ==
  ASSUME IInv, NEW s \in Slots, Arrive(s)
  PROVE  IInv'
<1>1. /\ {"expiring", "settling", "cancelling", "idle", "open", "draft", "start", "beacon", "phase",
           "turn", "lock", "list", "entering", "grade"} \subseteq Steps
      /\ row \in Rows /\ row.index \in 0..N /\ Nothing \in Answers \cup {Nothing}
  BY DEF Steps, IInv, TypeOK, Rows
<1>2. ASSUME NEW step \in Steps, NEW q \in Questions, Begin(s, Fresh(step, q)),
             step \notin {"draft", "lock", "move", "list", "score"}
      PROVE  IInv'
  BY <1>2, BeginKeepsIInv, FreshCalm, FreshType
<1>3. ASSUME NEW q \in Questions, NEW v \in Answers \cup {Nothing}, q = row.index, NEW w,
             \/ w = Stale("draft", q, v)
             \/ w = [Stale("lock", q, v) EXCEPT !.clock = EnsureQuizState(row).clock],
             Begin(s, w)
      PROVE  IInv'
  <2>1. /\ \A step \in {"draft", "lock"} : Stale(step, q, v) \in Requests
        /\ w \in Requests
    BY <1>1, <1>3, StaleType, ClockedType DEF IInv, TypeOK
  <2>2. RequestInv(w)
    <3>1. \A step \in {"draft", "lock"} :
            /\ Stale(step, q, v).step = step /\ Stale(step, q, v).q = q
            /\ Stale(step, q, v).seen = SeenOf(row)
      BY DEF Stale, Idle
    <3>2. w.step \in {"draft", "lock"} /\ w.q = q /\ w.seen = SeenOf(row)
      BY <1>3, <2>1, <3>1 DEF Requests
    <3>3. SeenOf(row).index = row.index /\ row.index <= row.index
      BY <1>1 DEF SeenOf
    <3> QED
      BY <1>3, <3>2, <3>3 DEF RequestInv
  <2> QED
    BY <1>3, <2>1, <2>2, BeginKeepsIInv
<1>4. CASE GetExam(s) \/ ArriveLate(s) \/ SendBeacon(s) \/ PutScores(s) \/ PostFinalize(s)
  BY <1>1, <1>2, <1>4, QuestionsFact DEF GetExam, ArriveLate, SendBeacon, PutScores, PostFinalize
<1>5. CASE PostSubmit(s)
  <2>1. Stale("list", 0, Nothing) \in Requests
    BY <1>1, StaleType, QuestionsFact DEF IInv, TypeOK
  <2>2. RequestInv(Stale("list", 0, Nothing))
    <3>1. /\ Stale("list", 0, Nothing).step = "list"
          /\ Stale("list", 0, Nothing).seen = SeenOf(row)
      BY DEF Stale, Idle
    <3>2. SeenOf(row).index = row.index /\ row.index <= row.index
      BY <1>1 DEF SeenOf
    <3> QED
      BY <3>1, <3>2 DEF RequestInv
  <2> QED
    BY <1>5, <2>1, <2>2, BeginKeepsIInv DEF PostSubmit
<1>6. CASE Sweep(s)
  BY <1>1, <1>2, <1>6, ExpiryType, QuestionsFact DEF Sweep
<1>7. ASSUME NEW q \in Questions, StartAnswering(s, q)
      PROVE  IInv'
  BY <1>1, <1>2, <1>7 DEF StartAnswering
<1>8. ASSUME NEW q \in Questions, NEW v \in Answers \cup {Nothing}, SaveDraft(s, q, v)
      PROVE  IInv'
  BY <1>1, <1>2, <1>3, <1>8, QuestionsFact DEF SaveDraft
<1>9. ASSUME NEW q \in Questions, NEW v \in Answers \cup {Nothing}, PostNext(s, q, v)
      PROVE  IInv'
  BY <1>1, <1>2, <1>3, <1>9 DEF PostNext
<1> QED
  BY <1>4, <1>5, <1>6, <1>7, <1>8, <1>9 DEF Arrive

----------------------------------------------------------------------------
(* Steps of a request *)

\* What ends a request, or sends it on with nothing it has read, is calm.
LEMMA GotoCalm ==
  ASSUME TypeOK, NEW s \in Slots, NEW step, step \notin {"draft", "lock", "move", "list", "score"},
         Goto(s, step) \/ Finish(s)
  PROVE  \A t \in Slots : req'[t] = req[t] \/ RequestInv(req[t])'
<1>1. \A t \in Slots : t # s => req'[t] = req[t]
  BY DEF Goto, Finish, TypeOK
<1>2. req'[s].step \notin {"draft", "lock", "move", "list", "score"}
  <2>1. Idle.step = "idle" /\ Fresh(step, 0).step = step
    BY DEF Idle, Fresh
  <2>2. req'[s] = Fresh(step, 0) \/ req'[s] = Idle
    BY DEF Goto, Finish, TypeOK
  <2> QED
    BY <2>1, <2>2
<1> QED
  BY <1>1, <1>2 DEF RequestInv

LEMMA FinishCalm ==
  ASSUME TypeOK, NEW s \in Slots, Finish(s)
  PROVE  \A t \in Slots : req'[t] = req[t] \/ RequestInv(req[t])'
<1>1. "idle" \notin {"draft", "lock", "move", "list", "score"}
  OBVIOUS
<1> QED
  BY <1>1, GotoCalm

\* Locked rows survive the decisions of a draft, of the scoring and of the marks.
KeepsLock(r, new) ==
  /\ new.locked = r.locked
  /\ r.locked => new.answer = r.answer

LEMMA DraftKeepsLock ==
  ASSUME NEW r \in Responses, r.locked => Exists(r), NEW w \in Requests
  PROVE  KeepsLock(r, Drafted(r, w))
  BY DEF KeepsLock, Drafted, Exists, Responses, Requests, NoRow

LEMMA ScoresKeepLock ==
  ASSUME NEW r \in Responses, r.locked => Exists(r), NEW listed, NEW q
  PROVE  /\ KeepsLock(r, Scored(r, listed, q))
         /\ (~Exists(listed) => ~Exists(r)) => KeepsLock(r, Filled(r, listed, q))
<1>1. KeepsLock(r, Scored(r, listed, q))
  BY DEF KeepsLock, Scored, Exists, Responses
<1>2. CASE Exists(listed)
  BY <1>1, <1>2 DEF Filled
<1>3. CASE ~Exists(listed)
  BY <1>1, <1>3 DEF KeepsLock, Filled, Exists, Responses, NoRow
<1> QED
  BY <1>2, <1>3

LEMMA MarksKeepLock ==
  ASSUME NEW r \in Responses, r.locked => Exists(r), NEW listed, NEW c \in BOOLEAN,
         ~Exists(listed) /\ ~c => ~Exists(r)
  PROVE  KeepsLock(r, Marked(r, listed, c))
  BY DEF KeepsLock, Marked, Exists, Responses, NoRow

\* expireExam, the hand-in and the report write the status of the row only.
LEMMA CloseKeepsIInv ==
  ASSUME IInv, TypeOK', NEW s \in Slots,
         Expire(s) \/ CancelPaper(s) \/ ClosePaper(s) \/ PublishReport(s)
  PROVE  IInv'
<1> DEFINE Kept(r) ==
      /\ r.opened = row.opened /\ r.index = row.index /\ r.phase = row.phase
      /\ r.missing = row.missing /\ r.timeouts = row.timeouts
      /\ r.beacons = row.beacons /\ r.started = row.started
      /\ r.status = "assigned" => row.status = "assigned"
<1>1. Kept(row')
  <2>1. row \in Rows
    BY DEF IInv, TypeOK
  <2>2. Kept(Expired(row))
    BY <2>1 DEF Expired, Rows
  <2>3. Kept(Cancelled(row))
    BY <2>1 DEF Cancelled, Rows
  <2>4. ASSUME NEW st \in {"submitted", "scored"} PROVE Kept([row EXCEPT !.status = st])
    BY <2>1 DEF Rows
  <2> HIDE DEF Kept
  <2>5. CASE Expire(s)
    BY <2>2, <2>5 DEF Expire
  <2>6. CASE CancelPaper(s)
    BY <2>3, <2>6 DEF CancelPaper
  <2>7. CASE ClosePaper(s) \/ PublishReport(s)
    BY <2>4, <2>7 DEF ClosePaper, PublishReport
  <2> QED
    BY <2>5, <2>6, <2>7
<1>2. UNCHANGED <<responses, starts, begun, heard, overran>>
  BY DEF Expire, CancelPaper, ClosePaper, PublishReport, SameClocks
<1>3. RowInv' /\ NoBeaconLost'
  BY <1>1, <1>2 DEF IInv, RowInv, NoBeaconLost
<1>4. \A t \in Slots : req'[t] = req[t] \/ RequestInv(req[t])'
  BY GotoCalm DEF Expire, CancelPaper, ClosePaper, PublishReport, IInv
<1> QED
  BY <1>1, <1>2, <1>3, <1>4, SamePaperKeepsIInv DEF IInv, LockedHasAnswer

\* Drafts, scores and marks neither lock a row nor change a locked one.
LEMMA ResponsesKeepLocks ==
  ASSUME IInv, NEW s \in Slots, NEW q \in Questions,
         WriteDraft(s) \/ ScoreRows(s) \/ WriteMarks(s) \/ RecordScores(s)
  PROVE  KeepsLock(responses[q], responses'[q])
<1> DEFINE w == req[s]
<1>0. /\ w \in Requests /\ w.q \in Questions /\ w.sheet \in [Questions -> Responses]
      /\ responses \in [Questions -> Responses]
      /\ \A k \in Questions : responses[k].locked => Exists(responses[k])
  BY DEF IInv, TypeOK, Requests, LockedHasAnswer
<1>1. CASE WriteDraft(s)
  <2>1. responses'[q] = responses[q] \/ responses'[q] = Drafted(responses[q], w)
    BY <1>0, <1>1 DEF WriteDraft
  <2> QED
    BY <1>0, <2>1, DraftKeepsLock DEF KeepsLock
<1>2. CASE ScoreRows(s)
  <2>1. CASE Collides(w.sheet)
    <3>1. responses'[q] = Scored(responses[q], w.sheet[q], q)
      BY <1>2, <2>1 DEF ScoreRows
    <3> QED
      BY <1>0, <3>1, ScoresKeepLock DEF KeepsLock
  <2>2. CASE ~Collides(w.sheet)
    <3>1. responses'[q] = Filled(responses[q], w.sheet[q], q)
      BY <1>2, <2>2 DEF ScoreRows
    <3>2. ~Exists(w.sheet[q]) => ~Exists(responses[q])
      BY <2>2 DEF Collides
    <3> QED
      BY <1>0, <3>1, <3>2, ScoresKeepLock DEF KeepsLock
  <2> QED
    BY <2>1, <2>2
<1>3. CASE WriteMarks(s)
  <2> DEFINE collides == \E k \in OpenQuestions : ~Exists(w.sheet[k]) /\ Exists(responses[k])
  <2>1. CASE q \in OpenQuestions
    <3>1. PICK c \in BOOLEAN : c = collides
      OBVIOUS
    <3>2. responses'[q] = Marked(responses[q], w.sheet[q], c)
      BY <1>3, <2>1, <3>1 DEF WriteMarks
    <3>3. ~Exists(w.sheet[q]) /\ ~c => ~Exists(responses[q])
      BY <2>1, <3>1
    <3> QED
      BY <1>0, <3>2, <3>3, MarksKeepLock DEF KeepsLock
  <2>2. CASE q \notin OpenQuestions
    <3>1. responses'[q] = responses[q]
      BY <1>3, <2>2 DEF WriteMarks
    <3> QED
      BY <3>1 DEF KeepsLock
  <2> QED
    BY <2>1, <2>2
<1>4. CASE RecordScores(s)
  <2>1. responses'[q] = Scored(responses[q], w.sheet[q], q)
    BY <1>4 DEF RecordScores
  <2> QED
    BY <1>0, <2>1, ScoresKeepLock DEF KeepsLock
<1> QED
  BY <1>1, <1>2, <1>3, <1>4

\* Drafts, scores and marks write response rows only.
LEMMA ResponsesKeepIInv ==
  ASSUME IInv, TypeOK', NEW s \in Slots,
         WriteDraft(s) \/ ScoreRows(s) \/ WriteMarks(s) \/ RecordScores(s)
  PROVE  IInv'
<1> DEFINE w == req[s]
<1>1. UNCHANGED <<row, starts, begun, heard, overran>>
  BY DEF WriteDraft, ScoreRows, WriteMarks, RecordScores, SameClocks
<1>2. RowInv' /\ NoBeaconLost'
  BY <1>1 DEF IInv, RowInv, NoBeaconLost
<1>3. /\ w \in Requests /\ w.q \in Questions /\ w.sheet \in [Questions -> Responses]
      /\ responses \in [Questions -> Responses]
      /\ \A q \in Questions : responses[q].locked => Exists(responses[q])
  BY DEF IInv, TypeOK, Requests, LockedHasAnswer
<1>4. \A q \in Questions : KeepsLock(responses[q], responses'[q])
  BY ResponsesKeepLocks
<1>5. \A t \in Slots : req'[t] = req[t] \/ RequestInv(req[t])'
  <2>1. CASE WriteDraft(s)
    BY <2>1, GotoCalm, ExpiryType DEF WriteDraft, IInv
  <2>2. CASE ScoreRows(s) \/ WriteMarks(s)
    <3>1. TypeOK /\ (Goto(s, "close") \/ Finish(s))
      BY <2>2 DEF ScoreRows, WriteMarks, IInv
    <3>2. "close" \notin {"draft", "lock", "move", "list", "score"}
      OBVIOUS
    <3> QED
      BY <3>1, <3>2, GotoCalm, FinishCalm
  <2>3. CASE RecordScores(s)
    BY <1>3, <2>3 DEF RecordScores, RequestInv, Requests, IInv, TypeOK
  <2> QED
    BY <2>1, <2>2, <2>3
<1> QED
  BY <1>1, <1>2, <1>3, <1>4, <1>5, SamePaperKeepsIInv DEF KeepsLock, Exists

\* A hand-in that is not refused has listed a row for every question: either none
\* is unanswered, or the walk it read was complete and every passed row is locked.
LEMMA SheetIsFull ==
  ASSUME IInv, NEW s \in Slots, ListRows(s), ~Finish(s)
  PROVE  /\ req'[s].step = "score"
         /\ \A q \in Questions : Exists(req'[s].sheet[q])
<1>1. /\ req'[s] = [Fresh("score", 0) EXCEPT !.sheet = responses]
      /\ Unanswered(responses) = {} \/ req[s].seen.index >= N
  BY DEF ListRows, IInv, TypeOK
<1>2. Fresh("score", 0) \in Requests /\ Fresh("score", 0).step = "score"
  BY FreshType, QuestionsFact DEF Steps, Fresh, Idle
<1>3. req'[s].step = "score" /\ req'[s].sheet = responses
  BY <1>1, <1>2 DEF Requests
<1>4. ASSUME NEW q \in Questions PROVE Exists(responses[q])
  <2>1. CASE Unanswered(responses) = {}
    BY <2>1 DEF Unanswered, Exists
  <2>2. CASE req[s].seen.index >= N
    <3>1. req[s].seen.index <= row.index /\ req[s].seen.index \in Int /\ row.index \in Int
      BY DEF ListRows, At, IInv, RequestsInv, RequestInv, TypeOK, Requests, Seen, Rows
    <3>2. q < row.index
      BY <2>2, <3>1, QuestionsFact
    <3> QED
      BY <3>2 DEF IInv, PassedQuestionsLocked, LockedHasAnswer
  <2> QED
    BY <1>1, <2>1, <2>2
<1> QED
  BY <1>3, <1>4

\* Listing steps only read.
LEMMA ListsKeepIInv ==
  ASSUME IInv, TypeOK', NEW s \in Slots, ListRows(s) \/ ListForMarks(s) \/ Grade(s) \/ Crash(s)
  PROVE  IInv'
<1>1. UNCHANGED <<row, responses, starts, begun, heard, overran>>
  BY DEF ListRows, ListForMarks, Grade, Crash, SameClocks
<1>2. RowInv' /\ NoBeaconLost'
  BY <1>1 DEF IInv, RowInv, NoBeaconLost
<1>3. CASE Finish(s)
  BY <1>1, <1>2, <1>3, GotoCalm, SamePaperKeepsIInv DEF IInv, LockedHasAnswer
<1>4. CASE ~Finish(s)
  <2>1. req[s] \in Requests /\ Fresh("score", 0) \in Requests /\ "score" \in Steps
    BY FreshType, QuestionsFact DEF IInv, TypeOK, Steps
  <2>2. req \in [Slots -> Requests] /\ \A x \in Requests : [x EXCEPT !.sheet = responses].step = x.step
    BY DEF IInv, TypeOK, Requests
  <2>3. /\ Fresh("score", 0).step = "score"
        /\ \A step \in Steps : [req[s] EXCEPT !.step = step, !.sheet = responses].step = step
    BY <2>1 DEF Fresh, Idle, Requests
  <2>4. req'[s].step \in {"score", "marking", "record"} /\ \A t \in Slots : t # s => req'[t] = req[t]
    <3>1. CASE ListRows(s)
      BY <1>4, <2>1, <2>2, <2>3, <3>1 DEF ListRows
    <3>2. CASE ListForMarks(s)
      BY <2>2, <2>3, <3>2 DEF ListForMarks, Steps
    <3>3. CASE Grade(s)
      <4>1. req' = [req EXCEPT ![s] = [req[s] EXCEPT !.step = "record", !.sheet = responses]]
        BY <1>4, <3>3 DEF Grade
      <4> QED
        BY <2>2, <2>3, <4>1 DEF Steps
    <3> QED
      BY <1>4, <3>1, <3>2, <3>3 DEF Crash
  <2>5. req'[s].step = "score" => \A q \in Questions : Exists(req'[s].sheet[q])
    <3>1. CASE ListRows(s)
      BY <1>4, <3>1, SheetIsFull
    <3>2. CASE ListForMarks(s)
      BY <2>2, <2>3, <3>2 DEF ListForMarks, Steps
    <3>3. CASE Grade(s)
      <4>1. req' = [req EXCEPT ![s] = [req[s] EXCEPT !.step = "record", !.sheet = responses]]
        BY <1>4, <3>3 DEF Grade
      <4> QED
        BY <2>2, <2>3, <4>1 DEF Steps
    <3> QED
      BY <1>4, <3>1, <3>2, <3>3 DEF Crash
  <2>6. \A t \in Slots : req'[t] = req[t] \/ RequestInv(req[t])'
    BY <2>4, <2>5 DEF RequestInv
  <2> QED
    BY <1>1, <1>2, <2>6, SamePaperKeepsIInv DEF IInv, LockedHasAnswer
<1> QED
  BY <1>3, <1>4

LEMMA StartPaperKeepsIInv ==
  ASSUME IInv, TypeOK', NEW s \in Slots, StartPaper(s)
  PROVE  IInv'
<1>1. /\ row'.opened = row.opened /\ row'.index = row.index /\ row'.phase = row.phase
      /\ row'.missing = row.missing /\ row'.timeouts = row.timeouts
      /\ row'.beacons = row.beacons
      /\ IF row.status = "assigned" THEN row'.status = "in_progress" /\ row'.started /\ begun' = begun + 1
         ELSE row'.status = row.status /\ row'.started = row.started /\ begun' = begun
  BY DEF StartPaper, IInv, TypeOK, Rows
<1>2. RowInv' /\ NoBeaconLost'
  BY <1>1 DEF StartPaper, IInv, RowInv, NoBeaconLost, TypeOK, Rows
<1>3. \A t \in Slots : req'[t] = req[t] \/ RequestInv(req[t])'
  BY FinishCalm DEF StartPaper, IInv
<1> QED
  BY <1>1, <1>2, <1>3, SamePaperKeepsIInv DEF StartPaper, IInv, LockedHasAnswer

----------------------------------------------------------------------------
(* Steps that start a clock *)

\* Seeding the quiz state of a paper loses nothing.
LEMMA EnsureFacts ==
  ASSUME IInv, NEW quiz, quiz = EnsureQuizState(row)
  PROVE  /\ quiz \in Rows /\ quiz.opened
         /\ quiz.index = row.index /\ quiz.missing = row.missing /\ quiz.beacons = row.beacons
         /\ quiz.timeouts = row.timeouts
         /\ quiz.status = row.status /\ quiz.started = row.started
         /\ row.opened => quiz.phase = row.phase
         /\ ~row.opened => quiz.phase = FirstPhase(0)
<1>1. row \in Rows /\ quiz \in Rows
  BY EnsureType DEF IInv, TypeOK
<1>2. CASE row.opened
  BY <1>1, <1>2 DEF EnsureQuizState
<1>3. CASE ~row.opened
  <2>1. row.index = 0 /\ row.beacons = 0
    BY <1>3 DEF IInv, RowInv
  <2>2. \A q \in Questions : row.missing[q] = 0
    BY <2>1 DEF IInv, MissingRecordingCountedOnce, Questions
  <2>3. row.missing = [q \in Questions |-> 0]
    BY <1>1, <2>2 DEF Rows
  <2>4. row.timeouts = [q \in Questions |-> [p \in Phases |-> 0]]
    <3>1. \A q \in Questions : ~(q < row.index) /\ overran[q]["review"] = "no"
      BY <1>3, <2>1 DEF IInv, OverranInv, Questions
    <3>2. \A q \in Questions, p \in Phases : row.timeouts[q][p] = 0
      BY <3>1 DEF IInv, TimeoutsCounted, Phases
    <3>3. row.timeouts \in [Questions -> [Phases -> Nat]]
      BY <1>1 DEF Rows
    <3>4. \A q \in Questions : row.timeouts[q] = [p \in Phases |-> 0]
      BY <3>2, <3>3
    <3> QED
      BY <3>3, <3>4
  <2>5. quiz = [row EXCEPT !.opened = TRUE, !.index = 0, !.phase = FirstPhase(0), !.clock = "running",
                           !.beacons = 0, !.missing = [q \in Questions |-> 0],
                           !.timeouts = [q \in Questions |-> [p \in Phases |-> 0]], !.expired = FALSE]
    BY <1>3 DEF EnsureQuizState
  <2> QED
    BY <1>1, <1>3, <2>1, <2>3, <2>4, <2>5 DEF Rows
<1> QED
  BY <1>2, <1>3

LEMMA StartClockFacts ==
  ASSUME TypeOK, NEW k \in Questions, NEW p \in Phases, StartClock(k, p)
  PROVE  \A q \in Questions, x \in Phases :
           starts'[q][x] = IF q = k /\ x = p THEN starts[q][x] + 1 ELSE starts[q][x]
<1>1. starts' = [starts EXCEPT ![k] = [starts[k] EXCEPT ![p] = starts[k][p] + 1]]
  BY DEF StartClock
<1>2. starts \in [Questions -> [Phases -> Nat]]
  BY DEF TypeOK
<1> QED
  BY <1>1, <1>2

\* The first clock of a paper starts when its quiz state is seeded.
LEMMA SeedKeepsClocks ==
  ASSUME IInv, row'.opened, row'.index = row.index,
         row.opened => row'.phase = row.phase,
         ~row.opened => row'.phase = FirstPhase(0),
         IF row.opened THEN UNCHANGED starts ELSE StartClock(0, FirstPhase(0))
  PROVE  ClocksInv'
<1>1. CASE row.opened
  BY <1>1 DEF IInv, ClocksInv
<1>2. CASE ~row.opened
  <2>1. \A q \in Questions, p \in Phases : starts[q][p] = 0
    BY <1>2 DEF IInv, ClocksInv
  <2>2. row'.index = 0
    BY <1>2 DEF IInv, RowInv
  <2>3. \A q \in Questions, p \in Phases :
          starts'[q][p] = IF q = 0 /\ p = FirstPhase(0) THEN 1 ELSE 0
    BY <1>2, <2>1, StartClockFacts, QuestionsFact, FirstPhaseType DEF IInv
  <2>4. row'.phase \in {"review", "answer"}
    BY <1>2, FirstPhaseType DEF Phases
  <2> QED
    BY <1>2, <2>2, <2>3, <2>4 DEF ClocksInv, Phases
<1> QED
  BY <1>1, <1>2

\* Nothing is noted of a paper without a quiz state, so seeding one contradicts nothing.
LEMMA SeedKeepsOverran ==
  ASSUME IInv, row'.opened, row'.index = row.index, row'.timeouts = row.timeouts,
         row.opened => row'.phase = row.phase, UNCHANGED <<responses, overran>>
  PROVE  TimeoutsCounted' /\ OverranInv'
  BY DEF IInv, TimeoutsCounted, OverranInv

LEMMA OpenKeepsIInv ==
  ASSUME IInv, TypeOK', NEW s \in Slots, OpenExam(s)
  PROVE  IInv'
<1> DEFINE entered == IF SetsStart(row) THEN [row EXCEPT !.status = "in_progress", !.started = TRUE] ELSE row
<1>1. row \in Rows /\ row' = EnsureQuizState(entered)
  BY DEF OpenExam, Opened, IInv, TypeOK
<1>2. PICK quiz : quiz = EnsureQuizState(row)
  OBVIOUS
<1>3. /\ row'.opened /\ row'.index = quiz.index /\ row'.missing = quiz.missing
      /\ row'.beacons = quiz.beacons /\ row'.phase = quiz.phase /\ row'.timeouts = quiz.timeouts
      /\ IF SetsStart(row) THEN row'.status = "in_progress" /\ row'.started
         ELSE row'.status = row.status /\ row'.started = row.started
  <2>1. CASE SetsStart(row)
    <3>1. /\ entered \in Rows /\ entered.status = "in_progress" /\ entered.started
      BY <1>1, <2>1 DEF Rows, Status
    <3>2. /\ entered.opened = row.opened /\ entered.index = row.index /\ entered.phase = row.phase
          /\ entered.missing = row.missing /\ entered.beacons = row.beacons
          /\ entered.timeouts = row.timeouts
      BY <1>1, <2>1 DEF Rows
    <3> HIDE DEF entered
    <3> QED
      BY <1>1, <1>2, <2>1, <3>1, <3>2 DEF EnsureQuizState, Rows
  <2>2. CASE ~SetsStart(row)
    BY <1>1, <1>2, <2>2, EnsureFacts DEF IInv
  <2> QED
    BY <2>1, <2>2
<1>4. /\ row'.index = row.index /\ row'.missing = row.missing /\ row'.beacons = row.beacons
      /\ row'.timeouts = row.timeouts
      /\ row.opened => row'.phase = row.phase
      /\ ~row.opened => row'.phase = FirstPhase(0)
  BY <1>2, <1>3, EnsureFacts
<1>5. SetsStart(row) => ~row.started
  BY DEF SetsStart, IInv, RowInv
<1>6. RowInv'
  BY <1>1, <1>3, <1>5 DEF OpenExam, SetsStart, IInv, RowInv, TypeOK, Rows
<1>7. NoBeaconLost'
  BY <1>4 DEF OpenExam, IInv, NoBeaconLost
<1>8. ClocksInv'
  BY <1>3, <1>4, SeedKeepsClocks DEF OpenExam
<1>9. \A t \in Slots : req'[t] = req[t] \/ RequestInv(req[t])'
  <2>1. PICK step : step = Expiry(row') /\ Goto(s, step)
    BY DEF OpenExam
  <2>2. step \notin {"draft", "lock", "move", "list", "score"}
    BY <2>1, ExpiryType
  <2> QED
    BY <2>1, <2>2, GotoCalm DEF IInv
<1>10. TimeoutsCounted' /\ OverranInv'
  BY <1>3, <1>4, SeedKeepsOverran DEF OpenExam
<1> QED
  BY <1>4, <1>6, <1>7, <1>8, <1>9, <1>10, SameTrailKeepsIInv DEF OpenExam, IInv, LockedHasAnswer

LEMMA BeaconKeepsIInv ==
  ASSUME IInv, TypeOK', NEW s \in Slots, RecordBeacon(s)
  PROVE  IInv'
<1>1. \A t \in Slots : req'[t] = req[t] \/ RequestInv(req[t])'
  BY GotoCalm DEF RecordBeacon, IInv
<1>2. CASE ~IsOpen(row)
  BY <1>1, <1>2, SamePaperKeepsIInv DEF RecordBeacon, IInv, LockedHasAnswer, RowInv, NoBeaconLost
<1>3. CASE IsOpen(row)
  <2>1. PICK quiz : quiz = EnsureQuizState(row)
    OBVIOUS
  <2>2. /\ row'.opened /\ row'.index = quiz.index /\ row'.missing = quiz.missing
        /\ row'.beacons = quiz.beacons + 1 /\ row'.phase = quiz.phase
        /\ row'.timeouts = quiz.timeouts
        /\ row'.status = quiz.status /\ row'.started = quiz.started
    <3>1. quiz \in Rows /\ quiz.opened /\ row' = [quiz EXCEPT !.beacons = quiz.beacons + 1]
      BY <1>3, <2>1, EnsureFacts DEF RecordBeacon, WithBeacon
    <3> QED
      BY <3>1 DEF Rows
  <2>3. /\ row'.index = row.index /\ row'.missing = row.missing /\ row'.beacons = row.beacons + 1
        /\ row'.timeouts = row.timeouts
        /\ row.opened => row'.phase = row.phase
        /\ ~row.opened => row'.phase = FirstPhase(0)
        /\ row'.status = row.status /\ row'.started = row.started
    BY <2>1, <2>2, EnsureFacts
  <2>4. RowInv' /\ NoBeaconLost'
    BY <1>3, <2>2, <2>3 DEF RecordBeacon, IInv, RowInv, NoBeaconLost
  <2>5. ClocksInv'
    BY <1>3, <2>2, <2>3, SeedKeepsClocks DEF RecordBeacon
  <2>6. TimeoutsCounted' /\ OverranInv'
    BY <1>3, <2>2, <2>3, SeedKeepsOverran DEF RecordBeacon
  <2> QED
    BY <1>1, <2>3, <2>4, <2>5, <2>6, SameTrailKeepsIInv DEF RecordBeacon, IInv, LockedHasAnswer
<1> QED
  BY <1>2, <1>3

\* The answer phase of a question is started by whichever of /phase and /next
\* finds its review still on, and by no other.
LEMMA AnsweringKeepsIInv ==
  ASSUME IInv, TypeOK', NEW s \in Slots, BeginAnswer(s) \/ TurnPhase(s)
  PROVE  IInv'
<1> DEFINE k == req[s].q
           turns == IsOpen(row) /\ ~ExamHasExpired(row) /\ InReview(row, k)
<1>1. k \in Questions
  BY DEF IInv, TypeOK, Requests
<1>2. \A t \in Slots : req'[t] = req[t] \/ RequestInv(req[t])'
  <2>1. PICK step : (step = "idle" \/ step = Expiry(row)) /\ Goto(s, step)
    BY DEF BeginAnswer, TurnPhase
  <2>2. step \notin {"draft", "lock", "move", "list", "score"}
    BY <2>1, ExpiryType
  <2> QED
    BY <2>1, <2>2, GotoCalm DEF IInv
<1>3. CASE ~turns
  <2>1. UNCHANGED <<row, starts, responses, begun, heard, overran>>
    BY <1>3 DEF BeginAnswer, TurnPhase
  <2> QED
    BY <1>2, <2>1, SamePaperKeepsIInv DEF IInv, LockedHasAnswer, RowInv, NoBeaconLost
<1>4. CASE turns
  <2>1. /\ row' = Answering(row) /\ StartClock(k, "answer") /\ ReviewLeft(k)
        /\ UNCHANGED <<responses, begun, heard>>
    BY <1>4 DEF BeginAnswer, TurnPhase
  <2>2. PICK quiz : quiz = EnsureQuizState(row)
    OBVIOUS
  <2>3. quiz.index = k /\ quiz.phase = "review"
    BY <1>4, <2>2 DEF InReview
  <2>4. /\ row'.opened /\ row'.index = quiz.index /\ row'.missing = quiz.missing
        /\ row'.beacons = quiz.beacons /\ row'.phase = "answer"
        /\ row'.timeouts = IF quiz.clock = "late" THEN Overrun(quiz.timeouts, quiz.index, "review")
                           ELSE quiz.timeouts
        /\ row'.status = quiz.status /\ row'.started = quiz.started
    <3>1. PICK t : t = IF quiz.clock = "late" THEN Overrun(quiz.timeouts, quiz.index, "review")
                       ELSE quiz.timeouts
      OBVIOUS
    <3>2. /\ quiz \in Rows /\ quiz.opened
          /\ row' = [quiz EXCEPT !.phase = "answer", !.clock = "running", !.timeouts = t]
      BY <2>1, <2>2, <3>1, EnsureFacts DEF Answering
    <3> QED
      BY <3>1, <3>2 DEF Rows
  <2>5. /\ row'.index = row.index /\ row'.missing = row.missing /\ row'.beacons = row.beacons
        /\ row'.status = row.status /\ row'.started = row.started
        /\ row.index = k
        /\ row.opened => row.phase = "review"
    BY <2>2, <2>3, <2>4, EnsureFacts
  <2>6. RowInv' /\ NoBeaconLost'
    BY <2>1, <2>4, <2>5 DEF IInv, RowInv, NoBeaconLost
  <2>7. ClocksInv'
    <3> HIDE DEF k, turns
    <3>0. /\ k \in Int /\ "answer" \in Phases
          /\ \A q \in Questions, p \in Phases :
               /\ starts[q][p] \in {0, 1}
               /\ starts[q][p] = 1 =>
                    /\ row.opened
                    /\ q < row.index \/ (q = row.index /\ (p = "review" \/ row.phase = "answer"))
      BY <1>1 DEF IInv, ClocksInv, Phases, Questions
    <3>1. starts[k]["answer"] = 0
      BY <1>1, <2>5, <3>0
    <3>2. \A q \in Questions, x \in Phases :
            starts'[q][x] = IF q = k /\ x = "answer" THEN starts[q][x] + 1 ELSE starts[q][x]
      BY <1>1, <2>1, StartClockFacts DEF IInv, Phases
    <3> QED
      BY <1>1, <2>4, <2>5, <3>0, <3>1, <3>2 DEF ClocksInv
  <2>8. /\ row.timeouts \in [Questions -> [Phases -> Nat]] /\ "review" \in Phases /\ "answer" \in Phases
        /\ overran \in [Questions -> [Phases -> {"no", "due", "lost"}]]
        /\ overran[k]["review"] = "no" /\ row.timeouts[k]["review"] = 0
    <3>1. row.index = k /\ ~(k < row.index) /\ (row.opened => row.phase # "answer")
      BY <1>1, <2>5 DEF Questions
    <3>2. overran[k]["review"] = "no"
      BY <1>1, <3>1 DEF IInv, OverranInv
    <3> QED
      BY <1>1, <3>2 DEF IInv, TypeOK, Rows, Phases, TimeoutsCounted
  <2>9. /\ \A q \in Questions, p \in Phases :
            row'.timeouts[q][p] = IF quiz.clock = "late" /\ q = k /\ p = "review" THEN 1
                                  ELSE row.timeouts[q][p]
        /\ \A q \in Questions, p \in Phases :
            overran'[q][p] = IF quiz.clock = "late" /\ q = k /\ p = "review" THEN "due"
                             ELSE overran[q][p]
    <3> HIDE DEF k, turns
    <3>1. quiz.timeouts = row.timeouts /\ quiz.index = k
      BY <2>2, <2>3, EnsureFacts
    <3>2. overran' = IF quiz.clock = "late" THEN [overran EXCEPT ![k]["review"] = "due"] ELSE overran
      BY <2>1, <2>2 DEF ReviewLeft
    <3>3. CASE quiz.clock = "late"
      <4>1. row'.timeouts = Overrun(row.timeouts, k, "review")
        BY <2>4, <3>1, <3>3
      <4>5. \A q \in Questions, p \in Phases :
              Overrun(row.timeouts, k, "review")[q][p]
                = IF q = k /\ p = "review" THEN row.timeouts[q][p] + 1 ELSE row.timeouts[q][p]
        <5>1. /\ row.timeouts \in [Questions -> [Phases -> Nat]] /\ k \in Questions
              /\ "review" \in Phases
          BY <1>1, <2>8
        <5> QED
          BY ONLY <5>1, OverrunFacts
      <4>2. \A q \in Questions, p \in Phases :
              row'.timeouts[q][p] = IF q = k /\ p = "review" THEN row.timeouts[q][p] + 1
                                    ELSE row.timeouts[q][p]
        BY <4>1, <4>5
      <4>3. overran' = [overran EXCEPT ![k]["review"] = "due"] /\ "due" \in {"no", "due", "lost"}
        BY <3>2, <3>3
      <4>4. \A q \in Questions, p \in Phases :
              overran'[q][p] = IF q = k /\ p = "review" THEN "due" ELSE overran[q][p]
        BY <1>1, <2>8, <4>3, OverranType
      <4> QED
        BY <2>8, <3>3, <4>2, <4>4
    <3>4. CASE quiz.clock # "late"
      BY <2>4, <3>1, <3>2, <3>4
    <3> QED
      BY <3>3, <3>4
  <2>10. TimeoutsCounted' /\ OverranInv'
    <3> HIDE DEF k, turns
    <3>1. TimeoutsCounted'
      BY <2>5, <2>9 DEF IInv, TimeoutsCounted, Phases
    <3>2. OverranInv'
      BY <2>1, <2>4, <2>5, <2>8, <2>9 DEF IInv, OverranInv
    <3> QED
      BY <3>1, <3>2
  <2>11. \A q \in Questions : overran[q]["answer"] # "no" => overran'[q]["answer"] # "no"
    BY <2>8, <2>9
  <2> QED
    BY <1>2, <2>1, <2>5, <2>6, <2>7, <2>10, <2>11, SameTrailKeepsIInv DEF IInv, LockedHasAnswer
<1> QED
  BY <1>3, <1>4

----------------------------------------------------------------------------
(* Advancing: the lock, then the cursor *)

LEMMA LockKeepsIInv ==
  ASSUME IInv, TypeOK', NEW s \in Slots, LockAnswer(s)
  PROVE  IInv'
<1> DEFINE w == req[s]
           r == Locked(responses[w.q], w)
<1>1. /\ w \in Requests /\ w.q \in Questions /\ responses[w.q] \in Responses
      /\ responses \in [Questions -> Responses] /\ req \in [Slots -> Requests]
      /\ w.q = w.seen.index /\ w.seen.index <= row.index /\ w.step = "lock"
      /\ \A q \in Questions : responses[q].locked => Exists(responses[q])
  BY DEF LockAnswer, At, IInv, TypeOK, Requests, RequestsInv, RequestInv, LockedHasAnswer
<1>2. UNCHANGED <<row, starts, begun, heard>> /\ responses' = [responses EXCEPT ![w.q] = r]
  BY DEF LockAnswer, SameClocks
<1>0. PICK over \in BOOLEAN :
        /\ over = (~ExamHasExpired(w.seen) /\ ~responses[w.q].locked /\ OutOfTime(w, r.answer))
        /\ overran' = IF over THEN [overran EXCEPT ![w.q]["answer"] = "due"] ELSE overran
  BY DEF LockAnswer, OutOfTime
<1>3. /\ responses[w.q].locked => r = responses[w.q]
      /\ r.locked => Exists(r)
      /\ ~ExamHasExpired(w.seen) => r.locked
  BY <1>1 DEF Locked, Exists, Responses, Requests
<1>4. \A q \in Questions :
        /\ responses[q].locked => responses'[q].locked /\ responses'[q].answer = responses[q].answer
        /\ responses'[q].locked => Exists(responses'[q])
  BY <1>1, <1>2, <1>3
<1>7. /\ "answer" \in Phases /\ "review" \in Phases
      /\ overran \in [Questions -> [Phases -> {"no", "due", "lost"}]]
      /\ \A q \in Questions, p \in Phases :
           overran'[q][p] = IF over /\ q = w.q /\ p = "answer" THEN "due" ELSE overran[q][p]
  <2>1. overran \in [Questions -> [Phases -> {"no", "due", "lost"}]] /\ "due" \in {"no", "due", "lost"}
        /\ "answer" \in Phases /\ "review" \in Phases
    BY DEF IInv, TypeOK, Phases
  <2>2. \A q \in Questions, p \in Phases :
          [overran EXCEPT ![w.q]["answer"] = "due"][q][p]
             = IF q = w.q /\ p = "answer" THEN "due" ELSE overran[q][p]
    BY <1>1, <2>1, OverranType
  <2> QED
    BY <1>0, <2>1, <2>2
<1>8. /\ TimeoutsCounted' /\ OverranInv'
      /\ \A q \in Questions : overran[q]["answer"] # "no" => overran'[q]["answer"] # "no"
  <2> HIDE DEF w, r
  <2>1. over => /\ ~(w.q < row.index) /\ responses'[w.q].locked
    BY <1>0, <1>1, <1>2, <1>3 DEF IInv, PassedQuestionsLocked
  <2>2. TimeoutsCounted'
    BY <1>1, <1>2, <1>7, <2>1 DEF IInv, TimeoutsCounted
  <2>3. OverranInv'
    BY <1>1, <1>2, <1>4, <1>7, <2>1 DEF IInv, OverranInv
  <2> QED
    BY <1>7, <2>2, <2>3
<1>5. \A t \in Slots : req'[t] = req[t] \/ RequestInv(req[t])'
  <2>1. CASE ExamHasExpired(w.seen)
    <3>1. PICK step : step = Expiry(w.seen) /\ Goto(s, step)
      BY <2>1 DEF LockAnswer
    <3> QED
      BY <3>1, ExpiryType, GotoCalm DEF IInv
  <2>2. CASE ~ExamHasExpired(w.seen)
    <3>1. PICK b : b = LacksRecording(w.q, r.answer)
      OBVIOUS
    <3>2. req' = [req EXCEPT ![s] = [w EXCEPT !.step = "move", !.v = Nothing, !.clock = "running",
                                               !.overdue = over, !.silent = b]]
      BY <1>0, <2>2, <3>1 DEF LockAnswer, OutOfTime
    <3>3. /\ req'[s].step = "move" /\ req'[s].q = w.q /\ req'[s].seen = w.seen /\ req'[s].silent = b
          /\ req'[s].overdue = over
          /\ \A t \in Slots : t # s => req'[t] = req[t]
      BY <1>1, <3>2 DEF Requests
    <3>4. responses'[w.q] = r /\ r.locked /\ row'.index = row.index
      BY <1>1, <1>2, <1>3, <2>2
    <3>5. over => overran'[w.q]["answer"] # "no"
      BY <1>1, <1>7
    <3>6. RequestInv(req[s])'
      BY <1>1, <3>1, <3>3, <3>4, <3>5 DEF RequestInv, LacksRecording
    <3> QED
      BY <3>3, <3>6
  <2> QED
    BY <2>1, <2>2
<1>6. RowInv' /\ NoBeaconLost' /\ ClocksInv'
  BY <1>2 DEF IInv, RowInv, NoBeaconLost, ClocksInv
<1> QED
  BY <1>2, <1>4, <1>5, <1>6, <1>8, SameTrailKeepsIInv

\* The cursor moves over the question the request locked, and counts its missing
\* recording; a request that finds the cursor moved leaves it.
LEMMA MoveKeepsIInv ==
  ASSUME IInv, TypeOK', NEW s \in Slots, MoveCursor(s)
  PROVE  IInv'
<1> DEFINE w == req[s]
           k == row.index
<1>1. /\ w \in Requests /\ w.q \in Questions /\ w.q = w.seen.index
      /\ responses[w.q].locked /\ w.silent = LacksRecording(w.q, responses[w.q].answer)
      /\ w.overdue => overran[w.q]["answer"] # "no"
  BY DEF MoveCursor, At, IInv, TypeOK, Requests, RequestsInv, RequestInv
<1>2. \A t \in Slots : req'[t] = req[t] \/ RequestInv(req[t])'
  <2>1. PICK step : (step = "idle" \/ step = Expiry(row)) /\ Goto(s, step)
    BY DEF MoveCursor
  <2>2. step \notin {"draft", "lock", "move", "list", "score"}
    BY <2>1, ExpiryType
  <2> QED
    BY <2>1, <2>2, GotoCalm DEF IInv
<1>3. UNCHANGED <<responses, begun, heard>>
  BY DEF MoveCursor
<1>4. CASE ~Movable(row, w)
  <2>1. UNCHANGED <<row, starts, overran>>
    BY <1>4 DEF MoveCursor
  <2> QED
    BY <1>2, <1>3, <2>1, SamePaperKeepsIInv DEF IInv, LockedHasAnswer, RowInv, NoBeaconLost
<1>5. CASE Movable(row, w)
  <2>1. /\ row' = Moved(row, w) /\ StartClock(k + 1, FirstPhase(k + 1)) /\ w.q = k /\ k \in Questions
        /\ AnswerLeft(w)
    BY <1>1, <1>5, EnsureFacts DEF MoveCursor, Movable
  <2>2. PICK quiz : quiz = EnsureQuizState(row)
    OBVIOUS
  <2>3. PICK m, t : m = Counted(row.missing, w) /\ t = CountedLate(row.timeouts, w)
    OBVIOUS
  <2>4. /\ row'.opened /\ row'.index = k + 1 /\ row'.missing = m /\ row'.beacons = row.beacons
        /\ row'.timeouts = t
        /\ row'.phase = FirstPhase(k + 1) /\ row'.status = row.status /\ row'.started = row.started
    <3>1. quiz \in Rows /\ quiz.opened
          /\ row' = [quiz EXCEPT !.index = k + 1, !.phase = FirstPhase(k + 1), !.clock = "running",
                                 !.missing = m, !.timeouts = t]
      BY <1>1, <2>1, <2>2, <2>3, EnsureFacts DEF Moved
    <3> QED
      BY <2>2, <3>1, EnsureFacts DEF Rows
  <2>5. RowInv' /\ NoBeaconLost'
    BY <1>3, <2>4 DEF IInv, RowInv, NoBeaconLost
  <2>6. k \in Int /\ \A q \in Questions : q \in Int /\ (q < k + 1 <=> q < k \/ q = k)
    BY <2>1 DEF Questions
  <2>7. PassedQuestionsLocked' /\ LockedHasAnswer'
    BY <1>1, <1>3, <2>1, <2>4, <2>6 DEF IInv, PassedQuestionsLocked, LockedHasAnswer
  <2>8. MissingRecordingCountedOnce'
    <3>1. \A q \in Questions :
            row.missing[q] = IF q < k /\ LacksRecording(q, responses[q].answer) THEN 1 ELSE 0
      BY DEF IInv, MissingRecordingCountedOnce
    <3>2. \A q \in Questions :
            m[q] = IF q = k /\ LacksRecording(q, responses[q].answer) THEN 1 ELSE row.missing[q]
      <4>1. row.missing \in [Questions -> Nat] /\ row.missing[k] = 0
        <5>1. row.missing \in [Questions -> Nat]
          BY DEF IInv, TypeOK, Rows
        <5>2. k \in Int /\ ~(k < k)
          BY <2>6
        <5> QED
          BY <2>1, <3>1, <5>1, <5>2
      <4>2. m = IF w.silent THEN [row.missing EXCEPT ![k] = row.missing[k] + 1] ELSE row.missing
        BY <2>1, <2>3 DEF Counted
      <4>3. w.silent = LacksRecording(k, responses[k].answer)
        BY <1>1, <2>1
      <4> QED
        BY <2>1, <4>1, <4>2, <4>3
    <3> QED
      BY <1>3, <2>4, <2>6, <3>1, <3>2 DEF MissingRecordingCountedOnce, LacksRecording
  <2>11. /\ row.timeouts \in [Questions -> [Phases -> Nat]] /\ "answer" \in Phases /\ "review" \in Phases
         /\ overran \in [Questions -> [Phases -> {"no", "due", "lost"}]]
         /\ row.timeouts[k]["answer"] = 0 /\ overran[k]["answer"] # "lost"
    <3>1. ~(k < row.index) /\ "answer" \in Phases /\ "answer" # "review"
      BY <2>6 DEF Phases
    <3> QED
      BY <2>1, <3>1 DEF IInv, TypeOK, Rows, Phases, TimeoutsCounted, OverranInv
  <2>12. /\ \A q \in Questions, p \in Phases :
             t[q][p] = IF w.overdue /\ q = k /\ p = "answer" THEN 1 ELSE row.timeouts[q][p]
         /\ \A q \in Questions, p \in Phases :
             overran'[q][p] = IF overran[k]["answer"] = "due" /\ ~w.overdue /\ q = k /\ p = "answer"
                              THEN "lost" ELSE overran[q][p]
    <3> HIDE DEF w, k
    <3>1. t = IF w.overdue THEN Overrun(row.timeouts, k, "answer") ELSE row.timeouts
      BY <2>1, <2>3 DEF CountedLate
    <3>2. \A q \in Questions, p \in Phases :
            Overrun(row.timeouts, k, "answer")[q][p]
              = IF q = k /\ p = "answer" THEN row.timeouts[q][p] + 1 ELSE row.timeouts[q][p]
      BY ONLY <2>1, <2>11, OverrunFacts
    <3>3. overran' = IF overran[k]["answer"] = "due" /\ ~w.overdue
                     THEN [overran EXCEPT ![k]["answer"] = "lost"] ELSE overran
      BY <2>1 DEF AnswerLeft
    <3>4. \A q \in Questions, p \in Phases :
            [overran EXCEPT ![k]["answer"] = "lost"][q][p]
              = IF q = k /\ p = "answer" THEN "lost" ELSE overran[q][p]
      <4>1. "lost" \in {"no", "due", "lost"}
        OBVIOUS
      <4> QED
        BY <2>1, <2>11, <4>1, OverranType
    <3>5. \A q \in Questions, p \in Phases :
            t[q][p] = IF w.overdue /\ q = k /\ p = "answer" THEN 1 ELSE row.timeouts[q][p]
      BY <2>11, <3>1, <3>2
    <3> QED
      BY <3>3, <3>4, <3>5
  <2>13. TimeoutsCounted' /\ OverranInv'
    <3>0. w.overdue \in BOOLEAN /\ (w.overdue => overran[k]["answer"] # "no") /\ responses[k].locked
          /\ overran[k]["answer"] \in {"no", "due", "lost"}
      BY <1>1, <2>1, <2>11 DEF Requests
    <3> HIDE DEF w, k
    <3>1. TimeoutsCounted'
      <4> SUFFICES ASSUME NEW q \in Questions, NEW p \in Phases
                   PROVE  row'.timeouts[q][p] =
                            IF overran'[q][p] = "due" /\ (p = "review" \/ q < row'.index) THEN 1 ELSE 0
        BY DEF TimeoutsCounted
      <4>1. row.timeouts[q][p] = IF overran[q][p] = "due" /\ (p = "review" \/ q < row.index) THEN 1 ELSE 0
        BY DEF IInv, TimeoutsCounted
      <4>2. row.index = k
        BY DEF k
      <4>3. p \in {"review", "answer"}
        BY DEF Phases
      <4> QED
        BY <2>4, <2>6, <2>11, <2>12, <3>0, <4>1, <4>2, <4>3
    <3>2. OverranInv'
      <4>2. row.index = k
        BY DEF k
      <4> QED
        BY <1>3, <2>4, <2>6, <2>11, <2>12, <3>0, <4>2 DEF IInv, OverranInv
    <3> QED
      BY <3>1, <3>2
  <2>9. RequestsInv'
    <3> SUFFICES ASSUME NEW x \in Slots, req'[x] = req[x] PROVE RequestInv(req[x])'
      BY <1>2 DEF RequestsInv
    <3>1. RequestInv(req[x]) /\ req[x].seen.index \in Int /\ req[x].q \in Questions
      BY DEF IInv, RequestsInv, TypeOK, Requests, Seen
    <3>2. \A q \in Questions : overran[q]["answer"] # "no" => overran'[q]["answer"] # "no"
      BY <2>11, <2>12
    <3> QED
      BY <1>3, <2>4, <2>6, <3>1, <3>2 DEF RequestInv, LacksRecording
  <2>10. ClocksInv'
    <3>1. \A q \in Questions, p \in Phases :
            /\ starts[q][p] \in {0, 1}
            /\ starts[q][p] = 1 => row.opened /\ (q < k \/ q = k)
      BY DEF IInv, ClocksInv
    <3>2. FirstPhase(k + 1) \in Phases
      BY FirstPhaseType
    <3>3. CASE k + 1 \in Questions
      <4>1. \A q \in Questions, x \in Phases :
              starts'[q][x] = IF q = k + 1 /\ x = FirstPhase(k + 1) THEN starts[q][x] + 1 ELSE starts[q][x]
        BY <2>1, <3>2, <3>3, StartClockFacts DEF IInv
      <4>2. \A x \in Phases : starts[k + 1][x] = 0
        BY <2>6, <3>1, <3>3
      <4> QED
        BY <2>4, <2>6, <3>1, <3>2, <4>1, <4>2 DEF ClocksInv, Phases
    <3>4. CASE k + 1 \notin Questions
      BY <2>1, <2>4, <2>6, <3>1, <3>4 DEF ClocksInv, StartClock
    <3> QED
      BY <3>3, <3>4
  <2> QED
    BY <2>5, <2>7, <2>8, <2>9, <2>10, <2>13 DEF IInv
<1> QED
  BY <1>4, <1>5

----------------------------------------------------------------------------
(* Every step *)

LEMMA EnvironmentKeepsIInv ==
  ASSUME IInv, ClockTick \/ OpenWindow \/ Deadline \/ CancelBooking
  PROVE  IInv'
<1>1. TypeOK' /\ row \in Rows /\ UNCHANGED <<responses, req, starts, begun, heard, overran>>
  BY EnvironmentType DEF IInv, TypeOK, ClockTick, OpenWindow, Deadline, CancelBooking, SameClocks
<1>2. /\ row'.opened = row.opened /\ row'.index = row.index /\ row'.phase = row.phase
      /\ row'.missing = row.missing /\ row'.timeouts = row.timeouts
      /\ row'.beacons = row.beacons
      /\ row'.status = row.status /\ row'.started = row.started
  BY <1>1 DEF ClockTick, OpenWindow, Deadline, CancelBooking, Rows
<1>3. RowInv' /\ NoBeaconLost'
  BY <1>1, <1>2 DEF IInv, RowInv, NoBeaconLost
<1> QED
  BY <1>1, <1>2, <1>3, SamePaperKeepsIInv DEF IInv, LockedHasAnswer

LEMMA NextKeepsIInv == IInv /\ [Next]_vars => IInv'
<1> SUFFICES ASSUME IInv, [Next]_vars PROVE IInv'
  OBVIOUS
<1>1. ASSUME NEW s \in Slots, Arrive(s) PROVE IInv'
  BY <1>1, ArriveKeepsIInv
<1>2. ASSUME NEW s \in Slots, Step(s) PROVE IInv'
  <2>1. TypeOK'
    BY <1>2, StepType DEF IInv
  <2> QED
    BY <1>2, <2>1, CloseKeepsIInv, OpenKeepsIInv, ResponsesKeepIInv, StartPaperKeepsIInv,
       BeaconKeepsIInv, AnsweringKeepsIInv, LockKeepsIInv, MoveKeepsIInv, ListsKeepIInv
    DEF Step
<1>3. ASSUME NEW s \in Slots, Crash(s) PROVE IInv'
  BY <1>3, CrashType, ListsKeepIInv DEF IInv
<1>4. CASE UNCHANGED vars
  <2>1. UNCHANGED <<row, responses, report, booking, hour, req, starts, begun, heard, overran>>
    BY <1>4 DEF vars
  <2>2. TypeOK' /\ RowInv' /\ NoBeaconLost'
    BY <2>1 DEF IInv, TypeOK, RowInv, NoBeaconLost
  <2> QED
    BY <2>1, <2>2, SamePaperKeepsIInv DEF IInv, LockedHasAnswer
<1> QED
  BY <1>1, <1>2, <1>3, <1>4, EnvironmentKeepsIInv DEF Next

\* The inductive invariant holds of every reachable state.
THEOREM Inductive == Spec => []IInv
  BY InitIInv, NextKeepsIInv, PTL DEF Spec

\* Every variable stays in its type, for every paper and every number of slots.
THEOREM TypeCorrect == Spec => []TypeOK
<1>1. IInv => TypeOK
  BY DEF IInv
<1> QED
  BY <1>1, Inductive, PTL

\* The walk leaves no unlocked question behind (POST /next).
THEOREM WalkLocks == Spec => []PassedQuestionsLocked
<1>1. IInv => PassedQuestionsLocked
  BY DEF IInv
<1> QED
  BY <1>1, Inductive, PTL

\* No clock of a question is started twice (GET, /integrity, /phase and /next).
THEOREM ClocksOnce == Spec => []ClockStartedOnce
<1>1. IInv => ClockStartedOnce
  BY DEF IInv, ClocksInv, ClockStartedOnce
<1> QED
  BY <1>1, Inductive, PTL

\* started_at is written once (GET and PUT /answers).
THEOREM WindowOnce == Spec => []WindowOpenedOnce
<1>1. IInv => WindowOpenedOnce
  BY DEF IInv, RowInv, WindowOpenedOnce
<1> QED
  BY <1>1, Inductive, PTL

\* Every acknowledged beacon is in the quiz state (POST /integrity), a missing recording
\* is counted once (POST /next), and so is each time that was over as it was left,
\* unless a crash or an overtaking /next lost it between the lock and the cursor.
THEOREM TrailExact == Spec => []TrailIsExact
<1>1. IInv => TrailIsExact
  BY DEF IInv, TrailIsExact
<1> QED
  BY <1>1, Inductive, PTL

\* POST /submit scores a sheet without gaps, so that its batch never collides with
\* a row another instance has inserted.
THEOREM HandInsAreFull == Spec => []SubmitFindsEveryRow
<1>1. IInv => SubmitFindsEveryRow
  BY DEF IInv, RequestsInv, RequestInv, SubmitFindsEveryRow
<1> QED
  BY <1>1, Inductive, PTL


----------------------------------------------------------------------------
(* The exam hall implements the answer sheet *)

\* No step of a request but the last one of /next moves the cursor.
LEMMA CursorStays ==
  ASSUME IInv, NEW s \in Slots, Step(s), ~MoveCursor(s)
  PROVE  row'.index = row.index
<1>1. row \in Rows
  BY DEF IInv, TypeOK
<1>2. CASE Expire(s) \/ CancelPaper(s)
  <2>1. Expired(row).index = row.index /\ Cancelled(row).index = row.index
    BY <1>1 DEF Expired, Cancelled, Rows
  <2> QED
    BY <1>2, <2>1 DEF Expire, CancelPaper
<1>3. CASE StartPaper(s) \/ ClosePaper(s) \/ PublishReport(s)
  BY <1>1, <1>3 DEF StartPaper, ClosePaper, PublishReport, Rows
<1>4. CASE OpenExam(s)
  <2>1. CASE row.opened
    BY <1>1, <1>4, <2>1 DEF OpenExam, Opened, EnsureQuizState, Rows
  <2>2. CASE ~row.opened
    <3>1. row.index = 0
      BY <2>2 DEF IInv, RowInv
    <3>2. \A r \in Rows : ~r.opened => EnsureQuizState(r).index = 0
      BY DEF EnsureQuizState, Rows
    <3>3. PICK entered \in Rows : ~entered.opened /\ row' = EnsureQuizState(entered)
      <4>1. [row EXCEPT !.status = "in_progress", !.started = TRUE] \in Rows
            /\ ~[row EXCEPT !.status = "in_progress", !.started = TRUE].opened
        BY <1>1, <2>2 DEF Rows, Status
      <4> QED
        BY <1>1, <1>4, <2>2, <4>1 DEF OpenExam, Opened
    <3> QED
      BY <3>1, <3>2, <3>3
  <2> QED
    BY <2>1, <2>2
<1>5. CASE RecordBeacon(s) \/ BeginAnswer(s) \/ TurnPhase(s)
  <2>1. PICK quiz \in Rows : quiz = EnsureQuizState(row) /\ quiz.index = row.index
    BY EnsureFacts
  <2>2. WithBeacon(row).index = row.index /\ Answering(row).index = row.index
    <3>1. PICK t : t = IF quiz.clock = "late" THEN Overrun(quiz.timeouts, quiz.index, "review")
                       ELSE quiz.timeouts
      OBVIOUS
    <3>2. Answering(row) = [quiz EXCEPT !.phase = "answer", !.clock = "running", !.timeouts = t]
      BY <2>1, <3>1 DEF Answering
    <3> QED
      BY <2>1, <3>2 DEF WithBeacon, Rows
  <2> QED
    BY <1>5, <2>2 DEF RecordBeacon, BeginAnswer, TurnPhase
<1>6. CASE UNCHANGED row
  BY <1>6
<1> QED
  BY <1>2, <1>3, <1>4, <1>5, <1>6
  DEF Step, WriteDraft, LockAnswer, ListRows, ScoreRows, ListForMarks, WriteMarks, Grade, RecordScores

\* A step of /next that locks a row locks the one under the cursor.
LEMMA LockIsSeal ==
  ASSUME IInv, NEW s \in Slots, LockAnswer(s)
  PROVE  [Sheet!Next]_(Sheet!vars)
<1> DEFINE w == req[s]
           r == Locked(responses[w.q], w)
           sealed == [q \in Questions |-> IF responses[q].locked THEN responses[q].answer ELSE Nothing]
<1>1. /\ w \in Requests /\ w.q \in Questions /\ responses[w.q] \in Responses /\ row \in Rows
      /\ responses \in [Questions -> Responses] /\ w.v \in Answers \cup {Nothing}
      /\ w.q = w.seen.index /\ w.seen.index <= row.index
  BY DEF LockAnswer, At, IInv, TypeOK, Requests, RequestsInv, RequestInv
<1>2. row' = row /\ responses' = [responses EXCEPT ![w.q] = r]
  BY DEF LockAnswer
<1>3. CASE r = responses[w.q]
  <2>1. responses' = responses
    BY <1>1, <1>2, <1>3
  <2> QED
    BY <1>2, <2>1 DEF Sheet!vars
<1>4. CASE r # responses[w.q]
  <2>1. ~responses[w.q].locked /\ r.locked /\ r.answer \in Answers \cup {Blank}
    BY <1>1, <1>4 DEF Locked, Responses
  <2>2. row.index = w.q /\ row.index < N
    <3>1. w.q \in Int /\ row.index \in Int /\ w.q < N
      BY <1>1 DEF Questions, Rows
    <3>2. ~(w.q < row.index)
      BY <1>1, <2>1 DEF IInv, PassedQuestionsLocked
    <3> QED
      BY <1>1, <3>1, <3>2
  <2>3. sealed[row.index] = Nothing
    BY <1>1, <2>1, <2>2
  <2>4. sealed' = [sealed EXCEPT ![row.index] = r.answer]
    BY <1>1, <1>2, <2>1, <2>2
  <2>5. PICK answer \in Answers \cup {Blank} : answer = r.answer
    BY <2>1
  <2>6. Sheet!Seal(answer)
    BY <1>2, <2>2, <2>3, <2>4, <2>5 DEF Sheet!Seal
  <2> QED
    BY <2>6 DEF Sheet!Next
<1> QED
  BY <1>3, <1>4

LEMMA MoveIsMoveOn ==
  ASSUME IInv, NEW s \in Slots, MoveCursor(s)
  PROVE  [Sheet!Next]_(Sheet!vars)
<1> DEFINE w == req[s]
           sealed == [q \in Questions |-> IF responses[q].locked THEN responses[q].answer ELSE Nothing]
<1>1. /\ w.q \in Questions /\ w.q = w.seen.index /\ responses[w.q].locked /\ row \in Rows
      /\ Exists(responses[w.q]) /\ w \in Requests
  BY DEF MoveCursor, At, IInv, TypeOK, Requests, RequestsInv, RequestInv, LockedHasAnswer
<1>2. responses' = responses
  BY DEF MoveCursor
<1>3. CASE ~Movable(row, w)
  BY <1>2, <1>3 DEF MoveCursor, Sheet!vars
<1>4. CASE Movable(row, w)
  <2>1. row.index = w.q /\ row.index < N
    BY <1>1, <1>4, EnsureFacts DEF Movable, Questions
  <2>2. row'.index = row.index + 1
    <3>1. PICK quiz \in Rows : quiz = EnsureQuizState(row)
      BY <1>1, EnsureType
    <3>2. PICK m, t : m = Counted(quiz.missing, w) /\ t = CountedLate(quiz.timeouts, w)
      OBVIOUS
    <3>3. row' = [quiz EXCEPT !.index = w.seen.index + 1, !.phase = FirstPhase(w.seen.index + 1),
                              !.clock = "running", !.missing = m, !.timeouts = t]
      BY <1>4, <3>1, <3>2 DEF MoveCursor, Moved
    <3> QED
      BY <1>1, <2>1, <3>3 DEF Rows
  <2>3. sealed[row.index] # Nothing
    BY <1>1, <2>1 DEF Exists
  <2>4. Sheet!MoveOn
    BY <1>2, <2>1, <2>2, <2>3 DEF Sheet!MoveOn
  <2> QED
    BY <2>4 DEF Sheet!Next
<1> QED
  BY <1>3, <1>4

LEMMA NextIsSheetNext == IInv /\ [Next]_vars => [Sheet!Next]_(Sheet!vars)
<1> SUFFICES ASSUME IInv, [Next]_vars PROVE [Sheet!Next]_(Sheet!vars)
  OBVIOUS
<1> DEFINE sealed == [q \in Questions |-> IF responses[q].locked THEN responses[q].answer ELSE Nothing]
<1>1. ASSUME row'.index = row.index, \A q \in Questions : KeepsLock(responses[q], responses'[q])
      PROVE  UNCHANGED Sheet!vars
  <2>1. sealed' = sealed
    BY <1>1 DEF KeepsLock
  <2> QED
    BY <1>1, <2>1 DEF Sheet!vars
<1>2. ASSUME row'.index = row.index, UNCHANGED responses PROVE UNCHANGED Sheet!vars
  BY <1>2 DEF Sheet!vars
<1>3. ASSUME NEW s \in Slots, Step(s) PROVE [Sheet!Next]_(Sheet!vars)
  <2>1. CASE LockAnswer(s)
    BY <2>1, LockIsSeal
  <2>2. CASE MoveCursor(s)
    BY <2>2, MoveIsMoveOn
  <2>3. CASE WriteDraft(s) \/ ScoreRows(s) \/ WriteMarks(s) \/ RecordScores(s)
    <3>1. row' = row
      BY <2>3 DEF WriteDraft, ScoreRows, WriteMarks, RecordScores
    <3> QED
      BY <1>1, <2>3, <3>1, ResponsesKeepLocks
  <2>4. CASE ~(\/ LockAnswer(s) \/ MoveCursor(s) \/ WriteDraft(s) \/ ScoreRows(s) \/ WriteMarks(s)
               \/ RecordScores(s))
    <3>1. UNCHANGED responses
      BY <1>3, <2>4
      DEF Step, Expire, CancelPaper, OpenExam, StartPaper, RecordBeacon, BeginAnswer, TurnPhase,
          ListRows, ClosePaper, ListForMarks, Grade, PublishReport
    <3> QED
      BY <1>2, <1>3, <2>4, <3>1, CursorStays
  <2> QED
    BY <2>1, <2>2, <2>3, <2>4
<1>4. ASSUME NEW s \in Slots, Arrive(s) \/ Crash(s) PROVE [Sheet!Next]_(Sheet!vars)
  <2>1. UNCHANGED <<row, responses>>
    BY <1>4
    DEF Arrive, GetExam, ArriveLate, SendBeacon, PostSubmit, PutScores, PostFinalize, Sweep,
        StartAnswering, SaveDraft, PostNext, Begin, Crash
  <2> QED
    BY <1>2, <2>1
<1>5. CASE ClockTick \/ OpenWindow \/ Deadline \/ CancelBooking
  <2>1. UNCHANGED responses /\ row'.index = row.index
    BY <1>5 DEF ClockTick, OpenWindow, Deadline, CancelBooking, IInv, TypeOK, Rows
  <2> QED
    BY <1>2, <2>1
<1>6. CASE UNCHANGED vars
  BY <1>2, <1>6 DEF vars
<1> QED
  BY <1>3, <1>4, <1>5, <1>6 DEF Next

\* The exam hall implements the answer sheet: locked once, in order, unchanged.
THEOREM SheetImplemented == Spec => ImplementsAnswerSheet
<1>1. Init => Sheet!Init
  BY DEF Init, Sheet!Init, NewPaper, NoRows, NoRow, Questions
<1>2. IInv /\ [Next]_vars => [Sheet!Next]_(Sheet!vars)
  BY NextIsSheetNext
<1> QED
  BY <1>1, <1>2, Inductive, PTL DEF Spec, Sheet!Spec, ImplementsAnswerSheet

----------------------------------------------------------------------------
(* The report, on one server *)

OneServer == \A s, t \in Instances : s = t

\* The steps of a request after which it writes answers, scores or the report.
Writing == {"draft", "lock", "list", "score", "entering", "marking", "grade", "record", "publish"}

\* A request with these steps may run beside a report: it writes the row only.
Harmless(w) == w.step \notin Writing

\* What a finalize has listed is what is stored; once it has recorded the scores
\* they are those of the answers it listed.
Grading(w) ==
  /\ w.step = "record" => w.sheet = responses
  /\ w.step = "publish" => \A q \in Questions : Exists(responses[q]) =>
       /\ Exists(w.sheet[q]) /\ w.sheet[q].answer = responses[q].answer
       /\ Kind[q] = "auto" => responses[q].auto = responses[q].answer

ReportInv ==
  /\ ReportMatchesPaper
  /\ \A s \in Slots : /\ Harmless(req[s]) \/ (s \in Instances /\ row.status # "scored")
                      /\ Grading(req[s])

LEMMA RequestChanges ==
  ASSUME TypeOK, NEW s \in Slots, NEW w, req' = [req EXCEPT ![s] = w]
  PROVE  req'[s] = w /\ \A t \in Slots \ {s} : req'[t] = req[t]
  BY DEF TypeOK

\* Answers, scores and report stay, and the paper is not made a scored one.
LEMMA PaperRests ==
  ASSUME TypeOK, ReportInv, UNCHANGED <<responses, report>>, row'.status = "scored" => row.status = "scored",
         NEW s \in Slots, \A t \in Slots \ {s} : req'[t] = req[t],
         Harmless(req'[s]) \/ (s \in Instances /\ row'.status # "scored"), Grading(req[s])'
  PROVE  ReportInv'
<1>1. ReportMatchesPaper'
  BY DEF ReportInv, ReportMatchesPaper
<1>2. ASSUME NEW t \in Slots \ {s}
      PROVE  Harmless(req'[t]) \/ (t \in Instances /\ row'.status # "scored")
  BY DEF ReportInv
<1>3. ASSUME NEW t \in Slots \ {s} PROVE Grading(req[t])'
  BY DEF ReportInv, Grading
<1> QED
  BY <1>1, <1>2, <1>3 DEF ReportInv, Harmless

\* A request that ends or goes on to a step that writes the row only.
LEMMA HarmlessGoes ==
  ASSUME TypeOK, ReportInv, UNCHANGED <<responses, report>>, row'.status = "scored" => row.status = "scored",
         NEW s \in Slots, NEW w, req' = [req EXCEPT ![s] = w], Harmless(w)
  PROVE  ReportInv'
<1>1. req'[s] = w /\ \A t \in Slots \ {s} : req'[t] = req[t]
  BY RequestChanges
<1>2. Grading(req[s])'
  BY <1>1 DEF Harmless, Writing, Grading
<1> QED
  BY <1>1, <1>2, PaperRests

LEMMA GoesOn ==
  /\ Harmless(Idle)
  /\ \A step, q : Fresh(step, q).step = step
  /\ \A step, q, v : Stale(step, q, v).step = step
  BY DEF Harmless, Idle, Fresh, Stale, Writing

\* What a /next carries besides the clock is what any request carries that goes on
\* with what it has read.
LEMMA ClockedReads ==
  \A q, v, c : /\ [Stale("lock", q, v) EXCEPT !.clock = c].step = "lock"
               /\ [Stale("lock", q, v) EXCEPT !.clock = c].seen = SeenOf(row)
  BY DEF Stale, Idle

\* A /next admitted starts with a lock, or turns a review.
LEMMA NextArrives ==
  ASSUME NEW s \in Slots, NEW q, NEW v, PostNext(s, q, v)
  PROVE  /\ s \in Instances /\ IsOpen(row)
         /\ \E w : Begin(s, w) /\ (w.step = "turn" \/ (w.step = "lock" /\ w.seen = SeenOf(row)))
<1>1. PICK c : \/ Begin(s, Fresh("turn", q))
               \/ Begin(s, [Stale("lock", q, v) EXCEPT !.clock = c])
  BY DEF PostNext
<1>2. Fresh("turn", q).step = "turn"
  BY GoesOn
<1>3. s \in Instances /\ IsOpen(row)
  BY DEF PostNext, Sitting, Admitted
<1>4. CASE Begin(s, Fresh("turn", q))
  BY <1>2, <1>3, <1>4
<1>5. CASE Begin(s, [Stale("lock", q, v) EXCEPT !.clock = c])
  <2>1. PICK w : w = [Stale("lock", q, v) EXCEPT !.clock = c]
    OBVIOUS
  <2>2. w.step = "lock" /\ w.seen = SeenOf(row) /\ Begin(s, w)
    BY <1>5, <2>1, ClockedReads
  <2> QED
    BY <1>3, <2>2
<1> QED
  BY <1>1, <1>4, <1>5

LEMMA ArrivalsWait ==
  ASSUME TypeOK, ReportInv, NEW s \in Slots, Arrive(s)
  PROVE  ReportInv'
<1>1. PICK w : Begin(s, w) /\ w.step \notin {"record", "publish"}
               /\ (Harmless(w) \/ (s \in Instances /\ row.status # "scored"))
  <2>2. CASE GetExam(s)
    BY <2>2, GoesOn DEF GetExam, Harmless, Writing
  <2>3. CASE ArriveLate(s)
    BY <2>3, GoesOn DEF ArriveLate, Harmless, Writing
  <2>4. CASE SendBeacon(s)
    BY <2>4, GoesOn DEF SendBeacon, Harmless, Writing
  <2>5. CASE PostSubmit(s)
    BY <2>5, GoesOn DEF PostSubmit, Sitting, Admitted, IsOpen, Harmless, Writing
  <2>6. CASE PutScores(s)
    BY <2>6, GoesOn DEF PutScores, Admitted, Harmless, Writing
  <2>7. CASE PostFinalize(s)
    BY <2>7, GoesOn DEF PostFinalize, Admitted, Harmless, Writing
  <2>8. CASE Sweep(s)
    BY <2>8, GoesOn, ExpiryType DEF Sweep, Harmless, Writing
  <2>9. ASSUME NEW q \in Questions, StartAnswering(s, q)
        PROVE  \E w : Begin(s, w) /\ w.step \notin {"record", "publish"} /\ Harmless(w)
    BY <2>9, GoesOn DEF StartAnswering, Harmless, Writing
  <2>10. ASSUME NEW q \in Questions, NEW v \in Answers \cup {Nothing}, SaveDraft(s, q, v) \/ PostNext(s, q, v)
         PROVE  \E w : Begin(s, w) /\ w.step \in {"draft", "start", "turn", "lock"}
                       /\ s \in Instances /\ row.status # "scored"
    <3>1. CASE SaveDraft(s, q, v)
      BY <3>1, GoesOn DEF SaveDraft, Sitting, Admitted, IsOpen
    <3>2. CASE PostNext(s, q, v)
      BY <3>2, NextArrives DEF IsOpen
    <3> QED
      BY <2>10, <3>1, <3>2
  <2> QED
    BY <2>2, <2>3, <2>4, <2>5, <2>6, <2>7, <2>8, <2>9, <2>10 DEF Arrive
<1>2. req'[s] = w /\ \A t \in Slots \ {s} : req'[t] = req[t]
  BY <1>1, RequestChanges DEF Begin
<1>3. Grading(req[s])'
  BY <1>1, <1>2 DEF Grading
<1> QED
  BY <1>1, <1>2, <1>3, PaperRests DEF Begin

\* The status of a paper is "scored" only by a report.
LEMMA RowStepsScoreNothing ==
  ASSUME TypeOK
  PROVE  /\ Expired(row).status = "scored" => row.status = "scored"
         /\ Cancelled(row).status = "scored" => row.status = "scored"
         /\ Opened(row).status = "scored" => row.status = "scored"
         /\ WithBeacon(row).status = "scored" => row.status = "scored"
         /\ Answering(row).status = "scored" => row.status = "scored"
         /\ \A w : Moved(row, w).status = "scored" => row.status = "scored"
<1>1. row \in Rows
  BY DEF TypeOK
<1>2. ASSUME NEW r \in Rows PROVE EnsureQuizState(r).status = r.status /\ EnsureQuizState(r) \in Rows
  BY EnsureType DEF EnsureQuizState, Rows
<1>3. Opened(row).status = "scored" => row.status = "scored"
  <2>1. PICK r : /\ r = IF SetsStart(row) THEN [row EXCEPT !.status = "in_progress", !.started = TRUE] ELSE row
                 /\ Opened(row) = EnsureQuizState(r)
    BY DEF Opened
  <2>2. r \in Rows /\ (r.status = "scored" => row.status = "scored")
    BY <1>1, <2>1 DEF Rows, Status
  <2> QED
    BY <1>2, <2>1, <2>2
<1>4. PICK quiz \in Rows : quiz = EnsureQuizState(row) /\ quiz.status = row.status
  BY <1>1, <1>2
<1>5. WithBeacon(row).status = row.status
  BY <1>4 DEF WithBeacon, Rows
<1>6. Answering(row).status = row.status
  BY <1>4 DEF Answering, Rows
<1>7. \A w : Moved(row, w).status = row.status
  BY <1>4 DEF Moved, Rows
<1> QED
  BY <1>1, <1>3, <1>5, <1>6, <1>7 DEF Expired, Cancelled, Rows

LEMMA RowStepsRest ==
  ASSUME TypeOK, ReportInv, NEW s \in Slots,
         \/ Expire(s) \/ CancelPaper(s) \/ OpenExam(s) \/ StartPaper(s) \/ RecordBeacon(s)
         \/ BeginAnswer(s) \/ TurnPhase(s) \/ MoveCursor(s) \/ ClosePaper(s) \/ Crash(s)
  PROVE  ReportInv'
<1>1. UNCHANGED <<responses, report>>
  BY DEF Expire, CancelPaper, OpenExam, StartPaper, RecordBeacon, BeginAnswer, TurnPhase, MoveCursor, ClosePaper, Crash
<1>2. row'.status = "scored" => row.status = "scored"
  <2>1. row \in Rows
    BY DEF TypeOK
  <2>2. CASE StartPaper(s) \/ ClosePaper(s) \/ Crash(s)
    BY <2>1, <2>2 DEF StartPaper, ClosePaper, Crash, Rows
  <2> QED
    BY <2>2, RowStepsScoreNothing
       DEF Expire, CancelPaper, OpenExam, RecordBeacon, BeginAnswer, TurnPhase, MoveCursor
<1>3. \E w : Harmless(w) /\ req' = [req EXCEPT ![s] = w]
  <2>1. \A r : Harmless(Fresh(Expiry(r), 0))
    BY GoesOn, ExpiryType DEF Harmless, Writing
  <2>2. Harmless(Fresh("idle", 0)) /\ Harmless(Fresh("open", 0))
    BY GoesOn DEF Harmless, Writing
  <2> QED
    BY <2>1, <2>2, GoesOn
       DEF Expire, CancelPaper, OpenExam, StartPaper, RecordBeacon, BeginAnswer, TurnPhase, MoveCursor, ClosePaper,
           Crash, Finish, Goto
<1> QED
  BY <1>1, <1>2, <1>3, HarmlessGoes

\* The one server writes answers or scores on a paper that has no report yet.
LEMMA PaperIsWritten ==
  ASSUME OneServer, TypeOK, ReportInv, NEW s \in Slots, ~Harmless(req[s]), row' = row,
         \A t \in Slots \ {s} : req'[t] = req[t], Grading(req[s])'
  PROVE  ReportInv'
<1>1. s \in Instances /\ row.status # "scored"
  BY DEF ReportInv
<1>2. ReportMatchesPaper'
  BY <1>1 DEF ReportMatchesPaper
<1>3. ASSUME NEW t \in Slots \ {s}
      PROVE  Harmless(req'[t]) /\ Grading(req[t])'
  <2>1. Harmless(req[t])
    BY <1>1 DEF OneServer, ReportInv
  <2> QED
    BY <2>1 DEF Harmless, Writing, Grading
<1> QED
  BY <1>1, <1>2, <1>3 DEF ReportInv

LEMMA WritingKeeps ==
  ASSUME OneServer, TypeOK, ReportInv, NEW s \in Slots, Step(s)
  PROVE  ReportInv'
<1>1. ASSUME NEW w, req' = [req EXCEPT ![s] = w], w.step \notin {"record", "publish"}, ~Harmless(req[s]), row' = row
      PROVE  ReportInv'
  <2>1. req'[s] = w /\ \A t \in Slots \ {s} : req'[t] = req[t]
    BY <1>1, RequestChanges
  <2>2. Grading(req[s])'
    BY <1>1, <2>1 DEF Grading
  <2> QED
    BY <1>1, <2>1, <2>2, PaperIsWritten
<1>2. req[s] \in Requests
  BY DEF TypeOK
<1>3. Idle.step = "idle"
  BY DEF Idle
<1>4. CASE WriteDraft(s)
  <2>1. PICK step : step \notin {"record", "publish"} /\ Goto(s, step)
    BY <1>4, ExpiryType DEF WriteDraft
  <2> QED
    <3>1. Fresh(step, 0).step \notin {"record", "publish"} /\ req' = [req EXCEPT ![s] = Fresh(step, 0)]
      BY <2>1, GoesOn DEF Goto
    <3>2. ~Harmless(req[s]) /\ row' = row
      BY <1>4 DEF WriteDraft, At, Harmless, Writing
    <3> QED
      BY <1>1, <3>1, <3>2
<1>5. CASE LockAnswer(s)
  <2>1. PICK w : req' = [req EXCEPT ![s] = w] /\ w.step \notin {"record", "publish"}
    <3>1. PICK over, silent \in BOOLEAN :
            \/ Goto(s, Expiry(req[s].seen))
            \/ req' = [req EXCEPT ![s] = [req[s] EXCEPT !.step = "move", !.v = Nothing, !.clock = "running",
                                                         !.overdue = over, !.silent = silent]]
      BY <1>5 DEF LockAnswer, LacksRecording, OutOfTime
    <3>2. [req[s] EXCEPT !.step = "move", !.v = Nothing, !.clock = "running", !.overdue = over,
                       !.silent = silent].step = "move"
      BY <1>2 DEF Requests
    <3>3. Fresh(Expiry(req[s].seen), 0).step \notin {"record", "publish"}
      BY GoesOn, ExpiryType
    <3> QED
      BY <3>1, <3>2, <3>3 DEF Goto
  <2> QED
    BY <1>1, <1>5, <2>1 DEF LockAnswer, At, Harmless, Writing
<1>6. CASE ListRows(s)
  <2>1. PICK w : req' = [req EXCEPT ![s] = w] /\ w.step \notin {"record", "publish"}
    <3>1. [Fresh("score", 0) EXCEPT !.sheet = responses].step = "score"
      BY IdleType DEF Fresh, Requests
    <3> QED
      BY <1>3, <1>6, <3>1 DEF ListRows, Finish
  <2> QED
    BY <1>1, <1>6, <2>1 DEF ListRows, At, Harmless, Writing
<1>7. CASE ScoreRows(s)
  BY <1>1, <1>3, <1>7, GoesOn DEF ScoreRows, Finish, Goto, At, Harmless, Writing
<1>8. CASE ListForMarks(s)
  <2>1. [req[s] EXCEPT !.step = "marking", !.sheet = responses].step = "marking"
    BY <1>2 DEF Requests
  <2> QED
    BY <1>1, <1>8, <2>1 DEF ListForMarks, At, Harmless, Writing
<1>9. CASE WriteMarks(s)
  BY <1>1, <1>3, <1>9 DEF WriteMarks, Finish, At, Harmless, Writing
<1>10. CASE Grade(s)
  <2>1. CASE Finish(s)
    BY <1>1, <1>3, <1>10, <2>1 DEF Grade, Finish, At, Harmless, Writing
  <2>2. CASE req' = [req EXCEPT ![s] = [req[s] EXCEPT !.step = "record", !.sheet = responses]]
    <3>1. req'[s].step = "record" /\ req'[s].sheet = responses /\ \A t \in Slots \ {s} : req'[t] = req[t]
      <4>1. PICK w : w = [req[s] EXCEPT !.step = "record", !.sheet = responses]
        OBVIOUS
      <4>2. w.step = "record" /\ w.sheet = responses
        BY <1>2, <4>1 DEF Requests
      <4> QED
        BY <2>2, <4>1, <4>2, RequestChanges
    <3>2. Grading(req[s])'
      BY <1>10, <3>1 DEF Grade, Grading
    <3> QED
      BY <1>10, <3>1, <3>2, PaperIsWritten DEF Grade, At, Harmless, Writing
  <2> QED
    BY <1>10, <2>1, <2>2 DEF Grade
<1>11. CASE RecordScores(s)
  <2>1. req'[s].step = "publish" /\ req'[s].sheet = req[s].sheet /\ \A t \in Slots \ {s} : req'[t] = req[t]
    <3>1. PICK w : w = [req[s] EXCEPT !.step = "publish"]
      OBVIOUS
    <3>2. w.step = "publish" /\ w.sheet = req[s].sheet
      BY <1>2, <3>1 DEF Requests
    <3> QED
      BY <1>11, <3>1, <3>2, RequestChanges DEF RecordScores
  <2>2. req[s].sheet = responses
    BY <1>11 DEF RecordScores, At, ReportInv, Grading
  <2>3. ASSUME NEW q \in Questions, Exists(responses'[q])
        PROVE  /\ Exists(responses[q]) /\ responses'[q].answer = responses[q].answer
               /\ Kind[q] = "auto" => responses'[q].auto = responses[q].answer
    <3>1. responses'[q] = Scored(responses[q], responses[q], q) /\ responses[q] \in Responses
      BY <1>11, <2>2 DEF RecordScores, TypeOK
    <3> QED
      BY <2>3, <3>1 DEF Scored, Exists, Responses
  <2>4. Grading(req[s])'
    BY <2>1, <2>2, <2>3 DEF Grading
  <2> QED
    BY <1>11, <2>1, <2>4, PaperIsWritten DEF RecordScores, At, Harmless, Writing
<1>12. CASE PublishReport(s)
  <2>1. /\ req'[s] = Idle /\ (\A t \in Slots \ {s} : req'[t] = req[t])
        /\ responses' = responses /\ report' = ReportOf(req[s].sheet)
    BY <1>12, RequestChanges DEF PublishReport, Finish
  <2>2. s \in Instances /\ Grading(req[s]) /\ req[s].step = "publish"
    BY <1>12 DEF PublishReport, At, ReportInv, Harmless, Writing
  <2>3. ASSUME NEW q \in Questions, Exists(responses[q])
        PROVE  report'[q] = responses[q].answer /\ (Kind[q] = "auto" => responses[q].auto = report'[q])
    BY <2>1, <2>2, <2>3 DEF Grading, ReportOf
  <2>4. ReportMatchesPaper'
    BY <2>1, <2>3 DEF ReportMatchesPaper
  <2>5. ASSUME NEW t \in Slots PROVE Harmless(req'[t]) /\ Grading(req[t])'
    <3>1. CASE t = s
      BY <2>1, <3>1, GoesOn, <1>3 DEF Grading
    <3>2. CASE t # s
      <4>1. Harmless(req[t])
        BY <1>12, <2>2, <3>2 DEF ReportInv, OneServer, PublishReport, At, Harmless, Writing
      <4> QED
        BY <2>1, <3>2, <4>1 DEF Harmless, Writing, Grading
    <3> QED
      BY <3>1, <3>2
  <2> QED
    BY <2>4, <2>5 DEF ReportInv
<1> QED
  BY <1>4, <1>5, <1>6, <1>7, <1>8, <1>9, <1>10, <1>11, <1>12, RowStepsRest DEF Step

LEMMA ReportStays == OneServer /\ IInv /\ ReportInv /\ [Next]_vars => ReportInv'
<1> SUFFICES ASSUME OneServer, IInv, ReportInv, [Next]_vars PROVE ReportInv'
  OBVIOUS
<1>1. TypeOK
  BY DEF IInv
<1>2. CASE UNCHANGED <<row, responses, report, req>>
  BY <1>2 DEF ReportInv, ReportMatchesPaper, Harmless, Grading
<1>3. CASE ClockTick
  <2>1. row'.status = row.status
    BY <1>1, <1>3 DEF ClockTick, TypeOK, Rows
  <2>2. UNCHANGED <<responses, report, req>>
    BY <1>3 DEF ClockTick
  <2> QED
    BY <2>1, <2>2 DEF ReportInv, ReportMatchesPaper, Harmless, Grading
<1> QED
  BY <1>1, <1>2, <1>3, ArrivalsWait, WritingKeeps, RowStepsRest
     DEF Next, OpenWindow, Deadline, CancelBooking, vars

\* On one server, whatever requests, listing screens, expiries and crashes run beside
\* the scoring, a report was computed from the answers on the paper, and the scores
\* stored with them are those of the report (finalizeScoring in assessment-service.mjs).
THEOREM ReportTrue ==
  ASSUME OneServer
  PROVE  Spec => []ReportMatchesPaper
<1>1. Init => ReportInv
  BY DEF Init, ReportInv, ReportMatchesPaper, NewPaper, Idle, Harmless, Writing, Grading
<1>2. ReportInv => ReportMatchesPaper
  BY DEF ReportInv
<1> QED
  BY <1>1, <1>2, InitIInv, NextKeepsIInv, ReportStays, PTL DEF Spec

----------------------------------------------------------------------------
(* Answers are sealed, on one server *)

\* The steps at which a listing screen's request can be.
Resting == {"idle", "settling", "cancelling"}

Closed == row.status \in {"submitted", "scored"}

\* A row without an answer has no lock, no score and no mark either.
RowsWhole == \A q \in Questions : ~Exists(responses[q]) => responses[q] = NoRow

\* A draft or a lock in flight read an open paper, which nobody has started since;
\* while the window is open, nobody has closed it either.
Unsealed(w) ==
  w.step \in {"draft", "lock"} =>
    /\ IsOpen(w.seen)
    /\ w.seen.started = row.started
    /\ w.seen.status = "assigned" => ~w.seen.started
    /\ hour # "after" => ~Closed

SealInv ==
  /\ hour = "after" => Scheduled \/ row.started
  /\ RowsWhole
  /\ \A s \in Slots : (req[s].step \in Resting \/ s \in Instances) /\ Unsealed(req[s])

\* Whatever a request of the one server does, no other draft or lock is in flight;
\* a listing screen leaves started_at alone and closes overdue papers only.
LEMMA SealedStays ==
  ASSUME OneServer, IInv, IInv', SealInv, NEW s \in Slots, NEW w, req' = [req EXCEPT ![s] = w],
         w.step \in Resting \/ s \in Instances, w.step \notin {"draft", "lock"},
         RowsWhole', hour' = hour, begun' = begun \/ begun' = begun + 1,
         \/ req[s].step \notin Resting
         \/ row'.started = row.started /\ (hour # "after" /\ Closed' => Closed)
  PROVE  SealInv'
<1>1. req'[s] = w /\ \A t \in Slots \ {s} : req'[t] = req[t]
  BY RequestChanges DEF IInv
<1>2. row.started => row'.started
  <2>1. row.started \in BOOLEAN /\ row'.started \in BOOLEAN
    BY DEF IInv, TypeOK, Rows
  <2>2. begun = (IF row.started THEN 1 ELSE 0) /\ begun' = (IF row'.started THEN 1 ELSE 0)
    BY DEF IInv, RowInv
  <2> QED
    BY <2>1, <2>2
<1>3. Unsealed(req[s])'
  BY <1>1 DEF Unsealed
<1>4. ASSUME NEW t \in Slots \ {s} PROVE Unsealed(req[t])'
  <2>1. CASE req[s].step \notin Resting
    <3>1. req[t].step \in Resting
      BY <2>1 DEF SealInv, OneServer
    <3> QED
      BY <1>1, <3>1 DEF Unsealed, Resting
  <2>2. CASE row'.started = row.started /\ (hour # "after" /\ Closed' => Closed)
    <3>1. Unsealed(req[t]) /\ req'[t] = req[t]
      BY <1>1 DEF SealInv
    <3> QED
      BY <2>2, <3>1 DEF Unsealed, IsOpen
  <2> QED
    BY <2>1, <2>2
<1>5. ASSUME NEW t \in Slots PROVE req'[t].step \in Resting \/ t \in Instances
  BY <1>1 DEF SealInv
<1> QED
  BY <1>2, <1>3, <1>4, <1>5 DEF SealInv

LEMMA ArrivalsRead ==
  ASSUME IInv, SealInv, NEW s \in Slots, Arrive(s)
  PROVE  SealInv'
<1>1. PICK w : Begin(s, w) /\ (w.step \in Resting \/ s \in Instances)
               /\ (w.step \in {"draft", "lock"} => IsOpen(row) /\ w.seen = SeenOf(row))
  <2>1. \A step, q : Fresh(step, q).step = step
    BY GoesOn
  <2>2. \A step, q, v : Stale(step, q, v).step = step /\ Stale(step, q, v).seen = SeenOf(row)
    BY DEF Stale, Idle
  <2>3. CASE \/ GetExam(s) \/ ArriveLate(s) \/ SendBeacon(s) \/ PostSubmit(s) \/ PutScores(s) \/ PostFinalize(s)
    <3>1. PICK w : Begin(s, w) /\ w.step \notin {"draft", "lock"}
      BY <2>1, <2>2, <2>3 DEF GetExam, ArriveLate, SendBeacon, PostSubmit, PutScores, PostFinalize
    <3>2. s \in Instances
      BY <2>3 DEF GetExam, ArriveLate, SendBeacon, PostSubmit, PutScores, PostFinalize, Sitting, Admitted
    <3> QED
      BY <3>1, <3>2
  <2>4. CASE Sweep(s)
    <3>1. Expiry(row) \in Resting
      BY ExpiryType DEF Resting
    <3> QED
      BY <2>1, <2>4, <3>1 DEF Sweep, Resting
  <2>5. ASSUME NEW q \in Questions, StartAnswering(s, q)
        PROVE  \E w : Begin(s, w) /\ s \in Instances /\ w.step = "phase"
    BY <2>1, <2>5 DEF StartAnswering, Sitting, Admitted
  <2>6. ASSUME NEW q \in Questions, NEW v \in Answers \cup {Nothing}, SaveDraft(s, q, v) \/ PostNext(s, q, v)
        PROVE  \E w : /\ Begin(s, w) /\ s \in Instances
                      /\ w.step \in {"draft", "lock"} => IsOpen(row) /\ w.seen = SeenOf(row)
    <3>1. CASE SaveDraft(s, q, v)
      BY <2>1, <2>2, <3>1 DEF SaveDraft, Sitting, Admitted
    <3>2. CASE PostNext(s, q, v)
      BY <3>2, NextArrives
    <3> QED
      BY <2>6, <3>1, <3>2
  <2> QED
    BY <2>3, <2>4, <2>5, <2>6 DEF Arrive
<1>2. req'[s] = w /\ (\A t \in Slots \ {s} : req'[t] = req[t]) /\ UNCHANGED <<row, responses, hour>>
  BY <1>1, RequestChanges DEF Begin, IInv
<1>3. SeenOf(row).status = row.status /\ SeenOf(row).started = row.started
  BY DEF SeenOf
<1>4. Unsealed(w)'
  <2> SUFFICES ASSUME w.step \in {"draft", "lock"}
               PROVE  /\ IsOpen(w.seen) /\ w.seen.started = row.started
                      /\ w.seen.status = "assigned" => ~w.seen.started
                      /\ ~Closed
    BY <1>2 DEF Unsealed, Closed
  <2>1. IsOpen(row) /\ w.seen = SeenOf(row)
    BY <1>1
  <2> QED
    BY <1>3, <2>1 DEF IsOpen, Closed, IInv, RowInv
<1>5. ASSUME NEW t \in Slots PROVE (req'[t].step \in Resting \/ t \in Instances) /\ Unsealed(req[t])'
  <2>1. CASE t = s
    BY <1>1, <1>2, <1>4, <2>1
  <2>2. CASE t # s
    BY <1>2, <2>2 DEF SealInv, Unsealed, Closed
  <2> QED
    BY <2>1, <2>2
<1> QED
  BY <1>2, <1>5 DEF SealInv, RowsWhole

\* No step leaves a lock, a score or a mark on a row without an answer.
LEMMA RowsStayWhole ==
  ASSUME IInv, RowsWhole, NEW s \in Slots,
         WriteDraft(s) \/ LockAnswer(s) \/ ScoreRows(s) \/ RecordScores(s) \/ WriteMarks(s)
  PROVE  RowsWhole'
<1>1. responses \in [Questions -> Responses] /\ req[s] \in Requests
  BY DEF IInv, TypeOK
<1>2. \A q \in Questions : Exists(responses[q]) \/ responses[q] = NoRow
  BY DEF RowsWhole
<1>3. CASE WriteDraft(s)
  <2>1. ASSUME NEW r \in Responses, Exists(r) \/ r = NoRow
        PROVE  Exists(Drafted(r, req[s])) \/ Drafted(r, req[s]) = NoRow
    BY <1>1, <2>1 DEF Drafted, Exists, Responses, Requests
  <2> QED
    BY <1>1, <1>2, <1>3, <2>1 DEF WriteDraft, RowsWhole
<1>4. CASE LockAnswer(s)
  <2>1. ASSUME NEW r \in Responses, Exists(r) \/ r = NoRow
        PROVE  Exists(Locked(r, req[s])) \/ Locked(r, req[s]) = NoRow
    BY <1>1, <2>1 DEF Locked, Exists, Responses, Requests
  <2> QED
    BY <1>1, <1>2, <1>4, <2>1 DEF LockAnswer, RowsWhole
<1>5. CASE ScoreRows(s) \/ RecordScores(s)
  <2>1. ASSUME NEW r \in Responses, Exists(r) \/ r = NoRow, NEW listed, NEW q
        PROVE  /\ Exists(Scored(r, listed, q)) \/ Scored(r, listed, q) = NoRow
               /\ Exists(Filled(r, listed, q)) \/ Filled(r, listed, q) = NoRow
    BY <2>1 DEF Scored, Filled, Exists, Responses, NoRow
  <2> QED
    BY <1>1, <1>2, <1>5, <2>1 DEF ScoreRows, RecordScores, RowsWhole
<1>6. CASE WriteMarks(s)
  <2>1. ASSUME NEW r \in Responses, Exists(r) \/ r = NoRow, NEW listed, NEW c
        PROVE  Exists(Marked(r, listed, c)) \/ Marked(r, listed, c) = NoRow
    BY <2>1 DEF Marked, Exists, Responses, NoRow
  <2> QED
    BY <1>1, <1>2, <1>6, <2>1 DEF WriteMarks, RowsWhole
<1> QED
  BY <1>3, <1>4, <1>5, <1>6

\* The writes of a listing screen, and of the clock.
LEMMA ScreensOnlyClose ==
  ASSUME TypeOK
  PROVE  /\ Expired(row).started = row.started
         /\ hour # "after" => Expired(row) = row
         /\ Cancelled(row).started = row.started
         /\ Cancelled(row).status \in {"submitted", "scored"} => Closed
  BY DEF TypeOK, Rows, Expired, Cancelled, ExamHasExpired, Closed

LEMMA StepsStaySealed ==
  ASSUME OneServer, IInv, IInv', SealInv, NEW s \in Slots, Step(s) \/ Crash(s)
  PROVE  SealInv'
<1>1. PICK w : req' = [req EXCEPT ![s] = w] /\ w.step \notin {"draft", "lock"}
               /\ (w.step \in Resting \/ req[s].step \notin Resting)
  <2>1. \A r : Fresh(Expiry(r), 0).step \in Resting
    BY GoesOn, ExpiryType DEF Resting
  <2>2. Idle.step \in Resting /\ \A step : Fresh(step, 0).step = step
    BY GoesOn DEF Idle, Resting
  <2>3. CASE Crash(s)
    BY <2>2, <2>3 DEF Crash, Finish, Resting
  <2>4. CASE Expire(s)
    BY <2>2, <2>4 DEF Expire, Goto, At, Resting
  <2>5. CASE \/ CancelPaper(s) \/ OpenExam(s) \/ StartPaper(s) \/ RecordBeacon(s) \/ BeginAnswer(s)
             \/ TurnPhase(s) \/ MoveCursor(s) \/ ClosePaper(s) \/ WriteMarks(s) \/ PublishReport(s)
    <3>1. Finish(s) \/ Goto(s, "idle") \/ \E r : Goto(s, Expiry(r))
      BY <2>5 DEF CancelPaper, OpenExam, StartPaper, RecordBeacon, BeginAnswer, TurnPhase,
         MoveCursor, ClosePaper, WriteMarks, PublishReport
    <3> QED
      BY <2>1, <2>2, <3>1 DEF Finish, Goto, Resting
  <2>6. CASE WriteDraft(s) \/ ScoreRows(s)
    BY <2>1, <2>2, <2>6 DEF WriteDraft, ScoreRows, Finish, Goto, At, Resting
  <2>7. CASE LockAnswer(s) \/ ListRows(s) \/ ListForMarks(s) \/ Grade(s) \/ RecordScores(s)
    <3>1. req[s].step \notin Resting
      BY <2>7 DEF LockAnswer, ListRows, ListForMarks, Grade, RecordScores, At, Resting
    <3>2. req[s] \in Requests /\ Fresh("score", 0) \in Requests
      BY FreshType, QuestionsFact DEF IInv, TypeOK, Steps
    <3>3. ASSUME NEW v, NEW c, NEW a, NEW b
          PROVE  [req[s] EXCEPT !.step = "move", !.v = v, !.clock = c, !.overdue = a, !.silent = b].step = "move"
      BY <3>2 DEF Requests
    <3>4. /\ [req[s] EXCEPT !.step = "marking", !.sheet = responses].step = "marking"
          /\ [req[s] EXCEPT !.step = "record", !.sheet = responses].step = "record"
          /\ [req[s] EXCEPT !.step = "publish"].step = "publish"
          /\ [Fresh("score", 0) EXCEPT !.sheet = responses].step = "score"
      BY <2>2, <3>2 DEF Requests
    <3>5. CASE LockAnswer(s)
      <4>1. PICK a, b \in BOOLEAN :
              \/ Goto(s, Expiry(req[s].seen))
              \/ req' = [req EXCEPT ![s] = [req[s] EXCEPT !.step = "move", !.v = Nothing, !.clock = "running",
                                                           !.overdue = a, !.silent = b]]
        BY <3>5 DEF LockAnswer, LacksRecording, OutOfTime
      <4> QED
        BY <2>1, <3>1, <3>3, <4>1 DEF Goto, Resting
    <3>6. CASE ListRows(s)
      BY <2>2, <3>1, <3>4, <3>6 DEF ListRows, Finish, Resting
    <3>7. CASE ListForMarks(s)
      BY <3>1, <3>4, <3>7 DEF ListForMarks
    <3>8. CASE Grade(s)
      BY <2>2, <3>1, <3>4, <3>8 DEF Grade, Finish, Resting
    <3>9. CASE RecordScores(s)
      BY <3>1, <3>4, <3>9 DEF RecordScores
    <3> QED
      BY <2>7, <3>5, <3>6, <3>7, <3>8, <3>9
  <2> QED
    BY <2>3, <2>4, <2>5, <2>6, <2>7 DEF Step
<1>2. w.step \in Resting \/ s \in Instances
  BY <1>1 DEF SealInv
<1>3. hour' = hour /\ (begun' = begun \/ begun' = begun + 1)
  BY DEF Step, Crash, Expire, CancelPaper, OpenExam, WriteDraft, StartPaper, RecordBeacon, BeginAnswer, TurnPhase,
     LockAnswer, MoveCursor, ListRows, ScoreRows, ClosePaper, ListForMarks, WriteMarks, Grade, RecordScores,
     PublishReport, SameClocks
<1>4. RowsWhole'
  <2>1. CASE WriteDraft(s) \/ LockAnswer(s) \/ ScoreRows(s) \/ RecordScores(s) \/ WriteMarks(s)
    BY <2>1, RowsStayWhole DEF SealInv
  <2>2. CASE ~(WriteDraft(s) \/ LockAnswer(s) \/ ScoreRows(s) \/ RecordScores(s) \/ WriteMarks(s))
    <3>1. UNCHANGED responses
      BY <2>2 DEF Step, Crash, Expire, CancelPaper, OpenExam, StartPaper, RecordBeacon, BeginAnswer, TurnPhase,
         MoveCursor, ListRows, ClosePaper, ListForMarks, Grade, PublishReport
    <3> QED
      BY <3>1 DEF SealInv, RowsWhole
  <2> QED
    BY <2>1, <2>2
<1>5. \/ req[s].step \notin Resting
      \/ row'.started = row.started /\ (hour # "after" /\ Closed' => Closed)
  <2>1. CASE Expire(s) \/ CancelPaper(s)
    <3>1. TypeOK
      BY DEF IInv
    <3> QED
      BY <2>1, <3>1, ScreensOnlyClose DEF Expire, CancelPaper, Closed
  <2>2. CASE Crash(s)
    BY <2>2 DEF Crash, Closed
  <2>3. CASE ~(Expire(s) \/ CancelPaper(s) \/ Crash(s))
    BY <2>3 DEF Step, OpenExam, WriteDraft, StartPaper, RecordBeacon, BeginAnswer, TurnPhase,
       LockAnswer, MoveCursor, ListRows, ScoreRows, ClosePaper, ListForMarks, WriteMarks, Grade, RecordScores,
       PublishReport, At, Resting
  <2> QED
    BY <2>1, <2>2, <2>3
<1> QED
  BY <1>1, <1>2, <1>3, <1>4, <1>5, SealedStays

LEMMA SealStays == OneServer /\ IInv /\ SealInv /\ [Next]_vars => SealInv'
<1> SUFFICES ASSUME OneServer, IInv, SealInv, [Next]_vars PROVE SealInv'
  OBVIOUS
<1>1. IInv'
  BY NextKeepsIInv
<1>2. CASE UNCHANGED <<row, responses, req>> /\ (hour' = "after" => hour = "after" \/ Scheduled \/ row.started)
           /\ (hour = "after" => hour' = "after")
  BY <1>2 DEF SealInv, RowsWhole, Unsealed, Closed
<1>3. CASE ClockTick
  <2>1. row'.status = row.status /\ row'.started = row.started
    BY <1>3 DEF ClockTick, IInv, TypeOK, Rows
  <2>2. UNCHANGED <<responses, req, hour>>
    BY <1>3 DEF ClockTick
  <2> QED
    BY <2>1, <2>2 DEF SealInv, RowsWhole, Unsealed, Closed
<1> QED
  BY <1>1, <1>2, <1>3, ArrivalsRead, StepsStaySealed DEF Next, OpenWindow, Deadline, CancelBooking, vars

\* What each step may do to the answers of a closed or overdue paper.
LEMMA NextIsSealed ==
  ASSUME OneServer, IInv, SealInv, [Next]_vars, Closed \/ hour = "after", NEW q \in Questions
  PROVE  \/ /\ responses'[q].answer = responses[q].answer
            /\ Closed => responses'[q].locked = responses[q].locked
         \/ responses[q] = NoRow /\ responses'[q].answer = Blank /\ (hour = "after" => responses'[q].mark)
<1>1. responses \in [Questions -> Responses] /\ responses[q] \in Responses
  BY DEF IInv, TypeOK
<1>2. CASE UNCHANGED responses
  BY <1>2
<1>3. ASSUME NEW s \in Slots, WriteDraft(s) \/ LockAnswer(s)
      PROVE  responses'[q] = responses[q]
  <2>1. req[s].step \in {"draft", "lock"}
    BY <1>3 DEF WriteDraft, LockAnswer, At
  <2>2. ExamHasExpired(req[s].seen)
    <3>1. Unsealed(req[s]) /\ (hour = "after" => Scheduled \/ row.started)
      BY DEF SealInv
    <3> QED
      BY <2>1, <3>1 DEF Unsealed, IsOpen, ExamHasExpired
  <2> QED
    BY <1>1, <1>3, <2>2 DEF WriteDraft, LockAnswer, Drafted, Locked
<1>4. ASSUME NEW s \in Slots, ScoreRows(s) \/ RecordScores(s)
      PROVE  responses'[q].answer = responses[q].answer /\ responses'[q].locked = responses[q].locked
  <2>1. ASSUME NEW listed PROVE Scored(responses[q], listed, q).answer = responses[q].answer
                                /\ Scored(responses[q], listed, q).locked = responses[q].locked
    BY <1>1 DEF Scored, Responses
  <2>2. CASE ScoreRows(s)
    <3>1. Exists(req[s].sheet[q])
      BY <2>2 DEF ScoreRows, At, IInv, RequestsInv, RequestInv
    <3>2. responses'[q] = Scored(responses[q], req[s].sheet[q], q)
      BY <2>2, <3>1 DEF ScoreRows, Filled
    <3> QED
      BY <2>1, <3>2
  <2> QED
    BY <1>4, <2>1, <2>2 DEF RecordScores
<1>5. ASSUME NEW s \in Slots, WriteMarks(s)
      PROVE  \/ responses'[q].answer = responses[q].answer /\ responses'[q].locked = responses[q].locked
             \/ responses[q] = NoRow /\ responses'[q].answer = Blank /\ responses'[q].mark
  <2>1. CASE q \notin OpenQuestions
    BY <1>5, <2>1 DEF WriteMarks
  <2>2. CASE q \in OpenQuestions
    <3>1. PICK collides : /\ collides = \E k \in OpenQuestions : ~Exists(req[s].sheet[k]) /\ Exists(responses[k])
                          /\ responses'[q] = Marked(responses[q], req[s].sheet[q], collides)
      BY <1>5, <2>2 DEF WriteMarks
    <3>2. CASE Exists(req[s].sheet[q]) \/ collides
      BY <1>1, <3>1, <3>2 DEF Marked, Responses
    <3>3. CASE ~Exists(req[s].sheet[q]) /\ ~collides
      <4>1. responses[q] = NoRow
        BY <2>2, <3>1, <3>3 DEF SealInv, RowsWhole
      <4> QED
        BY <3>1, <3>3, <4>1 DEF Marked, NoRow
    <3> QED
      BY <3>2, <3>3
  <2> QED
    BY <2>1, <2>2
<1>6. ASSUME NEW s \in Slots, Arrive(s) \/ Crash(s) PROVE UNCHANGED responses
  BY <1>6
  DEF Arrive, GetExam, ArriveLate, SendBeacon, PostSubmit, PutScores, PostFinalize, Sweep,
      StartAnswering, SaveDraft, PostNext, Begin, Crash
<1>7. ASSUME NEW s \in Slots, Step(s),
             ~(WriteDraft(s) \/ LockAnswer(s) \/ ScoreRows(s) \/ RecordScores(s) \/ WriteMarks(s))
      PROVE  UNCHANGED responses
  BY <1>7 DEF Step, Expire, CancelPaper, OpenExam, StartPaper, RecordBeacon, BeginAnswer, TurnPhase,
     MoveCursor, ListRows, ClosePaper, ListForMarks, Grade, PublishReport
<1> QED
  BY <1>2, <1>3, <1>4, <1>5, <1>6, <1>7 DEF Next, ClockTick, OpenWindow, Deadline, CancelBooking, vars

\* On one server, once a paper is handed in, expired or past its window, no draft and
\* no lock changes it any more, whatever was admitted before (the deadline checks of
\* candidate.mjs inside the updates of PUT /answers and POST /next).
THEOREM SealHolds ==
  ASSUME OneServer
  PROVE  Spec => AnswersAreSealed
<1>1. Init => SealInv
  BY DEF Init, SealInv, RowsWhole, NoRows, Idle, Resting, Unsealed
<1>2. IInv /\ SealInv /\ [Next]_vars =>
        [row.status \in {"submitted", "scored"} \/ hour = "after" =>
           \A q \in Questions :
             \/ /\ responses'[q].answer = responses[q].answer
                /\ row.status \in {"submitted", "scored"} => responses'[q].locked = responses[q].locked
             \/ responses[q] = NoRow /\ responses'[q].answer = Blank /\ (hour = "after" => responses'[q].mark)]_vars
  BY NextIsSealed DEF Closed
<1> QED
  BY <1>1, <1>2, InitIInv, NextKeepsIInv, SealStays, PTL DEF Spec, AnswersAreSealed
=============================================================================
