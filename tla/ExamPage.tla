------------------------------- MODULE ExamPage -------------------------------
(***************************************************************************)
(* The exam hall in the candidate's browser (public/js/views/candidate.js, *)
(* exam-audio.js, api.js): one question at a time, a countdown, a          *)
(* recorder, drafts saved while the question runs, the lock that is sent   *)
(* again until it is taken, and the hand-in.  A request may fail on its    *)
(* way there or on its way back.  The server is reduced to what the page   *)
(* asks of it; it answers one request at a time.                           *)
(*                                                                         *)
(* An answer is the number of its latest edit and the number of its clip   *)
(* (0: none).                                                              *)
(***************************************************************************)
EXTENDS Naturals, Sequences

CONSTANTS
  Kinds,      \* the paper: Kinds[q] is "open" or "choice"
  Trouble,    \* which of these may happen: "hurry" (the review runs out while "Start
              \* answering" is under way), "recorder" (a recording fails to stop, or is
              \* empty or too large), "load" (the fetch after a taken lock fails)
  MaxNotes,   \* bound: edits of one answer
  MaxClips,   \* bound: recordings
  MaxFaults   \* bound: failed requests, failed recorders and reloads

ASSUME ExamPageAssumption ==
  /\ Kinds \in Seq({"open", "choice"}) /\ Len(Kinds) > 0
  /\ Trouble \subseteq {"hurry", "recorder", "load"}
  /\ MaxNotes \in Nat /\ MaxClips \in Nat /\ MaxFaults \in Nat

VARIABLES
  paper,   \* the server: the live question, its draft and window, and the exam's status
  page,    \* what the tab shows and is doing
  draft,   \* the autosave: [latest, sent, saved, timer, acked]
  net,     \* net[s]: the request of purpose s under way
  used,    \* [clips, faults] so far, and whether a recording was lost by the recorder
  seen,    \* history: the questions the page has shown
  owed,    \* history: what the server had acknowledged when the live question was first
           \* locked, and the recordings the candidate had at each press
  lost     \* history: the questions locked without what was owed to them

examPageVars == <<paper, page, draft, net, used, seen, owed, lost>>

Items == DOMAIN Kinds
Blank == [note |-> 0, clip |-> 0]
Nothing == [note |-> 0, clip |-> 0, keep |-> FALSE]
Purposes == {"enter", "draft", "lock", "load", "press", "timer", "submit"}

Request(kind, q, v) == [kind |-> kind, q |-> q, v |-> v, reply |-> "none"]
NoRequest == [kind |-> "none"]
Fetch == Request("get", 0, Nothing)

FirstPhase(q) == IF q \in Items /\ Kinds[q] = "open" THEN "review" ELSE "answer"

\* <<>>: nothing on screen to save, nothing sent.
FreshDraft(row) == [latest |-> << >>, sent |-> << >>, saved |-> 0, timer |-> FALSE, acked |-> row]

\* A page that shows one view, and no question.
View(at) ==
  [at |-> at, q |-> 0, phase |-> "answer", note |-> 0, clip |-> 0, kept |-> FALSE,
   rec |-> "off", stop |-> "no", lock |-> "no", timedOut |-> FALSE, clock |-> "off",
   over |-> FALSE, enabled |-> FALSE, flush |-> FALSE]

ExamPageInit ==
  /\ paper = [index |-> 1, phase |-> FirstPhase(1), late |-> FALSE, status |-> "open", row |-> Blank]
  /\ page = View("entering")
  /\ draft = FreshDraft(Blank)
  /\ net = [[s \in Purposes |-> NoRequest] EXCEPT !["enter"] = Fetch]
  /\ used = [clips |-> 0, faults |-> 0, mute |-> FALSE]
  /\ seen = {}
  /\ owed = [q |-> 0, note |-> 0, held |-> {}]
  /\ lost = {}

----------------------------------------------------------------------------
(* The server (handlers/candidate.mjs) *)

Idle(s) == net[s].kind = "none"
Sent(s, kinds) == net[s].kind \in kinds /\ net[s].reply = "none"
Back(s, kinds) == net[s].kind \in kinds /\ net[s].reply # "none"
Reply(s, reply) == net' = [net EXCEPT ![s].reply = reply]
ReplyScreen(s, p) ==
  net' = [net EXCEPT ![s] = [kind |-> @.kind, q |-> @.q, reply |-> "screen", screen |->
    [index |-> p.index, phase |-> p.phase, status |-> p.status,
     row |-> p.row]]]

\* What is stored of an answer: the clip that came with it, or the one already held.
Stored(v, row) == [note |-> v.note, clip |-> IF v.keep THEN row.clip ELSE v.clip]

\* Faulty variant of IsCurrent: a lock is for whatever question is live.
FaultyIsCurrent(q) == TRUE

IsCurrent(q) == q = paper.index

\* PUT answers: only for the live question, and only in its window.
ServeDraft ==
  LET r == net["draft"]
      taken == r.q = paper.index /\ ~paper.late
  IN
  /\ Sent("draft", {"draft"})
  /\ IF paper.status # "open" THEN Reply("draft", "refused") /\ UNCHANGED paper
     ELSE IF taken
     THEN Reply("draft", "accepted") /\ paper' = [paper EXCEPT !.row = Stored(r.v, @)]
     ELSE Reply("draft", "ignored") /\ UNCHANGED paper
  /\ UNCHANGED <<page, draft, used, seen, owed, lost>>

\* POST next: the question is locked with the answer sent, or, past its window, with
\* the draft; a duplicate moves nothing and carries no screen.
ServeLock ==
  LET r == net["lock"]
      q == paper.index
      answer == IF paper.late THEN paper.row ELSE Stored(r.v, paper.row)
      moved == [paper EXCEPT !.index = q + 1, !.phase = FirstPhase(q + 1), !.late = FALSE, !.row = Blank]
      whole == answer.note >= owed.note /\ (~paper.late => answer.clip \in owed.held)
  IN
  /\ Sent("lock", {"next"})
  /\ CASE paper.status # "open" -> Reply("lock", "refused") /\ UNCHANGED <<paper, lost>>
       [] paper.status = "open" /\ q \notin Items -> Reply("lock", "complete") /\ UNCHANGED <<paper, lost>>
       [] paper.status = "open" /\ q \in Items /\ ~IsCurrent(r.q) ->
            Reply("lock", "duplicate") /\ UNCHANGED <<paper, lost>>
       [] OTHER -> /\ paper' = moved
                   /\ lost' = IF whole THEN lost ELSE lost \cup {q}
                   /\ IF q + 1 \in Items THEN ReplyScreen("lock", moved) ELSE Reply("lock", "complete")
  /\ UNCHANGED <<page, draft, used, seen, owed>>

\* POST phase: the answer clock of the live question is started once.
ServePhase(s) ==
  LET moved == [paper EXCEPT !.phase = "answer", !.late = FALSE] IN
  /\ Sent(s, {"phase"})
  /\ IF paper.status = "open" /\ net[s].q = paper.index /\ paper.phase = "review"
     THEN paper' = moved /\ ReplyScreen(s, moved)
     ELSE Reply(s, "refused") /\ UNCHANGED paper
  /\ UNCHANGED <<page, draft, used, seen, owed, lost>>

ServeFetch(s) ==
  /\ Sent(s, {"get"})
  /\ ReplyScreen(s, paper)
  /\ UNCHANGED <<paper, page, draft, used, seen, owed, lost>>

\* POST submit: a paper that is in already is refused with a 409.
ServeSubmit ==
  /\ Sent("submit", {"submit"})
  /\ IF paper.status = "open" /\ paper.index \notin Items
     THEN paper' = [paper EXCEPT !.status = "submitted"] ELSE UNCHANGED paper
  /\ Reply("submit", "done")
  /\ UNCHANGED <<page, draft, used, seen, owed, lost>>

\* The window of the live question closes, or that of the whole exam.
WindowCloses ==
  /\ paper.status = "open" /\ paper.index \in Items
  /\ \/ ~paper.late /\ paper' = [paper EXCEPT !.late = TRUE]
     \/ paper' = [paper EXCEPT !.status = "submitted"]
  /\ UNCHANGED <<page, draft, net, used, seen, owed, lost>>

----------------------------------------------------------------------------
(* What the page shows *)

OpenItem == page.q \in Items /\ Kinds[page.q] = "open"
InHall == page.at = "hall"
Answering == InHall /\ page.phase = "answer"

\* Faulty variant of ClipKept: the clip was sent when the recorder stopped.
FaultyClipKept(p) == p.kept \/ p.clip # 0

\* clipKept, currentOpenAnswer: the clip travels once.
ClipKept(p) == IF p.clip # 0 THEN draft.saved = p.clip ELSE p.kept
OnScreen(p) == LET kept == ClipKept(p) IN
  [note |-> p.note, clip |-> IF kept THEN 0 ELSE p.clip, keep |-> kept]

\* hasEnough: an open question needs a recording, kept, made or running.
Enough(p) == Kinds[p.q] = "open" => p.clip # 0 \/ p.kept \/ p.rec = "live"

\* teardown: the recorder, the clock and the autosave stop; replies find nobody.
Leave(view) ==
  /\ page' = view
  /\ draft' = FreshDraft(Blank)

\* paint: a screen from the server replaces whatever is there.
Paint(s, screen) ==
  CASE screen.status = "submitted" ->
         /\ Leave(View("sent"))
         /\ net' = [x \in Purposes |-> NoRequest]
         /\ UNCHANGED seen
    [] screen.status = "open" /\ screen.index \notin Items ->
         /\ Leave(View("handover"))
         /\ net' = [[x \in Purposes |-> NoRequest] EXCEPT !["submit"] = Request("submit", 0, Nothing)]
         /\ UNCHANGED seen
    [] OTHER ->
         /\ page' = [View("hall") EXCEPT
              !.q = screen.index, !.phase = screen.phase, !.note = screen.row.note,
              !.kept = screen.row.clip # 0, !.clock = "ticking",
              !.enabled = (Kinds[screen.index] = "open" /\ screen.phase = "answer") => screen.row.clip # 0]
         /\ draft' = FreshDraft(screen.row)
         /\ net' = [net EXCEPT ![s] = NoRequest]
         /\ seen' = seen \cup {screen.index}

\* The first load.
Enter ==
  /\ Back("enter", {"get"})
  /\ Paint("enter", net["enter"].screen)
  /\ UNCHANGED <<paper, used, owed, lost>>

----------------------------------------------------------------------------
(* Review *)

PhaseOf == Request("phase", page.q, Nothing)

\* "Start answering" is pressed.
PressStart ==
  /\ InHall /\ page.phase = "review" /\ page.enabled /\ Idle("press") /\ ("hurry" \in Trouble \/ Idle("timer"))
  /\ page' = [page EXCEPT !.enabled = FALSE]
  /\ net' = [net EXCEPT !["press"] = PhaseOf]
  /\ UNCHANGED <<paper, draft, used, seen, owed, lost>>

\* The answer screen comes back, or (409, a failure) is fetched.
PhaseBack(s) ==
  /\ Back(s, {"phase"})
  /\ IF net[s].reply = "screen" THEN Paint(s, net[s].screen)
     ELSE net' = [net EXCEPT ![s] = Fetch] /\ UNCHANGED <<page, draft, seen>>
  /\ UNCHANGED <<paper, used, owed, lost>>

FetchBack(s) ==
  /\ Back(s, {"get"})
  /\ Paint(s, net[s].screen)
  /\ UNCHANGED <<paper, used, owed, lost>>

----------------------------------------------------------------------------
(* Answering *)

\* queueDraft: the autosave is (re)armed unless the server has this answer.
Queued(v) == [draft EXCEPT !.latest = <<v>>, !.timer = <<v>> # draft.sent]

Edit ==
  LET p == [page EXCEPT !.note = @ + 1, !.enabled = IF OpenItem THEN Enough(page) ELSE @] IN
  /\ Answering /\ page.note < MaxNotes
  /\ page' = p /\ draft' = Queued(OnScreen(p))
  /\ UNCHANGED <<paper, net, used, seen, owed, lost>>

\* sendDraft: one at a time; a timer that finds one under way does nothing.
SendDraft ==
  /\ InHall /\ draft.timer
  /\ draft' = [draft EXCEPT !.timer = FALSE]
  /\ net' = IF Idle("draft") THEN [net EXCEPT !["draft"] = Request("draft", page.q, draft.latest[1])] ELSE net
  /\ UNCHANGED <<paper, page, used, seen, owed, lost>>

\* The server has taken the clip of this draft.
ClipSaved(r) == r.v.clip # 0 /\ r.reply = "accepted"

\* An answered draft is what the server has seen; a newer answer goes out now.
DraftBack ==
  LET r == net["draft"]
      again == r.q = page.q /\ ~draft.timer /\ draft.latest \notin {<< >>, <<r.v>>}
  IN
  /\ Back("draft", {"draft"}) /\ r.reply # "refused"
  /\ draft' = [draft EXCEPT !.sent = <<r.v>>, !.saved = IF ClipSaved(r) THEN r.v.clip ELSE @,
       !.acked = IF r.q = page.q /\ r.reply = "accepted" THEN Stored(r.v, @) ELSE @]
  /\ net' = [net EXCEPT !["draft"] = IF again THEN Request("draft", page.q, draft.latest[1]) ELSE NoRequest]
  /\ UNCHANGED <<paper, page, used, seen, owed, lost>>

\* The record button: the microphone starts, and what was recorded before is dropped.
Record ==
  /\ Answering /\ OpenItem /\ page.rec \in {"off", "chunks"} /\ page.stop = "no" /\ page.lock = "no"
  /\ used.clips < MaxClips
  /\ page' = [page EXCEPT !.rec = "live", !.clip = 0, !.kept = FALSE, !.enabled = TRUE]
  /\ UNCHANGED <<paper, draft, net, used, seen, owed, lost>>

PressStop ==
  /\ Answering /\ page.rec = "live" /\ page.stop = "no" /\ page.lock = "no"
  /\ page' = [page EXCEPT !.stop = "record"]
  /\ UNCHANGED <<paper, draft, net, used, seen, owed, lost>>

\* stopCapture: the clip is there, or it is empty or too large and nothing is.
Captured(p) ==
  IF p.rec = "off" THEN {p}
  ELSE {[p EXCEPT !.rec = "off", !.clip = used.clips + 1]}
         \cup (IF "recorder" \in Trouble THEN {[p EXCEPT !.rec = "off"]} ELSE {})

Taken(p) ==
  IF page.rec = "off" THEN used
  ELSE [used EXCEPT !.clips = @ + 1, !.mute = @ \/ p.clip # used.clips + 1]

\* The record button's own stop: the clip goes to the server at once.
StopDone ==
  /\ page.stop = "record"
  /\ \E p \in Captured(page) :
       LET q == [p EXCEPT !.stop = "no", !.enabled = Enough(p)] IN
       /\ page' = IF page.lock = "stopping" THEN [q EXCEPT !.stop = "lock"] ELSE q
       /\ draft' = Queued(OnScreen(q))
       /\ used' = Taken(p)
  /\ UNCHANGED <<paper, net, seen, owed, lost>>

----------------------------------------------------------------------------
(* The lock *)

\* advance: the clock stops, the button is off, the lock goes out.
Locking(p) ==
  /\ page' = [p EXCEPT !.lock = "sent", !.stop = "no", !.clock = "off", !.enabled = FALSE, !.flush = TRUE]
  /\ net' = [net EXCEPT !["lock"] = Request("next", p.q, OnScreen(p))]
  /\ owed' =
       LET held == IF p.clip # 0 THEN p.clip ELSE IF p.kept THEN draft.acked.clip ELSE 0
       IN IF owed.q = p.q THEN [owed EXCEPT !.held = @ \cup {held}]
          ELSE [q |-> p.q, note |-> draft.acked.note, held |-> {held}]

\* The button is clicked, by the candidate or, forced, by the clock.
\* An open question first stops its recorder.
Click(p, forced) ==
  IF p.lock # "no" THEN page' = p /\ UNCHANGED <<net, owed>>
  ELSE IF Kinds[p.q] = "choice" THEN Locking(p)
  ELSE /\ page' = [p EXCEPT !.lock = "stopping", !.timedOut = forced,
                            !.stop = IF p.stop = "no" THEN "lock" ELSE p.stop]
       /\ UNCHANGED <<net, owed>>

PressLock ==
  /\ Answering /\ page.enabled /\ page.lock = "no"
  /\ Click(page, page.over)
  /\ UNCHANGED <<paper, draft, used, seen, lost>>

\* The recorder has stopped: without a recording only the clock may lock.
LockStopped ==
  /\ page.lock = "stopping" /\ page.stop = "lock"
  /\ \E p \in Captured(page) :
       /\ IF Enough(p) \/ page.timedOut
          THEN Locking(p)
          ELSE page' = [p EXCEPT !.lock = "no", !.stop = "no", !.enabled = FALSE] /\ UNCHANGED <<net, owed>>
       /\ used' = Taken(p)
  /\ UNCHANGED <<paper, draft, seen, lost>>

\* The recorder fails to stop: nothing is locked, what was recorded is kept for the next try.
StopFails ==
  /\ "recorder" \in Trouble /\ page.stop # "no" /\ page.rec = "live" /\ used.faults < MaxFaults
  /\ used' = [used EXCEPT !.faults = @ + 1, !.mute = TRUE]
  /\ page' = [page EXCEPT !.rec = "chunks", !.stop = "no", !.lock = "no", !.enabled = page.stop = "lock" /\ @]
  /\ UNCHANGED <<paper, draft, net, seen, owed, lost>>

\* flushDraft: what the server has not seen goes out now.
Flushed == [draft EXCEPT !.timer = draft.latest \notin {<< >>, draft.sent}]

\* While a lock is long on its way the autosave goes out too.
Flush ==
  /\ InHall /\ page.lock = "sent" /\ page.flush
  /\ page' = [page EXCEPT !.flush = FALSE]
  /\ draft' = IF Idle("draft") THEN Flushed ELSE [draft EXCEPT !.timer = FALSE]
  /\ UNCHANGED <<paper, net, used, seen, owed, lost>>

\* Faulty variant of Rearmed: neither button nor clock come back.
FaultyRearmed(p) == [p EXCEPT !.lock = "no"]

\* After a failed lock the button is back and the clock runs, or sends again by itself.
Rearmed(p) == [p EXCEPT !.lock = "no", !.enabled = TRUE, !.clock = IF p.over THEN "retry" ELSE "ticking"]

\* The lock's answer: the next screen, the end, a duplicate to look up, or a refusal.
LockBack ==
  LET reply == net["lock"].reply IN
  /\ Back("lock", {"next"})
  /\ CASE reply = "screen" -> Paint("lock", net["lock"].screen)
       [] reply = "complete" -> Paint("lock", [index |-> Len(Kinds) + 1, status |-> "open"])
       [] reply \in {"duplicate", "refused"} ->
            /\ net' = [net EXCEPT !["lock"] = NoRequest, !["load"] = Fetch]
            /\ page' = [page EXCEPT !.lock = IF reply = "refused" THEN "checking" ELSE "loading"]
            /\ UNCHANGED <<draft, seen>>
  /\ UNCHANGED <<paper, used, owed, lost>>

----------------------------------------------------------------------------
(* The clock *)

ClockFires ==
  LET p == [page EXCEPT !.clock = "off", !.over = TRUE, !.enabled = TRUE] IN
  /\ InHall
  /\ \/ /\ page.clock \in {"ticking", "retry"} /\ page.phase = "answer"
        /\ Click(p, TRUE)
     \/ /\ page.clock = "ticking" /\ page.phase = "review" /\ Idle("timer") /\ ("hurry" \in Trouble \/ Idle("press"))
        /\ page' = [page EXCEPT !.clock = "off", !.over = TRUE]
        /\ net' = [net EXCEPT !["timer"] = PhaseOf]
        /\ UNCHANGED owed
     \/ /\ page.clock = "repaint"
        /\ page' = [page EXCEPT !.clock = "ticking", !.over = FALSE, !.enabled = TRUE]
        /\ UNCHANGED <<net, owed>>
  /\ UNCHANGED <<paper, draft, used, seen, lost>>

\* The two hours are over on the page's own clock.
ExamClockEnds ==
  /\ InHall /\ page.clock = "ticking" /\ paper.status = "submitted"
  /\ Leave(View("sent"))
  /\ net' = [x \in Purposes |-> NoRequest]
  /\ UNCHANGED <<paper, used, seen, owed, lost>>

----------------------------------------------------------------------------
(* Handing in *)

Submitted ==
  /\ Back("submit", {"submit"})
  /\ page' = View("sent")
  /\ net' = [net EXCEPT !["submit"] = NoRequest]
  /\ UNCHANGED <<paper, draft, used, seen, owed, lost>>

\* "Try submitting again", after the page gave up.
TryAgain ==
  /\ page.at = "problem"
  /\ page' = View("handover")
  /\ net' = [net EXCEPT !["submit"] = Request("submit", 0, Nothing)]
  /\ UNCHANGED <<paper, draft, used, seen, owed, lost>>

----------------------------------------------------------------------------
(* What goes wrong *)

\* A request, or its answer, is lost.
RequestFails(s) ==
  /\ ~Idle(s) /\ s # "enter" /\ used.faults < MaxFaults
  /\ s = "load" /\ page.lock = "loading" => "load" \in Trouble
  /\ used' = [used EXCEPT !.faults = @ + 1]
  /\ net' = [net EXCEPT ![s] = IF net[s].kind = "phase" THEN Fetch ELSE NoRequest]
  /\ CASE s = "lock" \/ (s = "load" /\ page.lock = "checking") -> page' = Rearmed(page)
       [] s = "load" /\ page.lock = "loading" -> page' = [page EXCEPT !.lock = "no", !.enabled = TRUE]
       [] s = "press" /\ net[s].kind = "get" -> page' = [page EXCEPT !.enabled = TRUE]
       [] s = "timer" /\ net[s].kind = "get" -> page' = [page EXCEPT !.clock = "repaint"]
       [] s = "submit" -> page' = View("problem")
       [] OTHER -> UNCHANGED page
  /\ draft' = IF s = "lock" THEN Flushed ELSE draft
  /\ UNCHANGED <<paper, seen, owed, lost>>

\* A refused draft is dropped.
DraftRefused ==
  /\ Back("draft", {"draft"}) /\ net["draft"].reply = "refused"
  /\ net' = [net EXCEPT !["draft"] = NoRequest]
  /\ UNCHANGED <<paper, page, draft, used, seen, owed, lost>>

\* The tab is reloaded, or left and entered again.
Reload ==
  /\ InHall /\ used.faults < MaxFaults
  /\ used' = [used EXCEPT !.faults = @ + 1]
  /\ Leave(View("entering"))
  /\ net' = [[x \in Purposes |-> NoRequest] EXCEPT !["enter"] = Fetch]
  /\ UNCHANGED <<paper, seen, owed, lost>>

----------------------------------------------------------------------------
Serve(s) ==
  \/ s = "draft" /\ ServeDraft
  \/ s = "lock" /\ ServeLock
  \/ s = "submit" /\ ServeSubmit
  \/ ServePhase(s) \/ ServeFetch(s)
Handle(s) ==
  \/ s = "enter" /\ Enter
  \/ s = "draft" /\ (DraftBack \/ DraftRefused)
  \/ s = "lock" /\ LockBack
  \/ s = "submit" /\ Submitted
  \/ s \in {"press", "timer"} /\ PhaseBack(s)
  \/ s \in {"press", "timer", "load"} /\ FetchBack(s)
Tick == StopDone \/ LockStopped \/ ClockFires \/ SendDraft
Press == PressStart \/ PressLock

ExamPageNext ==
  \/ \E s \in Purposes : Serve(s) \/ Handle(s) \/ RequestFails(s)
  \/ Tick \/ Press \/ TryAgain \/ Flush
  \/ Edit \/ Record \/ PressStop
  \/ WindowCloses \/ ExamClockEnds \/ StopFails \/ Reload

\* The network answers in the end and the browser's timers fire; the candidate need
\* press nothing but "Try submitting again".
ExamPageSpec ==
  /\ ExamPageInit /\ [][ExamPageNext]_examPageVars
  /\ WF_examPageVars(\E s \in Purposes : Serve(s) \/ Handle(s))
  /\ WF_examPageVars(Tick) /\ WF_examPageVars(TryAgain)

----------------------------------------------------------------------------
(* Properties *)

\* Every question the paper has passed was shown to the candidate: a lock that is
\* sent twice, or answered too late, takes no question they have not seen
\* (candidate.mjs:655-661).
NeverSkipped == \A q \in Items : q < paper.index => q \in seen

\* A locked answer is not older than what the server had acknowledged when it was
\* locked, and one locked in time has the very recording the candidate had made,
\* whichever drafts and locks were lost (candidate.js:595-625 and 970-984).
LockKeepsWork == lost = {}

\* Whatever is lost on the way, the paper is handed in, by the clock if not by the
\* candidate (candidate.js:627-647 and 1349-1407); a recorder that fails as the clock
\* runs out leaves it to them.
HandedIn == <>(page.at = "sent" \/ used.mute)

=============================================================================
