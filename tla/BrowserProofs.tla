----------------------------- MODULE BrowserProofs -----------------------------
(***************************************************************************)
(* Proofs about the two sides of a browser in an exam: the page the        *)
(* candidate works in (ExamPage), for every paper and every number of      *)
(* faults, and the binding of an exam to one browser (ExamDevice), for     *)
(* every number of instances, with what one server adds.                   *)
(***************************************************************************)
EXTENDS ExamDevice, ExamPage, TLAPS

----------------------------------------------------------------------------
(* The exam page: types *)

PageRows == [note: Nat, clip: Nat]
Values == [note: Nat, clip: Nat, keep: BOOLEAN]
Phases == {"review", "answer"}
Screens == [index: Nat, phase: Phases, status: {"open", "submitted"}, row: PageRows]

Papers == [index: Nat, phase: Phases, late: BOOLEAN, status: {"open", "submitted"}, row: PageRows]
Pages == [at: {"entering", "hall", "handover", "sent", "problem"}, q: Nat, phase: Phases,
          note: Nat, clip: Nat, kept: BOOLEAN, rec: {"off", "live", "chunks"},
          stop: {"no", "record", "lock"}, lock: {"no", "stopping", "sent", "checking", "loading"},
          timedOut: BOOLEAN, clock: {"off", "ticking", "retry", "repaint"}, over: BOOLEAN,
          enabled: BOOLEAN, flush: BOOLEAN]
MaybeValue == {<< >>} \cup {<<v>> : v \in Values}
Drafts == [latest: MaybeValue, sent: MaybeValue, saved: Nat, timer: BOOLEAN, acked: PageRows]

\* A request on its way, or answered without a screen; and one answered with a screen.
Sendings == [kind: {"get", "draft", "next", "phase", "submit"}, q: Nat, v: Values,
             reply: {"none", "accepted", "ignored", "refused", "complete", "duplicate", "done"}]
Screenings == [kind: {"get", "next", "phase"}, q: Nat, reply: {"screen"}, screen: Screens]

Typed(r) ==
  \/ r = NoRequest
  \/ /\ r \in Sendings
     /\ r.kind = "get" => r.reply = "none"
     /\ r.kind = "next" => r.reply \in {"none", "complete", "duplicate", "refused"}
  \/ r \in Screenings

NetTyped ==
  /\ net = [s \in Purposes |-> net[s]]
  /\ \A s \in Purposes : Typed(net[s])

PageTypes ==
  /\ paper \in Papers /\ page \in Pages /\ draft \in Drafts /\ NetTyped
  /\ draft.timer => draft.latest # << >>
  /\ used \in [clips: Nat, faults: Nat, mute: BOOLEAN]
  /\ seen \subseteq Nat
  /\ owed \in [q: Nat, note: Nat, held: SUBSET Nat]

LEMMA PaperItems == Items = 1..Len(Kinds) /\ Len(Kinds) \in Nat /\ Items \subseteq Nat
<1>1. Kinds \in Seq({"open", "choice"})
  BY ExamPageAssumption
<1> QED
  BY <1>1 DEF Items

LEMMA ViewType ==
  /\ \A at \in {"entering", "hall", "handover", "sent", "problem"} : View(at) \in Pages
  /\ \A q : FirstPhase(q) \in Phases
  /\ Nothing \in Values /\ Blank \in PageRows /\ \A x \in PageRows : FreshDraft(x) \in Drafts
  BY DEF View, Pages, Phases, FirstPhase, Nothing, Values, Blank, PageRows, FreshDraft, Drafts, MaybeValue

LEMMA RequestType ==
  /\ \A q \in Nat, v \in Values, kind \in {"get", "draft", "next", "phase", "submit"} :
       Typed(Request(kind, q, v)) /\ Request(kind, q, v) \in Sendings
  /\ Typed(Fetch) /\ Typed(NoRequest) /\ Fetch.kind = "get" /\ NoRequest.kind = "none"
  BY ViewType DEF Request, Typed, Sendings, Fetch, NoRequest

LEMMA OnScreenType ==
  ASSUME NEW p \in Pages, draft \in Drafts
  PROVE  /\ OnScreen(p) \in Values /\ OnScreen(p).note = p.note /\ (OnScreen(p).keep <=> ClipKept(p))
         /\ OnScreen(p).clip = IF ClipKept(p) THEN 0 ELSE p.clip
<1>1. PICK b \in BOOLEAN : b = ClipKept(p)
  BY DEF ClipKept, Pages
<1>2. OnScreen(p) = [note |-> p.note, clip |-> IF b THEN 0 ELSE p.clip, keep |-> b]
  BY <1>1 DEF OnScreen
<1> QED
  BY <1>1, <1>2 DEF Values, Pages

\* What a table of requests becomes when one, or all, of them change.
LEMMA NetChanges ==
  ASSUME NetTyped, NEW s \in Purposes, NEW r, Typed(r), net' = [net EXCEPT ![s] = r]
  PROVE  NetTyped' /\ net'[s] = r /\ \A t \in Purposes \ {s} : net'[t] = net[t]
  BY DEF NetTyped

LEMMA NetClears ==
  ASSUME net' = [x \in Purposes |-> NoRequest]
  PROVE  NetTyped' /\ \A x \in Purposes : net'[x] = NoRequest
  BY RequestType DEF NetTyped

LEMMA NetRestarts ==
  ASSUME NEW s \in Purposes, NEW r, Typed(r), net' = [[x \in Purposes |-> NoRequest] EXCEPT ![s] = r]
  PROVE  NetTyped' /\ net'[s] = r /\ \A x \in Purposes \ {s} : net'[x] = NoRequest
  BY RequestType DEF NetTyped

LEMMA ReplyType ==
  ASSUME NetTyped, NEW s \in Purposes, ~Idle(s), net[s].reply = "none",
         NEW reply \in {"accepted", "ignored", "refused", "complete", "duplicate", "done"},
         net[s].kind # "get", net[s].kind = "next" => reply \in {"complete", "duplicate", "refused"},
         Reply(s, reply)
  PROVE  /\ NetTyped' /\ \A t \in Purposes \ {s} : net'[t] = net[t]
         /\ net[s] \in Sendings /\ net'[s] \in Sendings
         /\ net'[s].kind = net[s].kind /\ net'[s].q = net[s].q /\ net'[s].v = net[s].v /\ net'[s].reply = reply
<1>1. net[s] \in Sendings
  BY DEF NetTyped, Typed, Screenings, Idle, NoRequest
<1>2. PICK r : r = [net[s] EXCEPT !.reply = reply]
  OBVIOUS
<1>3. /\ r \in Sendings /\ r.kind = net[s].kind /\ r.q = net[s].q /\ r.v = net[s].v /\ r.reply = reply
  BY <1>1, <1>2 DEF Sendings
<1>4. Typed(r) /\ net' = [net EXCEPT ![s] = r]
  BY <1>2, <1>3 DEF Typed, Reply
<1> QED
  BY <1>1, <1>3, <1>4, NetChanges

LEMMA ReplyScreenType ==
  ASSUME NetTyped, NEW s \in Purposes, net[s].kind \in {"get", "next", "phase"}, net[s].reply = "none",
         NEW p \in Papers, ReplyScreen(s, p)
  PROVE  /\ NetTyped' /\ \A t \in Purposes \ {s} : net'[t] = net[t]
         /\ net'[s] \in Screenings /\ net'[s].kind = net[s].kind /\ net'[s].q = net[s].q
         /\ net'[s].screen = [index |-> p.index, phase |-> p.phase, status |-> p.status, row |-> p.row]
<1>1. net[s] \in Sendings
  BY DEF NetTyped, Typed, Screenings, NoRequest
<1>2. PICK screen : screen = [index |-> p.index, phase |-> p.phase, status |-> p.status, row |-> p.row]
  OBVIOUS
<1>3. screen \in Screens
  BY <1>2 DEF Papers, Screens
<1>4. PICK r : r = [kind |-> net[s].kind, q |-> net[s].q, reply |-> "screen", screen |-> screen]
  OBVIOUS
<1>5. r \in Screenings /\ r.kind = net[s].kind /\ r.q = net[s].q /\ r.screen = screen
  BY <1>1, <1>3, <1>4 DEF Screenings, Sendings
<1>6. Typed(r) /\ net' = [net EXCEPT ![s] = r]
  BY <1>2, <1>4, <1>5 DEF Typed, ReplyScreen
<1> QED
  BY <1>2, <1>5, <1>6, NetChanges

----------------------------------------------------------------------------
(* The exam page: every question was shown *)

\* What the page shows, and what it has asked to lock, was shown.
Shown(q) == q = 0 \/ q \in seen

ShownInv ==
  /\ PageTypes
  /\ Shown(page.q)
  /\ ~Idle("lock") => Shown(net["lock"].q)
  /\ NeverSkipped

LEMMA PurposeNames == {"enter", "draft", "lock", "load", "press", "timer", "submit"} = Purposes
  BY DEF Purposes

\* A screen is painted: the page leaves the hall, or shows a question afresh.
PaintsAway(view) ==
  /\ page' = View(view) /\ draft' = FreshDraft(Blank) /\ seen' = seen
  /\ \A x \in Purposes \ {"submit"} : net'[x] = NoRequest

PaintsHall(s, screen) ==
  /\ page'.at = "hall" /\ page'.q = screen.index /\ page'.phase = screen.phase
  /\ page'.note = screen.row.note /\ page'.clip = 0 /\ (page'.kept <=> screen.row.clip # 0)
  /\ page'.rec = "off" /\ page'.stop = "no" /\ page'.lock = "no"
  /\ draft' = FreshDraft(screen.row)
  /\ net'[s] = NoRequest /\ \A x \in Purposes \ {s} : net'[x] = net[x]
  /\ seen' = seen \cup {screen.index}
  /\ screen.status = "open" /\ screen.index \in Items

LEMMA PaintEffect ==
  ASSUME NetTyped, NEW s \in Purposes, NEW screen, Paint(s, screen),
         screen.status \in {"open", "submitted"},
         screen.status = "open" /\ screen.index \in Items => screen \in Screens
  PROVE  /\ page' \in Pages /\ draft' \in Drafts /\ ~draft'.timer /\ NetTyped'
         /\ \/ \E view \in {"sent", "handover"} : PaintsAway(view)
            \/ PaintsHall(s, screen)
<1>1. CASE screen.status = "submitted"
  <2>1. page' = View("sent") /\ draft' = FreshDraft(Blank) /\ seen' = seen /\ net' = [x \in Purposes |-> NoRequest]
    BY <1>1 DEF Paint, Leave
  <2> QED
    BY <2>1, NetClears, ViewType DEF PaintsAway, FreshDraft
<1>2. CASE screen.status = "open" /\ screen.index \notin Items
  <2>1. /\ page' = View("handover") /\ draft' = FreshDraft(Blank) /\ seen' = seen
        /\ net' = [[x \in Purposes |-> NoRequest] EXCEPT !["submit"] = Request("submit", 0, Nothing)]
    BY <1>2 DEF Paint, Leave
  <2>2. Typed(Request("submit", 0, Nothing)) /\ "submit" \in Purposes
    BY RequestType, ViewType DEF Purposes
  <2> QED
    BY <2>1, <2>2, NetRestarts, ViewType DEF PaintsAway, FreshDraft
<1>3. CASE screen.status = "open" /\ screen.index \in Items
  <2>1. screen \in Screens /\ screen.row \in PageRows /\ screen.index \in Nat /\ screen.phase \in Phases
        /\ screen.row.note \in Nat /\ screen.row.clip \in Nat
    BY <1>3 DEF Screens, PageRows
  <2>2. PICK k \in BOOLEAN, b \in BOOLEAN :
          /\ k = (screen.row.clip # 0)
          /\ b = ((Kinds[screen.index] = "open" /\ screen.phase = "answer") => screen.row.clip # 0)
    OBVIOUS
  <2>3. /\ page' = [View("hall") EXCEPT !.q = screen.index, !.phase = screen.phase, !.note = screen.row.note,
                                        !.kept = k, !.clock = "ticking", !.enabled = b]
        /\ draft' = FreshDraft(screen.row)
        /\ net' = [net EXCEPT ![s] = NoRequest]
        /\ seen' = seen \cup {screen.index}
    BY <1>3, <2>2 DEF Paint
  <2>4. page' \in Pages
    BY <2>1, <2>3 DEF View, Pages, Phases
  <2>5. /\ page'.at = "hall" /\ page'.q = screen.index /\ page'.phase = screen.phase
        /\ page'.note = screen.row.note /\ page'.clip = 0 /\ page'.kept = k
        /\ page'.rec = "off" /\ page'.stop = "no" /\ page'.lock = "no"
    BY <2>3 DEF View
  <2>6. NetTyped' /\ net'[s] = NoRequest /\ \A x \in Purposes \ {s} : net'[x] = net[x]
    BY <2>3, RequestType, NetChanges
  <2>7. draft' \in Drafts /\ ~draft'.timer
    BY <2>1, <2>3, ViewType DEF FreshDraft
  <2> QED
    BY <1>3, <2>2, <2>3, <2>4, <2>5, <2>6, <2>7 DEF PaintsHall
<1> QED
  BY <1>1, <1>2, <1>3

LEMMA PaintShows ==
  ASSUME ShownInv, NEW s \in Purposes, NEW screen, Paint(s, screen), UNCHANGED <<paper, used, owed>>,
         screen.status \in {"open", "submitted"},
         screen.status = "open" /\ screen.index \in Items => screen \in Screens
  PROVE  ShownInv'
<1>1. /\ page' \in Pages /\ draft' \in Drafts /\ ~draft'.timer /\ NetTyped'
      /\ (\E view \in {"sent", "handover"} : PaintsAway(view)) \/ PaintsHall(s, screen)
  BY PaintEffect DEF ShownInv, PageTypes
<1>2. CASE \E view \in {"sent", "handover"} : PaintsAway(view)
  <2>1. seen' = seen /\ page'.q = 0 /\ net'["lock"] = NoRequest
    BY <1>2 DEF PaintsAway, View, Purposes
  <2> QED
    BY <1>1, <2>1, RequestType DEF ShownInv, PageTypes, NeverSkipped, Shown, Idle
<1>3. CASE PaintsHall(s, screen)
  <2>1. seen' = seen \cup {page'.q} /\ page'.q \in Nat
    BY <1>1, <1>3 DEF PaintsHall, Pages
  <2>2. net'["lock"] = net["lock"] \/ net'["lock"] = NoRequest
    BY <1>3 DEF PaintsHall, Purposes
  <2> QED
    BY <1>1, <2>1, <2>2, RequestType DEF ShownInv, PageTypes, NeverSkipped, Shown, Idle
<1> QED
  BY <1>1, <1>2, <1>3

\* A screen that came as an answer is a screen.
LEMMA ScreenType ==
  ASSUME NetTyped, NEW s \in Purposes
  PROVE  /\ Back(s, {"get"}) \/ (net[s].reply = "screen" /\ ~Idle(s)) =>
              /\ net[s] \in Screenings /\ net[s].screen \in Screens
              /\ net[s].screen.status \in {"open", "submitted"}
         /\ Back(s, {"next"}) => net[s].reply \in {"screen", "complete", "duplicate", "refused"}
  BY DEF NetTyped, Typed, Sendings, Screenings, Screens, Back, Idle, NoRequest

LEMMA PaintsShow ==
  ASSUME ShownInv, \/ Enter \/ LockBack
                   \/ \E s \in Purposes : FetchBack(s) \/ PhaseBack(s)
  PROVE  ShownInv'
<1>0. NetTyped /\ {"enter", "lock", "load"} \subseteq Purposes
  BY DEF ShownInv, PageTypes, Purposes
<1>1. ASSUME NEW s \in Purposes, Back(s, {"get"}), Paint(s, net[s].screen), UNCHANGED <<paper, used, owed>>
      PROVE  ShownInv'
  <2>1. net[s].screen \in Screens /\ net[s].screen.status \in {"open", "submitted"}
    BY <1>0, <1>1, ScreenType
  <2> QED
    BY <1>1, <2>1, PaintShows
<1>2. ASSUME NEW s \in Purposes, Back(s, {"phase"}), net[s].reply = "screen", Paint(s, net[s].screen),
             UNCHANGED <<paper, used, owed>>
      PROVE  ShownInv'
  BY <1>0, <1>2, ScreenType, PaintShows DEF Back, Idle
<1>3. ASSUME NEW s \in Purposes, net' = [net EXCEPT ![s] = Fetch], Back(s, {"phase"}),
             UNCHANGED <<paper, page, draft, used, seen, owed>>
      PROVE  ShownInv'
  <2>1. NetTyped' /\ net'[s] = Fetch /\ \A t \in Purposes \ {s} : net'[t] = net[t]
    BY <1>0, <1>3, RequestType, NetChanges
  <2>2. Fetch.q = 0
    BY DEF Fetch, Request
  <2> QED
    BY <1>0, <1>3, <2>1, <2>2 DEF ShownInv, PageTypes, NeverSkipped, Shown, Idle
<1>4. CASE Enter
  BY <1>0, <1>1, <1>4 DEF Enter
<1>5. ASSUME NEW s \in Purposes, FetchBack(s) PROVE ShownInv'
  BY <1>1, <1>5 DEF FetchBack
<1>6. ASSUME NEW s \in Purposes, PhaseBack(s) PROVE ShownInv'
  BY <1>2, <1>3, <1>6 DEF PhaseBack
<1>7. CASE LockBack
  <2>1. CASE net["lock"].reply = "screen"
    <3>1. Paint("lock", net["lock"].screen) /\ UNCHANGED <<paper, used, owed>> /\ ~Idle("lock")
      BY <1>7, <2>1 DEF LockBack, Back, Idle
    <3> QED
      BY <1>0, <2>1, <3>1, ScreenType, PaintShows
  <2>2. CASE net["lock"].reply = "complete"
    <3>1. PICK screen : screen = [index |-> Len(Kinds) + 1, status |-> "open"]
      OBVIOUS
    <3>2. Paint("lock", screen) /\ UNCHANGED <<paper, used, owed>>
      BY <1>7, <2>2, <3>1 DEF LockBack
    <3>3. screen.status = "open" /\ screen.index \notin Items
      BY <3>1, PaperItems
    <3> QED
      BY <1>0, <3>2, <3>3, PaintShows
  <2>3. CASE net["lock"].reply \in {"duplicate", "refused"}
    <3>1. PICK l \in {"checking", "loading"} : page' = [page EXCEPT !.lock = l]
      BY <1>7, <2>3 DEF LockBack
    <3>2. page' \in Pages /\ page'.q = page.q
      BY <3>1 DEF ShownInv, PageTypes, Pages
    <3>3. net' = [net EXCEPT !["lock"] = NoRequest, !["load"] = Fetch] /\ UNCHANGED <<draft, seen, paper, used, owed>>
      BY <1>7, <2>3 DEF LockBack
    <3>4. NetTyped' /\ net'["lock"] = NoRequest
      BY <1>0, <3>3, RequestType DEF NetTyped
    <3> QED
      BY <3>2, <3>3, <3>4, RequestType DEF ShownInv, PageTypes, NeverSkipped, Shown, Idle
  <2> QED
    BY <1>0, <1>7, <2>1, <2>2, <2>3, ScreenType DEF LockBack
<1> QED
  BY <1>4, <1>5, <1>6, <1>7

\* The page stays with its question or leaves it, and the paper with its index.
LEMMA ShowsOn ==
  ASSUME ShownInv, paper' \in Papers, paper'.index = paper.index, page' \in Pages, page'.q \in {page.q, 0},
         draft' \in Drafts, draft'.timer => draft'.latest # << >>, NetTyped', seen' = seen,
         used' \in [clips: Nat, faults: Nat, mute: BOOLEAN], owed' \in [q: Nat, note: Nat, held: SUBSET Nat],
         \/ net'["lock"].kind = "none" \/ net'["lock"].q = page.q
         \/ ~Idle("lock") /\ net'["lock"].q = net["lock"].q
  PROVE  ShownInv'
  BY DEF ShownInv, PageTypes, NeverSkipped, Shown, Idle

LEMMA Unpacked ==
  ASSUME ShownInv
  PROVE  /\ paper \in Papers /\ page \in Pages /\ draft \in Drafts /\ NetTyped
         /\ draft.timer => draft.latest # << >>
         /\ used \in [clips: Nat, faults: Nat, mute: BOOLEAN] /\ used.clips \in Nat
         /\ owed \in [q: Nat, note: Nat, held: SUBSET Nat]
         /\ page.q \in Nat /\ paper.index \in Nat /\ draft.acked \in PageRows
         /\ draft.latest # << >> => draft.latest[1] \in Values
<1>1. draft \in Drafts
  BY DEF ShownInv, PageTypes
<1>2. draft.latest # << >> => draft.latest[1] \in Values
  <2>1. draft.latest \in MaybeValue
    BY <1>1 DEF Drafts
  <2> QED
    BY <2>1 DEF MaybeValue
<1> QED
  BY <1>1, <1>2 DEF ShownInv, PageTypes, Papers, Pages, Drafts

LEMMA ServesShow ==
  ASSUME ShownInv, NEW s \in Purposes, Serve(s)
  PROVE  ShownInv'
<1>0. "lock" \in Purposes /\ "draft" \in Purposes /\ "submit" \in Purposes
  BY DEF Purposes
<1>1. ASSUME UNCHANGED <<page, draft, used, seen, owed>>, paper' \in Papers, paper'.index = paper.index, NetTyped',
             net'["lock"] = net["lock"] \/ (~Idle("lock") /\ net'["lock"].q = net["lock"].q)
      PROVE  ShownInv'
  BY <1>1, Unpacked, ShowsOn DEF Idle
<1>2. CASE ServeDraft
  <2>1. PICK reply \in {"refused", "accepted", "ignored"} : Reply("draft", reply)
    BY <1>2 DEF ServeDraft
  <2>2. ~Idle("draft") /\ net["draft"].reply = "none" /\ net["draft"].kind = "draft"
    BY <1>2 DEF ServeDraft, Sent, Idle
  <2>3. /\ NetTyped' /\ net["draft"] \in Sendings /\ net'["lock"] = net["lock"]
    BY <1>0, <2>1, <2>2, ReplyType, Unpacked
  <2>4. paper' \in Papers /\ paper'.index = paper.index
    <3>1. Stored(net["draft"].v, paper.row) \in PageRows
      BY <2>3, Unpacked DEF Sendings, Values, Stored, Papers, PageRows
    <3> QED
      BY <1>2, <3>1, Unpacked DEF ServeDraft, Papers
  <2> QED
    BY <1>1, <1>2, <2>3, <2>4 DEF ServeDraft
<1>3. CASE ServeLock
  <2>1. ~Idle("lock") /\ net["lock"].reply = "none" /\ net["lock"].kind = "next" /\ Shown(net["lock"].q)
    BY <1>3 DEF ServeLock, Sent, Idle, ShownInv
  <2>2. PICK q : q = paper.index
    OBVIOUS
  <2>3. CASE ~(paper.status = "open" /\ q \in Items /\ IsCurrent(net["lock"].q))
    <3>1. PICK reply \in {"refused", "complete", "duplicate"} : Reply("lock", reply) /\ paper' = paper
      BY <1>3, <2>2, <2>3 DEF ServeLock
    <3>2. NetTyped' /\ net'["lock"].q = net["lock"].q
      BY <1>0, <2>1, <3>1, ReplyType, Unpacked
    <3> QED
      BY <1>1, <1>3, <2>1, <3>1, <3>2, Unpacked DEF ServeLock
  <2>4. CASE paper.status = "open" /\ q \in Items /\ IsCurrent(net["lock"].q)
    <3>1. PICK moved : moved = [paper EXCEPT !.index = q + 1, !.phase = FirstPhase(q + 1), !.late = FALSE, !.row = Blank]
      OBVIOUS
    <3>2. moved \in Papers /\ moved.index = q + 1 /\ q \in Nat
      <4>1. q \in Nat /\ q + 1 \in Nat /\ FirstPhase(q + 1) \in Phases /\ Blank \in PageRows
        BY <2>2, Unpacked, ViewType
      <4> QED
        BY <3>1, <4>1, Unpacked DEF Papers
    <3>3. paper' = moved /\ IF q + 1 \in Items THEN ReplyScreen("lock", moved) ELSE Reply("lock", "complete")
      BY <1>3, <2>2, <2>4, <3>1 DEF ServeLock
    <3>4. NetTyped' /\ net'["lock"].q = net["lock"].q
      BY <1>0, <2>1, <3>2, <3>3, ReplyType, ReplyScreenType, Unpacked
    <3>5. q \in seen
      <4>1. net["lock"].q = q /\ q # 0
        BY <2>2, <2>4, PaperItems DEF IsCurrent
      <4> QED
        BY <2>1, <4>1 DEF Shown
    <3>6. \A x \in Items : x < q + 1 => x < q \/ x = q
      BY <3>2, PaperItems
    <3>7. NeverSkipped'
      BY <1>3, <2>2, <3>2, <3>3, <3>5, <3>6 DEF NeverSkipped, ShownInv, ServeLock
    <3>8. UNCHANGED <<page, draft, used, seen, owed>>
      BY <1>3 DEF ServeLock
    <3> QED
      BY <2>1, <3>2, <3>3, <3>4, <3>7, <3>8 DEF ShownInv, PageTypes, Shown, Idle
  <2> QED
    BY <2>3, <2>4
<1>4. CASE ServeSubmit
  <2>1. Reply("submit", "done") /\ ~Idle("submit") /\ net["submit"].reply = "none" /\ net["submit"].kind = "submit"
    BY <1>4 DEF ServeSubmit, Sent, Idle
  <2>2. NetTyped' /\ net'["lock"] = net["lock"]
    BY <1>0, <2>1, ReplyType, Unpacked
  <2>3. paper' \in Papers /\ paper'.index = paper.index
    BY <1>4, Unpacked DEF ServeSubmit, Papers
  <2> QED
    BY <1>1, <1>4, <2>2, <2>3 DEF ServeSubmit
<1>5. CASE ServePhase(s)
  <2>1. net[s].kind = "phase" /\ net[s].reply = "none" /\ ~Idle(s)
    BY <1>5 DEF ServePhase, Sent, Idle
  <2>2. PICK moved : moved = [paper EXCEPT !.phase = "answer", !.late = FALSE]
    OBVIOUS
  <2>3. moved \in Papers /\ moved.index = paper.index
    BY <2>2, Unpacked DEF Papers, Phases
  <2>4. (paper' = moved /\ ReplyScreen(s, moved)) \/ (paper' = paper /\ Reply(s, "refused"))
    BY <1>5, <2>2 DEF ServePhase
  <2>5. NetTyped' /\ net'[s].q = net[s].q /\ \A t \in Purposes \ {s} : net'[t] = net[t]
    BY <2>1, <2>3, <2>4, ReplyType, ReplyScreenType, Unpacked
  <2> QED
    BY <1>0, <1>1, <1>5, <2>1, <2>3, <2>4, <2>5, Unpacked DEF ServePhase
<1>6. CASE ServeFetch(s)
  <2>1. net[s].kind = "get" /\ net[s].reply = "none" /\ ~Idle(s) /\ ReplyScreen(s, paper)
    BY <1>6 DEF ServeFetch, Sent, Idle
  <2>2. NetTyped' /\ net'[s].q = net[s].q /\ \A t \in Purposes \ {s} : net'[t] = net[t]
    BY <2>1, ReplyScreenType, Unpacked
  <2> QED
    BY <1>0, <1>1, <1>6, <2>1, <2>2, Unpacked DEF ServeFetch
<1> QED
  BY <1>2, <1>3, <1>4, <1>5, <1>6 DEF Serve

LEMMA AnswersShow ==
  ASSUME ShownInv, Edit \/ SendDraft \/ DraftBack \/ DraftRefused \/ Record \/ PressStop \/ Flush
  PROVE  ShownInv'
<1>0. "lock" \in Purposes /\ "draft" \in Purposes /\ "lock" # "draft"
  BY DEF Purposes
<1>1. UNCHANGED <<paper, used, seen, owed>>
  BY DEF Edit, SendDraft, DraftBack, DraftRefused, Record, PressStop, Flush
<1>2. ASSUME page' \in Pages, page'.q = page.q, draft' \in Drafts, draft'.timer => draft'.latest # << >>,
             NetTyped', net'["lock"] = net["lock"]
      PROVE  ShownInv'
  BY <1>1, <1>2, Unpacked, ShowsOn DEF Idle
<1>3. CASE Edit
  <2>1. PICK b \in BOOLEAN : b = IF OpenItem THEN Enough(page) ELSE page.enabled
    BY Unpacked DEF Enough, Pages
  <2>2. PICK p : p = [page EXCEPT !.note = page.note + 1, !.enabled = b]
    OBVIOUS
  <2>3. p \in Pages /\ p.q = page.q
    <3>1. page.note + 1 \in Nat
      BY Unpacked DEF Pages
    <3> QED
      BY <2>2, <3>1, Unpacked DEF Pages
  <2>4. page' = p /\ draft' = Queued(OnScreen(p)) /\ net' = net
    BY <1>3, <2>1, <2>2 DEF Edit
  <2>5. draft' \in Drafts /\ draft'.latest # << >>
    <3>1. PICK v \in Values : v = OnScreen(p)
      BY <2>3, OnScreenType, Unpacked
    <3>2. PICK t \in BOOLEAN : t = (<<v>> # draft.sent)
      OBVIOUS
    <3>3. draft' = [draft EXCEPT !.latest = <<v>>, !.timer = t]
      BY <2>4, <3>1, <3>2 DEF Queued
    <3>4. <<v>> \in MaybeValue /\ <<v>> # << >>
      BY DEF MaybeValue
    <3> QED
      BY <3>3, <3>4, Unpacked DEF Drafts
  <2> QED
    BY <1>2, <2>3, <2>4, <2>5, Unpacked DEF NetTyped
<1>4. CASE SendDraft
  <2>1. draft' = [draft EXCEPT !.timer = FALSE] /\ page' = page
    BY <1>4 DEF SendDraft
  <2>2. draft' \in Drafts /\ ~draft'.timer
    BY <2>1, Unpacked DEF Drafts
  <2>3. NetTyped' /\ net'["lock"] = net["lock"]
    <3>1. CASE net' = net
      BY <3>1, Unpacked DEF NetTyped
    <3>2. CASE net' = [net EXCEPT !["draft"] = Request("draft", page.q, draft.latest[1])]
      <4>1. Typed(Request("draft", page.q, draft.latest[1]))
        BY <1>4, Unpacked, RequestType DEF SendDraft
      <4> QED
        BY <1>0, <3>2, <4>1, NetChanges, Unpacked
    <3> QED
      BY <1>4, <3>1, <3>2 DEF SendDraft
  <2> QED
    BY <1>2, <2>1, <2>2, <2>3, Unpacked
<1>5. CASE DraftBack
  <2>1. PICK r \in Sendings : r = net["draft"] /\ r.v \in Values /\ r.v.clip \in Nat /\ r.q \in Nat
    BY <1>0, <1>5, Unpacked DEF DraftBack, Back, NetTyped, Typed, Screenings, Sendings, NoRequest, Values
  <2>2. PICK sv \in Nat, a \in PageRows :
          draft' = [draft EXCEPT !.sent = <<r.v>>, !.saved = sv, !.acked = a]
    <3>1. PICK sv : sv = IF ClipSaved(r) THEN r.v.clip ELSE draft.saved
      OBVIOUS
    <3>2. PICK a : a = IF r.q = page.q /\ r.reply = "accepted" THEN Stored(r.v, draft.acked) ELSE draft.acked
      OBVIOUS
    <3>3. sv \in Nat /\ a \in PageRows
      BY <2>1, <3>1, <3>2, Unpacked DEF Drafts, Stored, PageRows, Values
    <3>4. draft' = [draft EXCEPT !.sent = <<r.v>>, !.saved = sv, !.acked = a]
      BY <1>5, <2>1, <3>1, <3>2 DEF DraftBack
    <3> QED
      BY <3>3, <3>4
  <2>3. draft' \in Drafts /\ draft'.timer = draft.timer /\ draft'.latest = draft.latest
    <3>1. <<r.v>> \in MaybeValue
      BY <2>1 DEF MaybeValue
    <3> QED
      BY <2>2, <3>1, Unpacked DEF Drafts
  <2>4. NetTyped' /\ net'["lock"] = net["lock"]
    <3>1. PICK x : net' = [net EXCEPT !["draft"] = x]
                   /\ (x = NoRequest \/ (x = Request("draft", page.q, draft.latest[1]) /\ draft.latest # << >>))
      BY <1>5 DEF DraftBack
    <3>2. Typed(x)
      BY <3>1, Unpacked, RequestType
    <3> QED
      BY <1>0, <3>1, <3>2, NetChanges, Unpacked
  <2> QED
    BY <1>2, <1>5, <2>3, <2>4, Unpacked DEF DraftBack
<1>6. CASE DraftRefused
  <2>1. NetTyped' /\ net'["lock"] = net["lock"]
    BY <1>0, <1>6, RequestType, NetChanges, Unpacked DEF DraftRefused
  <2> QED
    BY <1>2, <1>6, <2>1, Unpacked DEF DraftRefused
<1>7. CASE Record \/ PressStop
  <2>1. page' \in Pages /\ page'.q = page.q
    <3>1. \/ page' = [page EXCEPT !.rec = "live", !.clip = 0, !.kept = FALSE, !.enabled = TRUE]
          \/ page' = [page EXCEPT !.stop = "record"]
      BY <1>7 DEF Record, PressStop
    <3>2. CASE page' = [page EXCEPT !.rec = "live", !.clip = 0, !.kept = FALSE, !.enabled = TRUE]
      BY <3>2, Unpacked DEF Pages
    <3>3. CASE page' = [page EXCEPT !.stop = "record"]
      BY <3>3, Unpacked DEF Pages
    <3> QED
      BY <3>1, <3>2, <3>3
  <2>2. draft' = draft /\ net' = net
    BY <1>7 DEF Record, PressStop
  <2> QED
    BY <1>2, <2>1, <2>2, Unpacked DEF NetTyped
<1>8. CASE Flush
  <2>1. page' \in Pages /\ page'.q = page.q
    BY <1>8, Unpacked DEF Flush, Pages
  <2>2. PICK t \in BOOLEAN : draft' = [draft EXCEPT !.timer = t] /\ (t => draft.latest # << >>)
    <3>1. draft' = [draft EXCEPT !.timer = draft.latest \notin {<< >>, draft.sent}] \/ draft' = [draft EXCEPT !.timer = FALSE]
      BY <1>8 DEF Flush, Flushed
    <3>2. PICK t \in BOOLEAN : t = (draft.latest \notin {<< >>, draft.sent})
      OBVIOUS
    <3> QED
      BY <3>1, <3>2
  <2>3. draft' \in Drafts /\ (draft'.timer => draft'.latest # << >>)
    BY <2>2, Unpacked DEF Drafts
  <2> QED
    BY <1>2, <1>8, <2>1, <2>3, Unpacked DEF Flush, NetTyped
<1> QED
  BY <1>3, <1>4, <1>5, <1>6, <1>7, <1>8

\* A press of the lock button, or the clock's, with the page as it is then.
LEMMA LockingShows ==
  ASSUME ShownInv, NEW p \in Pages, p.q = page.q, Locking(p)
  PROVE  /\ page' \in Pages /\ page'.q = page.q /\ NetTyped' /\ net'["lock"].q = page.q
         /\ owed' \in [q: Nat, note: Nat, held: SUBSET Nat]
<1>1. page' \in Pages /\ page'.q = p.q
  BY DEF Locking, Pages
<1>2. OnScreen(p) \in Values /\ "lock" \in Purposes /\ p.q \in Nat
  BY OnScreenType, Unpacked DEF Purposes
<1>3. Typed(Request("next", p.q, OnScreen(p))) /\ Request("next", p.q, OnScreen(p)).q = p.q
  BY <1>2, RequestType DEF Request
<1>4. NetTyped' /\ net'["lock"].q = p.q
  BY <1>2, <1>3, NetChanges, Unpacked DEF Locking
<1>5. owed' \in [q: Nat, note: Nat, held: SUBSET Nat]
  <2>1. PICK h : /\ h = IF p.clip # 0 THEN p.clip ELSE IF p.kept THEN draft.acked.clip ELSE 0
                 /\ owed' = IF owed.q = p.q THEN [owed EXCEPT !.held = owed.held \cup {h}]
                            ELSE [q |-> p.q, note |-> draft.acked.note, held |-> {h}]
    BY DEF Locking
  <2>2. h \in Nat /\ draft.acked.note \in Nat
    BY <2>1, Unpacked DEF Pages, PageRows
  <2> QED
    BY <1>2, <2>1, <2>2, Unpacked
<1> QED
  BY <1>1, <1>4, <1>5

LEMMA ClickShows ==
  ASSUME ShownInv, NEW p \in Pages, p.q = page.q, NEW forced \in BOOLEAN, Click(p, forced)
  PROVE  /\ page' \in Pages /\ page'.q = page.q /\ NetTyped'
         /\ net'["lock"] = net["lock"] \/ net'["lock"].q = page.q
         /\ owed' \in [q: Nat, note: Nat, held: SUBSET Nat]
<1>1. CASE p.lock # "no"
  BY <1>1, Unpacked DEF Click, NetTyped
<1>2. CASE p.lock = "no" /\ Kinds[p.q] = "choice"
  BY <1>2, LockingShows DEF Click
<1>3. CASE p.lock = "no" /\ Kinds[p.q] # "choice"
  <2>1. /\ page' = [p EXCEPT !.lock = "stopping", !.timedOut = forced, !.stop = IF p.stop = "no" THEN "lock" ELSE p.stop]
        /\ UNCHANGED <<net, owed>>
    BY <1>3 DEF Click
  <2>2. page' \in Pages /\ page'.q = p.q
    BY <2>1 DEF Pages
  <2> QED
    BY <2>1, <2>2, Unpacked DEF NetTyped
<1> QED
  BY <1>1, <1>2, <1>3

\* The recorder has stopped, with a clip or without.
LEMMA CapturedType ==
  ASSUME ShownInv, NEW p \in Captured(page)
  PROVE  /\ p \in Pages /\ p.q = page.q /\ p.at = page.at /\ p.phase = page.phase /\ p.note = page.note
         /\ p.kept = page.kept /\ p.lock = page.lock /\ p.stop = page.stop /\ p.timedOut = page.timedOut
         /\ Taken(p) \in [clips: Nat, faults: Nat, mute: BOOLEAN]
         /\ \/ p.clip = page.clip /\ Taken(p).clips >= used.clips
            \/ p.clip = used.clips + 1 /\ Taken(p).clips = used.clips + 1
<1>1. used.clips + 1 \in Nat /\ used.clips + 1 >= used.clips /\ used.clips >= used.clips
  BY Unpacked
<1>2. PICK b \in BOOLEAN : b = (used.mute \/ p.clip # used.clips + 1)
  OBVIOUS
<1>3. /\ p \in Pages /\ p.q = page.q /\ p.at = page.at /\ p.phase = page.phase /\ p.note = page.note
      /\ p.kept = page.kept /\ p.lock = page.lock /\ p.stop = page.stop /\ p.timedOut = page.timedOut
      /\ p.clip = page.clip \/ (p.clip = used.clips + 1 /\ page.rec # "off")
  <2>1. \/ p = page
        \/ p = [page EXCEPT !.rec = "off", !.clip = used.clips + 1] /\ page.rec # "off"
        \/ p = [page EXCEPT !.rec = "off"]
    BY DEF Captured
  <2>2. CASE p = page
    BY <2>2, Unpacked
  <2>3. CASE p = [page EXCEPT !.rec = "off", !.clip = used.clips + 1] /\ page.rec # "off"
    BY <1>1, <2>3, Unpacked DEF Pages
  <2>4. CASE p = [page EXCEPT !.rec = "off"]
    BY <2>4, Unpacked DEF Pages
  <2> QED
    BY <2>1, <2>2, <2>3, <2>4
<1>4. CASE page.rec = "off"
  BY <1>1, <1>3, <1>4, Unpacked DEF Taken
<1>5. CASE page.rec # "off"
  <2>1. Taken(p) = [used EXCEPT !.clips = used.clips + 1, !.mute = b]
    BY <1>2, <1>5 DEF Taken
  <2>2. Taken(p) \in [clips: Nat, faults: Nat, mute: BOOLEAN] /\ Taken(p).clips = used.clips + 1
    BY <1>1, <2>1, Unpacked
  <2> QED
    BY <1>1, <1>3, <2>2
<1> QED
  BY <1>4, <1>5

LEMMA QueuedType ==
  ASSUME ShownInv, NEW v \in Values, draft' = Queued(v)
  PROVE  /\ draft' \in Drafts /\ draft'.latest = <<v>> /\ draft'.latest # << >> /\ draft'.sent = draft.sent
         /\ draft'.saved = draft.saved /\ draft'.acked = draft.acked /\ draft'.latest[1] = v
<1>1. PICK t \in BOOLEAN : t = (<<v>> # draft.sent)
  OBVIOUS
<1>2. draft' = [draft EXCEPT !.latest = <<v>>, !.timer = t]
  BY <1>1 DEF Queued
<1>3. <<v>> \in MaybeValue /\ <<v>> # << >> /\ <<v>>[1] = v
  BY DEF MaybeValue
<1>4. PICK l \in MaybeValue : l = <<v>>
  BY <1>3
<1>5. draft' = [draft EXCEPT !.latest = l, !.timer = t]
  BY <1>2, <1>4
<1>6. /\ draft' \in Drafts /\ draft'.latest = l /\ draft'.sent = draft.sent
      /\ draft'.saved = draft.saved /\ draft'.acked = draft.acked
  BY <1>5, Unpacked DEF Drafts
<1> QED
  BY <1>3, <1>4, <1>6

LEMMA FlushedType ==
  ASSUME ShownInv
  PROVE  /\ Flushed \in Drafts /\ Flushed.latest = draft.latest /\ Flushed.sent = draft.sent
         /\ Flushed.saved = draft.saved /\ Flushed.acked = draft.acked
         /\ Flushed.timer => draft.latest # << >>
<1>1. PICK t \in BOOLEAN : t = (draft.latest \notin {<< >>, draft.sent})
  OBVIOUS
<1>2. Flushed = [draft EXCEPT !.timer = t]
  BY <1>1 DEF Flushed
<1> QED
  BY <1>1, <1>2, Unpacked DEF Drafts

LEMMA StopsShow ==
  ASSUME ShownInv, StopDone \/ LockStopped \/ StopFails
  PROVE  ShownInv'
<1>1. CASE StopDone
  <2>1. PICK p \in Captured(page) :
          LET q == [p EXCEPT !.stop = "no", !.enabled = Enough(p)] IN
          /\ page' = IF page.lock = "stopping" THEN [q EXCEPT !.stop = "lock"] ELSE q
          /\ draft' = Queued(OnScreen(q))
          /\ used' = Taken(p)
    BY <1>1 DEF StopDone
  <2>2. p \in Pages /\ p.q = page.q /\ used' \in [clips: Nat, faults: Nat, mute: BOOLEAN]
    BY <2>1, CapturedType
  <2>3. PICK b \in BOOLEAN : b = Enough(p)
    BY <2>2 DEF Enough, Pages
  <2>4. PICK q : q = [p EXCEPT !.stop = "no", !.enabled = b]
    OBVIOUS
  <2>5. q \in Pages /\ q.q = page.q
    BY <2>2, <2>4 DEF Pages
  <2>6. /\ page' = (IF page.lock = "stopping" THEN [q EXCEPT !.stop = "lock"] ELSE q)
        /\ draft' = Queued(OnScreen(q))
    BY <2>1, <2>3, <2>4
  <2>7. page' \in Pages /\ page'.q = page.q
    BY <2>5, <2>6 DEF Pages
  <2>8. draft' \in Drafts /\ draft'.latest # << >>
    BY <2>5, <2>6, OnScreenType, QueuedType, Unpacked
  <2>9. UNCHANGED <<paper, net, seen, owed>>
    BY <1>1 DEF StopDone
  <2> QED
    BY <2>2, <2>7, <2>8, <2>9, Unpacked, ShowsOn DEF NetTyped, Idle
<1>2. CASE LockStopped
  <2>1. PICK p \in Captured(page) :
          /\ IF Enough(p) \/ page.timedOut
             THEN Locking(p)
             ELSE page' = [p EXCEPT !.lock = "no", !.stop = "no", !.enabled = FALSE] /\ UNCHANGED <<net, owed>>
          /\ used' = Taken(p)
    BY <1>2 DEF LockStopped
  <2>2. p \in Pages /\ p.q = page.q /\ used' \in [clips: Nat, faults: Nat, mute: BOOLEAN]
    BY <2>1, CapturedType
  <2>3. /\ page' \in Pages /\ page'.q = page.q /\ NetTyped'
        /\ net'["lock"] = net["lock"] \/ net'["lock"].q = page.q
        /\ owed' \in [q: Nat, note: Nat, held: SUBSET Nat]
    <3>1. CASE Locking(p)
      BY <2>2, <3>1, LockingShows
    <3>2. CASE page' = [p EXCEPT !.lock = "no", !.stop = "no", !.enabled = FALSE] /\ UNCHANGED <<net, owed>>
      BY <2>2, <3>2, Unpacked DEF Pages, NetTyped
    <3> QED
      BY <2>1, <3>1, <3>2
  <2>4. UNCHANGED <<paper, draft, seen>>
    BY <1>2 DEF LockStopped
  <2> QED
    BY <2>2, <2>3, <2>4, Unpacked, ShowsOn DEF Idle
<1>3. CASE StopFails
  <2>1. PICK b \in BOOLEAN : b = (page.stop = "lock" /\ page.enabled)
    OBVIOUS
  <2>2. page' = [page EXCEPT !.rec = "chunks", !.stop = "no", !.lock = "no", !.enabled = b]
    BY <1>3, <2>1 DEF StopFails
  <2>3. page' \in Pages /\ page'.q = page.q
    BY <2>2, Unpacked DEF Pages
  <2>4. used' \in [clips: Nat, faults: Nat, mute: BOOLEAN]
    <3>1. used.faults + 1 \in Nat
      BY Unpacked
    <3> QED
      BY <1>3, <3>1, Unpacked DEF StopFails
  <2>5. UNCHANGED <<paper, draft, net, seen, owed>>
    BY <1>3 DEF StopFails
  <2> QED
    BY <2>3, <2>4, <2>5, Unpacked, ShowsOn DEF NetTyped, Idle
<1> QED
  BY <1>1, <1>2, <1>3

LEMMA ClocksShow ==
  ASSUME ShownInv, ClockFires \/ PressLock \/ PressStart
  PROVE  ShownInv'
<1>0. UNCHANGED <<paper, draft, used, seen>>
  BY DEF ClockFires, PressLock, PressStart
<1>1. ASSUME page' \in Pages, page'.q = page.q, NetTyped', net'["lock"] = net["lock"] \/ net'["lock"].q = page.q,
             owed' \in [q: Nat, note: Nat, held: SUBSET Nat]
      PROVE  ShownInv'
  BY <1>0, <1>1, Unpacked, ShowsOn DEF Idle
<1>2. ASSUME NEW s \in Purposes \ {"lock"}, net' = [net EXCEPT ![s] = PhaseOf]
      PROVE  NetTyped' /\ net'["lock"] = net["lock"]
  <2>1. Typed(PhaseOf) /\ "lock" \in Purposes
    BY RequestType, ViewType, Unpacked DEF PhaseOf, Purposes
  <2> QED
    BY <1>2, <2>1, NetChanges, Unpacked
<1>3. CASE PressStart
  <2>1. page' = [page EXCEPT !.enabled = FALSE] /\ net' = [net EXCEPT !["press"] = PhaseOf] /\ owed' = owed
    BY <1>3 DEF PressStart
  <2>2. page' \in Pages /\ page'.q = page.q
    BY <2>1, Unpacked DEF Pages
  <2> QED
    BY <1>1, <1>2, <2>1, <2>2, Unpacked DEF Purposes
<1>4. CASE PressLock
  BY <1>1, <1>4, ClickShows, Unpacked DEF PressLock, Pages
<1>5. CASE ClockFires
  <2>1. PICK p : p = [page EXCEPT !.clock = "off", !.over = TRUE, !.enabled = TRUE]
    OBVIOUS
  <2>2. p \in Pages /\ p.q = page.q
    BY <2>1, Unpacked DEF Pages
  <2>3. CASE Click(p, TRUE)
    BY <1>1, <2>2, <2>3, ClickShows
  <2>4. CASE page' = [page EXCEPT !.clock = "off", !.over = TRUE] /\ net' = [net EXCEPT !["timer"] = PhaseOf] /\ owed' = owed
    <3>1. page' \in Pages /\ page'.q = page.q
      BY <2>4, Unpacked DEF Pages
    <3> QED
      BY <1>1, <1>2, <2>4, <3>1, Unpacked DEF Purposes
  <2>5. CASE page' = [page EXCEPT !.clock = "ticking", !.over = FALSE, !.enabled = TRUE] /\ UNCHANGED <<net, owed>>
    <3>1. page' \in Pages /\ page'.q = page.q
      BY <2>5, Unpacked DEF Pages
    <3> QED
      BY <1>1, <2>5, <3>1, Unpacked DEF NetTyped
  <2> QED
    BY <1>5, <2>1, <2>3, <2>4, <2>5 DEF ClockFires
<1> QED
  BY <1>3, <1>4, <1>5

LEMMA LeavingShows ==
  ASSUME ShownInv, ExamClockEnds \/ Submitted \/ TryAgain \/ Reload \/ WindowCloses
  PROVE  ShownInv'
<1>0. "submit" \in Purposes /\ "lock" \in Purposes /\ "enter" \in Purposes /\ View("sent").q = 0
      /\ View("handover").q = 0 /\ View("entering").q = 0
  BY DEF Purposes, View
<1>1. Typed(Request("submit", 0, Nothing))
  BY RequestType, ViewType
<1>2. CASE ExamClockEnds
  <2>1. page' = View("sent") /\ draft' = FreshDraft(Blank) /\ net' = [x \in Purposes |-> NoRequest]
        /\ UNCHANGED <<paper, used, seen, owed>>
    BY <1>2 DEF ExamClockEnds, Leave
  <2>2. draft' \in Drafts /\ ~draft'.timer /\ page' \in Pages
    BY <2>1, ViewType DEF FreshDraft
  <2> QED
    BY <1>0, <2>1, <2>2, NetClears, RequestType, Unpacked, ShowsOn
<1>3. CASE Reload
  <2>1. page' = View("entering") /\ draft' = FreshDraft(Blank)
        /\ net' = [[x \in Purposes |-> NoRequest] EXCEPT !["enter"] = Fetch]
        /\ UNCHANGED <<paper, seen, owed>>
    BY <1>3 DEF Reload, Leave
  <2>2. draft' \in Drafts /\ ~draft'.timer /\ page' \in Pages
    BY <2>1, ViewType DEF FreshDraft
  <2>3. used' \in [clips: Nat, faults: Nat, mute: BOOLEAN]
    <3>1. used.faults + 1 \in Nat
      BY Unpacked
    <3> QED
      BY <1>3, <3>1, Unpacked DEF Reload
  <2>4. NetTyped' /\ net'["lock"] = NoRequest
    BY <1>0, <2>1, RequestType, NetRestarts DEF Purposes
  <2> QED
    BY <1>0, <2>1, <2>2, <2>3, <2>4, RequestType, Unpacked, ShowsOn
<1>4. CASE Submitted \/ TryAgain
  <2>1. PICK r : net' = [net EXCEPT !["submit"] = r] /\ (r = NoRequest \/ r = Request("submit", 0, Nothing))
    BY <1>4 DEF Submitted, TryAgain
  <2>2. NetTyped' /\ net'["lock"] = net["lock"]
    BY <1>0, <1>1, <2>1, RequestType, NetChanges, Unpacked
  <2>3. page' \in Pages /\ page'.q = 0 /\ UNCHANGED <<paper, draft, used, seen, owed>>
    BY <1>0, <1>4, ViewType DEF Submitted, TryAgain
  <2> QED
    BY <2>2, <2>3, Unpacked, ShowsOn DEF Idle
<1>5. CASE WindowCloses
  <2>1. UNCHANGED <<page, draft, net, used, seen, owed>>
    BY <1>5 DEF WindowCloses
  <2>2. paper' \in Papers /\ paper'.index = paper.index
    <3>1. CASE paper' = [paper EXCEPT !.late = TRUE]
      BY <3>1, Unpacked DEF Papers
    <3>2. CASE paper' = [paper EXCEPT !.status = "submitted"]
      BY <3>2, Unpacked DEF Papers
    <3> QED
      BY <1>5, <3>1, <3>2 DEF WindowCloses
  <2> QED
    BY <2>1, <2>2, Unpacked, ShowsOn DEF NetTyped, Idle
<1> QED
  BY <1>2, <1>3, <1>4, <1>5

LEMMA FailingShows ==
  ASSUME ShownInv, NEW s \in Purposes, RequestFails(s)
  PROVE  ShownInv'
<1>1. page' \in Pages /\ page'.q \in {page.q, 0}
  <2>0. View("problem").q = 0 /\ View("problem") \in Pages
    BY ViewType DEF View
  <2>1. \/ page' = Rearmed(page) \/ page' = [page EXCEPT !.lock = "no", !.enabled = TRUE]
        \/ page' = [page EXCEPT !.enabled = TRUE] \/ page' = [page EXCEPT !.clock = "repaint"]
        \/ page' = View("problem") \/ page' = page
    BY DEF RequestFails
  <2>2. CASE page' = Rearmed(page)
    BY <2>2, Unpacked DEF Pages, Rearmed
  <2>3. CASE page' = [page EXCEPT !.lock = "no", !.enabled = TRUE]
    BY <2>3, Unpacked DEF Pages
  <2>4. CASE page' = [page EXCEPT !.enabled = TRUE]
    BY <2>4, Unpacked DEF Pages
  <2>5. CASE page' = [page EXCEPT !.clock = "repaint"]
    BY <2>5, Unpacked DEF Pages
  <2> QED
    BY <2>0, <2>1, <2>2, <2>3, <2>4, <2>5, Unpacked
<1>2. used' \in [clips: Nat, faults: Nat, mute: BOOLEAN]
  <2>1. used.faults + 1 \in Nat
    BY Unpacked
  <2> QED
    BY <2>1, Unpacked DEF RequestFails
<1>3. NetTyped' /\ (net'["lock"] = net["lock"] \/ net'["lock"] \in {NoRequest, Fetch})
  <2>1. PICK r \in {NoRequest, Fetch} : net' = [net EXCEPT ![s] = r]
    BY DEF RequestFails
  <2> QED
    BY <2>1, RequestType, NetChanges, Unpacked DEF Purposes
<1>4. draft' \in Drafts /\ (draft'.timer => draft'.latest # << >>)
  BY FlushedType, Unpacked DEF RequestFails
<1>5. UNCHANGED <<paper, seen, owed>>
  BY DEF RequestFails
<1>6. Fetch.q = 0
  BY DEF Fetch, Request
<1>7. CASE net'["lock"] \in {net["lock"], NoRequest}
  BY <1>1, <1>2, <1>3, <1>4, <1>5, <1>7, Unpacked, RequestType, ShowsOn DEF Idle
<1>8. CASE net'["lock"] = Fetch
  BY <1>1, <1>2, <1>3, <1>4, <1>5, <1>6, <1>8, Unpacked DEF ShownInv, PageTypes, NeverSkipped, Shown, Idle
<1> QED
  BY <1>3, <1>7, <1>8

LEMMA ShownStarts == ExamPageInit => ShownInv
<1> SUFFICES ASSUME ExamPageInit PROVE ShownInv
  OBVIOUS
<1>1. paper \in Papers /\ paper.index = 1
  <2>1. FirstPhase(1) \in Phases /\ Blank \in PageRows
    BY ViewType
  <2> QED
    BY <2>1 DEF ExamPageInit, Papers
<1>2. page \in Pages /\ page.q = 0 /\ draft \in Drafts /\ ~draft.timer
  BY ViewType DEF ExamPageInit, View, FreshDraft
<1>3. NetTyped /\ net["lock"] = NoRequest
  <2>1. "enter" \in Purposes /\ "lock" \in Purposes /\ "enter" # "lock"
    BY DEF Purposes
  <2> QED
    BY <2>1, RequestType DEF ExamPageInit, NetTyped
<1>4. \A q \in Items : ~(q < 1)
  BY PaperItems
<1> QED
  BY <1>1, <1>2, <1>3, <1>4, RequestType DEF ExamPageInit, ShownInv, PageTypes, NeverSkipped, Shown, Idle

LEMMA ShownStays == ShownInv /\ [ExamPageNext]_examPageVars => ShownInv'
<1> SUFFICES ASSUME ShownInv, [ExamPageNext]_examPageVars PROVE ShownInv'
  OBVIOUS
<1>1. CASE UNCHANGED examPageVars
  BY <1>1 DEF examPageVars, ShownInv, PageTypes, NetTyped, NeverSkipped, Shown, Idle
<1>2. ASSUME NEW s \in Purposes, Serve(s) \/ Handle(s) \/ RequestFails(s) PROVE ShownInv'
  <2>1. CASE Handle(s)
    <3>1. CASE Submitted
      BY <3>1, LeavingShows
    <3>2. CASE DraftBack \/ DraftRefused
      BY <3>2, AnswersShow
    <3>3. CASE Enter \/ LockBack \/ FetchBack(s) \/ PhaseBack(s)
      BY <3>3, PaintsShow
    <3> QED
      BY <2>1, <3>1, <3>2, <3>3 DEF Handle
  <2> QED
    BY <1>2, <2>1, ServesShow, FailingShows
<1>3. CASE Tick \/ Press \/ TryAgain \/ Flush
  BY <1>3, StopsShow, ClocksShow, AnswersShow, LeavingShows DEF Tick, Press
<1>4. CASE Edit \/ Record \/ PressStop \/ WindowCloses \/ ExamClockEnds \/ StopFails \/ Reload
  BY <1>4, StopsShow, AnswersShow, LeavingShows
<1> QED
  BY <1>1, <1>2, <1>3, <1>4 DEF ExamPageNext

\* Whatever requests and replies are lost, and however often the page is reloaded, the
\* paper never moves past a question the candidate has not been shown: a lock carries
\* the question of the page that sent it, and only the live question is locked
\* (candidate.mjs:655-661).
THEOREM NothingSkipped == ExamPageSpec => []NeverSkipped
<1>1. ShownInv => NeverSkipped
  BY DEF ShownInv
<1> QED
  BY <1>1, ShownStarts, ShownStays, PTL DEF ExamPageSpec

----------------------------------------------------------------------------
(* The exam page: a locked answer keeps the candidate's work *)

Unsettled == paper.status = "open"
OnLive == InHall /\ page.q = paper.index
Painters == {"enter", "lock", "load", "press", "timer"}
Screened(s) == ~Idle(s) /\ net[s].reply = "screen"
\* The draft under way is one of the question on screen.
Saving == ~Idle("draft") /\ net["draft"].q = page.q
\* The server would drop the recording on screen if it took this answer.
Drops(v) == ~v.keep /\ v.clip # page.clip

\* Each purpose has its kind of request.
Purposeful ==
  /\ net["enter"].kind \in {"none", "get"} /\ net["load"].kind \in {"none", "get"}
  /\ net["draft"].kind \in {"none", "draft"} /\ net["lock"].kind \in {"none", "next"}
  /\ net["submit"].kind \in {"none", "submit"}
  /\ net["press"].kind \in {"none", "phase", "get"} /\ net["timer"].kind \in {"none", "phase", "get"}

\* What may be under way depends on what the page shows.
Placed ==
  /\ ~Idle("enter") => page.at = "entering"
  /\ ~Idle("submit") => page.at = "handover"
  /\ ~Idle("draft") => InHall
  /\ ~Idle("lock") => Answering /\ page.lock = "sent"
  /\ ~Idle("load") => Answering /\ page.lock \in {"checking", "loading"}
  /\ ~Idle("press") => InHall /\ page.phase = "review" /\ Idle("timer")
  /\ ~Idle("timer") => InHall /\ page.phase = "review"
  /\ page.stop # "no" => InHall /\ page.lock \in {"no", "stopping"}
  /\ InHall /\ page.phase = "review" =>
       draft.latest = << >> /\ ~draft.timer /\ page.lock = "no" /\ page.stop = "no"
  /\ page.rec # "off" => page.clip = 0 /\ ~page.kept

\* The page is never ahead of the paper, nor a draft of the page.
Ordered ==
  /\ owed.q <= paper.index
  /\ InHall => page.q <= paper.index
  /\ ~Idle("draft") => net["draft"].q <= page.q
  /\ ~Idle("draft") /\ page.phase = "review" => net["draft"].q < page.q
  /\ ~Idle("lock") => net["lock"].q = page.q /\ net["lock"].reply # "refused"
  /\ page.lock # "checking"
  /\ page.lock = "loading" \/ (~Idle("lock") /\ net["lock"].reply \in {"screen", "duplicate"}) =>
       page.q < paper.index

\* A screen on its way to the page is still what the paper is.
Fresh ==
  \A s \in Painters : Screened(s) =>
    net[s].screen.index = paper.index /\ net[s].screen.row = paper.row /\ net[s].screen.status = "open"

\* No step takes the live answer back to an older edit.
Notes ==
  /\ owed.q = paper.index => owed.note <= paper.row.note
  /\ OnLive =>
       /\ draft.acked.note <= paper.row.note /\ paper.row.note <= page.note
       /\ draft.latest # << >> => paper.row.note <= draft.latest[1].note /\ draft.latest[1].note <= page.note
       /\ Saving =>
            /\ draft.latest # << >> /\ net["draft"].v.note <= draft.latest[1].note
            /\ net["draft"].reply = "none" => paper.row.note <= net["draft"].v.note
            /\ net["draft"].reply = "accepted" => net["draft"].v.note <= paper.row.note
       /\ ~Idle("lock") /\ net["lock"].reply = "none" => owed.q = page.q /\ owed.note <= net["lock"].v.note

\* Recordings are numbered as they are made, and "keep" carries none.
Numbered ==
  /\ page.clip <= used.clips /\ draft.saved <= used.clips
  /\ page.kept => page.clip = 0
  /\ draft.latest # << >> =>
       draft.latest[1].clip <= used.clips /\ (draft.latest[1].keep => draft.latest[1].clip = 0)
  /\ ~Idle("draft") =>
       /\ net["draft"].v.clip <= used.clips /\ (net["draft"].v.keep => net["draft"].v.clip = 0)
       /\ net["draft"].q # page.q /\ page.clip # 0 => net["draft"].v.clip # page.clip

\* While a recording counts as kept, the server has it and no draft would drop it; a
\* lock under way carries the recording, or rests on the one that is kept.
Clips ==
  OnLive =>
    /\ page.kept =>
         /\ paper.row.clip = draft.acked.clip
         /\ draft.latest # << >> => draft.latest[1].keep
         /\ Saving => net["draft"].v.keep
    /\ page.clip # 0 /\ draft.saved = page.clip =>
         /\ paper.row.clip = page.clip
         /\ ~Idle("draft") => net["draft"].q = page.q /\ ~Drops(net["draft"].v)
    /\ page.clip # 0 /\ (draft.saved = page.clip \/ (~Idle("draft") /\ net["draft"].v.clip = page.clip)) =>
         draft.latest # << >> /\ ~Drops(draft.latest[1])
    /\ Saving /\ page.clip # 0 /\ net["draft"].v.clip = page.clip /\ net["draft"].reply = "accepted" =>
         paper.row.clip = page.clip
    /\ ~Idle("lock") /\ net["lock"].reply = "none" =>
         IF net["lock"].v.keep
         THEN ClipKept(page) /\ IF page.clip # 0 THEN page.clip \in owed.held ELSE draft.acked.clip \in owed.held
         ELSE net["lock"].v.clip \in owed.held

WorkInv ==
  /\ lost = {} /\ Purposeful /\ Placed
  /\ Unsettled => Ordered /\ Fresh /\ Notes /\ Numbered /\ Clips

LEMMA Counts ==
  ASSUME ShownInv
  PROVE  /\ page.q \in Nat /\ page.note \in Nat /\ page.clip \in Nat /\ page.phase \in Phases
         /\ paper.index \in Nat /\ paper.row \in PageRows /\ paper.row.note \in Nat /\ paper.row.clip \in Nat
         /\ draft.saved \in Nat /\ draft.acked.note \in Nat /\ draft.acked.clip \in Nat
         /\ draft.latest # << >> =>
              draft.latest[1] \in Values /\ draft.latest[1].note \in Nat /\ draft.latest[1].clip \in Nat
         /\ owed.q \in Nat /\ owed.note \in Nat /\ used.clips \in Nat
<1>1. paper.row \in PageRows /\ draft.acked \in PageRows /\ page \in Pages
  BY Unpacked DEF Papers
<1>2. draft.latest # << >> => draft.latest[1] \in Values
  BY Unpacked
<1> QED
  BY <1>1, <1>2, Unpacked DEF PageRows, Values, Pages, Drafts

\* What is known of a request by its kind.
LEMMA KindType ==
  ASSUME ShownInv, NEW s \in Purposes
  PROVE  /\ net[s].kind = "draft" => net[s] \in Sendings /\ net[s].v \in Values
                                     /\ net[s].v.note \in Nat /\ net[s].v.clip \in Nat /\ net[s].q \in Nat
         /\ net[s].kind = "next" /\ net[s].reply = "none" =>
              net[s] \in Sendings /\ net[s].v \in Values /\ net[s].v.note \in Nat /\ net[s].v.clip \in Nat
         /\ net[s].kind = "submit" => net[s] \in Sendings
         /\ net[s].kind = "next" => net[s].reply \in {"none", "screen", "complete", "duplicate", "refused"}
         /\ net[s] \in Screenings <=> ~Idle(s) /\ net[s].reply = "screen"
         /\ net[s] \in Sendings \cup Screenings => net[s].q \in Nat
  BY Unpacked DEF NetTyped, Typed, Sendings, Screenings, Values, NoRequest, Idle

LEMMA RequestFields ==
  /\ \A q, v, kind : /\ Request(kind, q, v).kind = kind /\ Request(kind, q, v).q = q
                     /\ Request(kind, q, v).v = v /\ Request(kind, q, v).reply = "none"
  /\ Fetch.kind = "get" /\ Fetch.reply = "none" /\ NoRequest.kind = "none"
  BY DEF Request, Fetch, NoRequest

LEMMA ViewFields ==
  \A at : /\ View(at).at = at /\ View(at).q = 0 /\ View(at).phase = "answer" /\ View(at).clip = 0
          /\ View(at).kept = FALSE /\ View(at).rec = "off" /\ View(at).stop = "no" /\ View(at).lock = "no"
  BY DEF View

LEMMA FreshFields ==
  \A x : /\ FreshDraft(x).latest = << >> /\ FreshDraft(x).saved = 0
         /\ FreshDraft(x).timer = FALSE /\ FreshDraft(x).acked = x
  BY DEF FreshDraft

\* The page is taken off the hall, with nothing under way but what its new view needs.
LEMMA WorkAway ==
  ASSUME ShownInv, WorkInv, NEW at \in {"entering", "handover", "sent", "problem"},
         page' = View(at), draft' = FreshDraft(Blank) \/ draft' = draft,
         \A x \in Purposes \ {"enter", "submit"} : net'[x].kind = "none",
         net'["enter"].kind = "none" \/ (at = "entering" /\ net'["enter"] = Fetch),
         net'["submit"].kind = "none" \/ (at = "handover" /\ net'["submit"].kind = "submit"),
         UNCHANGED <<paper, owed, lost>>, used'.clips = used.clips
  PROVE  WorkInv'
<1>1. /\ page'.at = at /\ page'.q = 0 /\ page'.phase = "answer" /\ page'.clip = 0 /\ ~page'.kept
      /\ page'.rec = "off" /\ page'.stop = "no" /\ page'.lock = "no" /\ at # "hall"
  BY ViewFields
<1>2. \A x \in Purposes \ {"enter", "submit"} : Idle(x)'
  BY DEF Idle
<1>3. {"enter", "submit", "draft", "lock", "load", "press", "timer"} = Purposes
  BY DEF Purposes
<1>4. Purposeful'
  BY <1>3, RequestFields DEF Purposeful
<1>5. Placed'
  BY <1>1, <1>2, <1>3 DEF Placed, Idle, InHall
<1>6. ~InHall' /\ ~OnLive'
  BY <1>1 DEF InHall, OnLive
<1>7. ASSUME Unsettled' PROVE Ordered' /\ Fresh' /\ Notes' /\ Numbered' /\ Clips'
  <2>1. Unsettled /\ Ordered /\ Notes /\ Numbered
    BY <1>7 DEF Unsettled, WorkInv
  <2>2. Ordered'
    BY <1>1, <1>2, <1>3, <1>6, <2>1 DEF Ordered
  <2>3. Fresh'
    BY <1>2, <1>3, RequestFields DEF Fresh, Painters, Screened, Idle
  <2>4. Notes' /\ Clips'
    BY <1>6, <2>1 DEF Notes, Clips
  <2>5. Numbered'
    BY <1>1, <1>2, <1>3, <2>1, FreshFields, Counts DEF Numbered
  <2> QED
    BY <2>2, <2>3, <2>4, <2>5
<1> QED
  BY <1>4, <1>5, <1>7 DEF WorkInv

LEMMA LeavingWorks ==
  ASSUME ShownInv, WorkInv, ExamClockEnds \/ Submitted \/ TryAgain \/ Reload
  PROVE  WorkInv'
<1>0. {"enter", "submit", "draft", "lock", "load", "press", "timer"} = Purposes
  BY DEF Purposes
<1>1. CASE ExamClockEnds
  <2>1. /\ page' = View("sent") /\ draft' = FreshDraft(Blank) /\ \A x \in Purposes : net'[x] = NoRequest
        /\ UNCHANGED <<paper, used, owed, lost>>
    BY <1>1 DEF ExamClockEnds, Leave
  <2> QED
    BY <1>0, <2>1, RequestFields, WorkAway
<1>2. CASE Reload
  <2>1. /\ page' = View("entering") /\ draft' = FreshDraft(Blank) /\ net'["enter"] = Fetch
        /\ \A x \in Purposes \ {"enter"} : net'[x] = NoRequest
        /\ UNCHANGED <<paper, owed, lost>> /\ used'.clips = used.clips
    BY <1>0, <1>2, Unpacked DEF Reload, Leave
  <2> QED
    BY <1>0, <2>1, RequestFields, WorkAway
<1>3. CASE Submitted
  <2>1. page.at = "handover" /\ page' = View("sent") /\ net' = [net EXCEPT !["submit"] = NoRequest]
    BY <1>3 DEF Submitted, Back, WorkInv, Placed, Idle
  <2>2. net'["submit"] = NoRequest /\ \A x \in Purposes \ {"submit"} : net'[x] = net[x]
    BY <1>0, <2>1, NetChanges, RequestType, Unpacked
  <2>3. \A x \in Purposes \ {"submit"} : net[x].kind = "none"
    BY <1>0, <2>1 DEF WorkInv, Placed, Idle, InHall, Answering
  <2> QED
    BY <1>0, <1>3, <2>1, <2>2, <2>3, RequestFields, WorkAway DEF Submitted
<1>4. CASE TryAgain
  <2>1. page.at = "problem" /\ page' = View("handover") /\ net' = [net EXCEPT !["submit"] = Request("submit", 0, Nothing)]
    BY <1>4 DEF TryAgain
  <2>2. net'["submit"].kind = "submit" /\ \A x \in Purposes \ {"submit"} : net'[x] = net[x]
    <3>1. PICK r : r = Request("submit", 0, Nothing) /\ Typed(r) /\ r.kind = "submit"
      BY RequestType, ViewType, RequestFields
    <3>2. net' = [net EXCEPT !["submit"] = r] /\ "submit" \in Purposes
      BY <1>0, <2>1, <3>1
    <3> QED
      BY <3>1, <3>2, NetChanges, Unpacked
  <2>3. \A x \in Purposes \ {"submit"} : net[x].kind = "none"
    BY <1>0, <2>1 DEF WorkInv, Placed, Idle, InHall, Answering
  <2> QED
    BY <1>0, <1>4, <2>1, <2>2, <2>3, RequestFields, WorkAway DEF TryAgain
<1> QED
  BY <1>1, <1>2, <1>3, <1>4

\* A screen is painted over a page that asked for it, and nothing else is under way but
\* a draft of a question before it.
LEMMA WorkHall ==
  ASSUME ShownInv, ShownInv', WorkInv, NEW s \in Painters, NEW screen, PaintsHall(s, screen),
         \A x \in Painters \ {s} : Idle(x), Idle("submit"),
         Unsettled => /\ screen.index = paper.index /\ screen.row = paper.row
                      /\ ~Idle("draft") => net["draft"].q < screen.index,
         UNCHANGED <<paper, owed, lost>>, used' = used
  PROVE  WorkInv'
<1>0. {"enter", "submit", "draft", "lock", "load", "press", "timer"} = Purposes
      /\ Painters = {"enter", "lock", "load", "press", "timer"}
  BY DEF Purposes, Painters
<1>1. /\ page'.at = "hall" /\ page'.q = screen.index /\ page'.note = screen.row.note /\ page'.clip = 0
      /\ (page'.kept <=> screen.row.clip # 0) /\ page'.rec = "off" /\ page'.stop = "no" /\ page'.lock = "no"
      /\ draft'.latest = << >> /\ draft'.saved = 0 /\ ~draft'.timer /\ draft'.acked = screen.row
  BY FreshFields DEF PaintsHall
<1>2. \A x \in Painters : net'[x].kind = "none"
  BY <1>0, RequestFields DEF PaintsHall, Idle
<1>3. net'["draft"] = net["draft"] /\ net'["submit"] = net["submit"]
  BY <1>0 DEF PaintsHall
<1>4. Purposeful'
  BY <1>0, <1>2, <1>3 DEF Purposeful, WorkInv
<1>5. Placed'
  BY <1>0, <1>1, <1>2, <1>3 DEF Placed, Idle, InHall, Answering
<1>6. ASSUME Unsettled' PROVE Ordered' /\ Fresh' /\ Notes' /\ Numbered' /\ Clips'
  <2>1. Unsettled /\ Ordered /\ Notes /\ Numbered
    BY <1>6 DEF Unsettled, WorkInv
  <2>2. /\ page'.q = paper.index /\ draft'.acked = paper.row /\ page'.note = paper.row.note
        /\ page'.kept => paper.row.clip # 0
    BY <1>1, <2>1
  <2>3. ~Idle("draft")' => net'["draft"].q < page'.q /\ net'["draft"].q \in Nat
    <3>1. ~Idle("draft") => net["draft"].q \in Nat
      BY <1>0, KindType DEF WorkInv, Purposeful, Idle
    <3> QED
      BY <1>1, <1>3, <2>1, <3>1 DEF Idle
  <2>4. Idle("lock")' /\ ~Saving'
    BY <1>0, <1>2, <2>2, <2>3, Counts DEF Saving, Idle
  <2>5. Ordered'
    BY <1>1, <2>1, <2>2, <2>3, <2>4, Counts DEF Ordered
  <2>6. Fresh'
    BY <1>2 DEF Fresh, Screened, Idle
  <2>7. Notes'
    BY <1>1, <2>1, <2>2, <2>4, Counts DEF Notes
  <2>8. Numbered'
    BY <1>1, <1>3, <2>1, Counts DEF Numbered, Idle
  <2>9. Clips'
    BY <1>1, <2>2, <2>4 DEF Clips
  <2> QED
    BY <2>5, <2>6, <2>7, <2>8, <2>9
<1> QED
  BY <1>4, <1>5, <1>6 DEF WorkInv

\* Whatever paints, in the place it was asked for.
LEMMA PaintWorks ==
  ASSUME ShownInv, ShownInv', WorkInv, NEW s \in Painters, NEW screen, Paint(s, screen),
         screen.status \in {"open", "submitted"},
         screen.status = "open" /\ screen.index \in Items => screen \in Screens,
         \A x \in Painters \ {s} : Idle(x), Idle("submit"),
         Unsettled => \/ screen.index \notin Items
                      \/ /\ screen.index = paper.index /\ screen.row = paper.row
                         /\ ~Idle("draft") => net["draft"].q < screen.index,
         UNCHANGED <<paper, used, owed, lost>>
  PROVE  WorkInv'
<1>0. s \in Purposes /\ "submit" \in Purposes
  BY DEF Purposes, Painters
<1>1. CASE PaintsHall(s, screen)
  <2>1. screen.index \in Items
    BY <1>1 DEF PaintsHall
  <2> QED
    BY <1>1, <2>1, WorkHall
<1>2. CASE screen.status = "submitted"
  <2>1. page' = View("sent") /\ draft' = FreshDraft(Blank) /\ net' = [x \in Purposes |-> NoRequest]
    BY <1>2 DEF Paint, Leave
  <2> QED
    BY <2>1, RequestFields, WorkAway, NetClears DEF Purposes
<1>3. CASE screen.status = "open" /\ screen.index \notin Items
  <2>1. PICK r : r = Request("submit", 0, Nothing) /\ Typed(r) /\ r.kind = "submit"
    BY RequestType, ViewType, RequestFields
  <2>2. /\ page' = View("handover") /\ draft' = FreshDraft(Blank)
        /\ net' = [[x \in Purposes |-> NoRequest] EXCEPT !["submit"] = r]
    BY <1>3, <2>1 DEF Paint, Leave
  <2>3. net'["submit"] = r /\ \A x \in Purposes \ {"submit"} : net'[x] = NoRequest
    BY <1>0, <2>1, <2>2, NetRestarts
  <2> QED
    BY <2>1, <2>2, <2>3, RequestFields, WorkAway DEF Purposes
<1>4. NetTyped
  BY Unpacked
<1>5. CASE screen.status = "open" /\ screen.index \in Items
  <2>1. \/ \E view \in {"sent", "handover"} : PaintsAway(view)
        \/ PaintsHall(s, screen)
    BY <1>0, <1>4, PaintEffect
  <2>2. page' # View("sent") /\ page' # View("handover")
    <3>1. page'.at = "hall"
      BY <1>5 DEF Paint, View
    <3> QED
      BY <3>1, ViewFields
  <2> QED
    BY <1>1, <2>1, <2>2 DEF PaintsAway
<1> QED
  BY <1>2, <1>3, <1>5

\* A request of a purpose that paints is alone among those.
LEMMA PaintersAlone ==
  ASSUME ShownInv, WorkInv, NEW s \in Painters, ~Idle(s)
  PROVE  (\A x \in Painters \ {s} : Idle(x)) /\ Idle("submit")
  BY DEF WorkInv, Placed, InHall, Answering, Painters

LEMMA PaintingWorks ==
  ASSUME ShownInv, ShownInv', WorkInv, Enter \/ LockBack \/ FetchBack("press") \/ FetchBack("timer")
           \/ FetchBack("load") \/ PhaseBack("press") \/ PhaseBack("timer")
  PROVE  WorkInv'
<1>0. {"enter", "submit", "draft", "lock", "load", "press", "timer"} = Purposes
      /\ Painters = {"enter", "lock", "load", "press", "timer"}
  BY DEF Purposes, Painters
<1>1. ASSUME NEW s \in Painters, ~Idle(s), net[s].reply = "screen", Paint(s, net[s].screen),
             UNCHANGED <<paper, used, owed, lost>>
      PROVE  WorkInv'
  <2>1. net[s].screen \in Screens /\ net[s].screen.status \in {"open", "submitted"}
    BY <1>0, <1>1, ScreenType, Unpacked
  <2>2. (\A x \in Painters \ {s} : Idle(x)) /\ Idle("submit")
    BY <1>1, PaintersAlone
  <2>3. ASSUME Unsettled
        PROVE  /\ net[s].screen.index = paper.index /\ net[s].screen.row = paper.row
               /\ ~Idle("draft") => net["draft"].q < net[s].screen.index
    <3>1. Ordered /\ Placed /\ net[s].screen.index = paper.index /\ net[s].screen.row = paper.row
      BY <1>1, <2>3 DEF WorkInv, Fresh, Screened
    <3>2. ASSUME ~Idle("draft") PROVE net["draft"].q < paper.index
      <4>1. InHall /\ net["draft"].q <= page.q /\ page.q <= paper.index /\ net["draft"].q \in Nat
        BY <1>0, <3>1, <3>2, KindType DEF Ordered, Placed, WorkInv, Purposeful, Idle
      <4>2. CASE s = "enter"
        BY <1>1, <3>1, <4>1, <4>2 DEF Placed, InHall
      <4>3. CASE s = "lock"
        BY <1>1, <3>1, <4>1, <4>3, Counts DEF Ordered
      <4>4. CASE s = "load"
        BY <1>1, <3>1, <4>1, <4>4, Counts DEF Ordered, Placed
      <4>5. CASE s \in {"press", "timer"}
        BY <1>1, <3>1, <3>2, <4>1, <4>5, Counts DEF Ordered, Placed
      <4> QED
        BY <1>0, <4>2, <4>3, <4>4, <4>5
    <3> QED
      BY <3>1, <3>2
  <2> QED
    BY <1>1, <2>1, <2>2, <2>3, PaintWorks
<1>2. CASE Enter
  <2>1. net["enter"].reply = "screen" /\ ~Idle("enter")
    BY <1>0, <1>2, ScreenType, KindType, Unpacked DEF Enter, Back, Idle
  <2> QED
    BY <1>0, <1>1, <1>2, <2>1 DEF Enter
<1>3. ASSUME NEW s \in {"press", "timer", "load"}, FetchBack(s) PROVE WorkInv'
  <2>1. net[s].reply = "screen" /\ ~Idle(s)
    BY <1>0, <1>3, ScreenType, KindType, Unpacked DEF FetchBack, Back, Idle
  <2> QED
    BY <1>0, <1>1, <1>3, <2>1 DEF FetchBack
<1>4. ASSUME NEW s \in {"press", "timer"}, PhaseBack(s) PROVE WorkInv'
  <2>1. CASE net[s].reply = "screen"
    <3>1. ~Idle(s) /\ Paint(s, net[s].screen) /\ UNCHANGED <<paper, used, owed, lost>>
      BY <1>4, <2>1 DEF PhaseBack, Back, Idle
    <3> QED
      BY <1>0, <1>1, <2>1, <3>1
  <2>2. CASE net[s].reply # "screen"
    <3>1. net' = [net EXCEPT ![s] = Fetch] /\ UNCHANGED <<paper, page, draft, used, seen, owed, lost>> /\ ~Idle(s)
      BY <1>4, <2>2 DEF PhaseBack, Back, Idle
    <3>2. net'[s] = Fetch /\ \A t \in Purposes \ {s} : net'[t] = net[t]
      <4>1. PICK f : f = Fetch /\ Typed(f)
        BY RequestType
      <4>2. s \in Purposes /\ NetTyped
        BY <1>0, <1>4, Unpacked
      <4> QED
        BY <3>1, <4>1, <4>2, NetChanges
    <3>3. \A t \in Purposes : (net'[t].kind = "none") <=> (net[t].kind = "none")
      BY <3>1, <3>2, RequestFields DEF Idle
    <3>4. net'["draft"] = net["draft"] /\ net'["lock"] = net["lock"]
      BY <1>0, <3>2
    <3>5. Purposeful' /\ Placed'
      BY <1>0, <3>1, <3>2, <3>3, RequestFields DEF Purposeful, Placed, WorkInv, Idle, InHall, Answering
    <3>6. Unsettled' => Ordered' /\ Fresh' /\ Notes' /\ Numbered' /\ Clips'
      <4>1. Unsettled' = Unsettled
        BY <3>1 DEF Unsettled
      <4>2. Unsettled => Ordered' /\ Notes' /\ Numbered' /\ Clips'
        BY <3>1, <3>4 DEF WorkInv, Ordered, Notes, Numbered, Clips, InHall, OnLive, Saving, Drops, Idle, ClipKept
      <4>3. Unsettled => Fresh'
        BY <1>0, <3>1, <3>2, RequestFields DEF WorkInv, Fresh, Screened, Idle
      <4> QED
        BY <4>1, <4>2, <4>3
    <3> QED
      BY <3>1, <3>5, <3>6 DEF WorkInv
  <2> QED
    BY <2>1, <2>2
<1>5. CASE LockBack
  <2>0. ~Idle("lock") /\ Placed /\ page.lock = "sent" /\ Answering
    BY <1>5 DEF LockBack, Back, Idle, WorkInv, Placed
  <2>1. CASE net["lock"].reply = "screen"
    BY <1>0, <1>1, <1>5, <2>0, <2>1 DEF LockBack
  <2>2. CASE net["lock"].reply = "complete"
    <3>1. PICK screen : screen = [index |-> Len(Kinds) + 1, status |-> "open"]
      OBVIOUS
    <3>2. Paint("lock", screen) /\ UNCHANGED <<paper, used, owed, lost>>
      BY <1>5, <2>2, <3>1 DEF LockBack
    <3>3. screen.status = "open" /\ screen.index \notin Items
      BY <3>1, PaperItems
    <3>4. (\A x \in Painters \ {"lock"} : Idle(x)) /\ Idle("submit")
      BY <1>0, <2>0, PaintersAlone
    <3> QED
      BY <1>0, <3>2, <3>3, <3>4, PaintWorks
  <2>3. CASE net["lock"].reply \in {"duplicate", "refused"}
    <3>1. PICK l \in {"checking", "loading"} :
            page' = [page EXCEPT !.lock = l] /\ (l = "checking" => net["lock"].reply = "refused")
      BY <1>5, <2>3 DEF LockBack
    <3>2. net' = [net EXCEPT !["lock"] = NoRequest, !["load"] = Fetch] /\ UNCHANGED <<paper, draft, used, owed, lost>>
      BY <1>5, <2>3 DEF LockBack
    <3>3. /\ page'.lock = l /\ page'.at = page.at /\ page'.q = page.q /\ page'.phase = page.phase
          /\ page'.note = page.note /\ page'.clip = page.clip /\ page'.kept = page.kept
          /\ page'.rec = page.rec /\ page'.stop = page.stop
      BY <3>1, Unpacked DEF Pages
    <3>4. /\ net'["lock"] = NoRequest /\ net'["load"] = Fetch
          /\ \A x \in Purposes \ {"lock", "load"} : net'[x] = net[x]
      BY <1>0, <3>2, Unpacked DEF NetTyped
    <3>5. (\A x \in Painters \ {"lock"} : Idle(x)) /\ Idle("submit")
      BY <1>0, <2>0, PaintersAlone
    <3>6. Purposeful'
      BY <1>0, <3>4, RequestFields DEF Purposeful, WorkInv
    <3>7. Placed'
      <4>1. /\ net["enter"].kind = "none" /\ net["press"].kind = "none" /\ net["timer"].kind = "none"
            /\ net["submit"].kind = "none"
        BY <1>0, <3>5 DEF Idle
      <4>2. /\ net'["enter"].kind = "none" /\ net'["press"].kind = "none" /\ net'["timer"].kind = "none"
            /\ net'["submit"].kind = "none" /\ net'["lock"].kind = "none" /\ net'["draft"] = net["draft"]
        BY <1>0, <3>4, <4>1, RequestFields
      <4>3. page.at = "hall" /\ page.phase = "answer" /\ page.stop = "no"
        BY <2>0 DEF Placed, Answering, InHall
      <4>4. page'.lock \in {"checking", "loading"}
        BY <3>3
      <4>5. page'.rec # "off" => page'.clip = 0 /\ ~page'.kept
        BY <2>0, <3>3 DEF Placed
      <4> QED
        BY <3>3, <4>2, <4>3, <4>4, <4>5 DEF Placed, Idle, InHall, Answering
    <3>8. ASSUME Unsettled' PROVE Ordered' /\ Fresh' /\ Notes' /\ Numbered' /\ Clips'
      <4>1. Unsettled /\ Ordered /\ Notes /\ Numbered /\ Clips /\ net'["draft"] = net["draft"] /\ Idle("lock")'
        BY <1>0, <3>2, <3>4, <3>8, RequestFields DEF Unsettled, WorkInv, Idle
      <4>2. net["lock"].reply = "duplicate" /\ page.q < paper.index /\ page'.lock = "loading"
        BY <2>0, <2>3, <3>1, <3>3, <4>1 DEF Ordered
      <4>3. ~OnLive'
        BY <3>2, <3>3, <4>2, Counts DEF OnLive
      <4>4. Ordered'
        BY <2>0, <3>2, <3>3, <4>1, <4>2 DEF Ordered, Answering, InHall, Idle
      <4>5. Notes' /\ Clips'
        BY <3>2, <4>1, <4>3 DEF Notes, Clips
      <4>6. Fresh'
        BY <1>0, <3>4, <3>5, RequestFields DEF Fresh, Screened, Idle
      <4>7. Numbered'
        BY <3>2, <3>3, <4>1 DEF Numbered, Idle
      <4> QED
        BY <4>4, <4>5, <4>6, <4>7
    <3> QED
      BY <3>2, <3>6, <3>7, <3>8 DEF WorkInv
  <2>4. Back("lock", {"next"}) /\ "lock" \in Purposes
    BY <1>0, <1>5 DEF LockBack
  <2> QED
    BY <2>1, <2>2, <2>3, <2>4, ScreenType, Unpacked
<1> QED
  BY <1>2, <1>3, <1>4, <1>5

LEMMA ServedPlaces ==
  ASSUME WorkInv, UNCHANGED <<page, draft>>, \A t \in Purposes : net'[t].kind = net[t].kind
  PROVE  Purposeful' /\ Placed'
  BY DEF WorkInv, Purposeful, Placed, Idle, InHall, Answering, Purposes

\* The server has answered a request whose answer nobody on the page relies on.
LEMMA ServedWorks ==
  ASSUME WorkInv, UNCHANGED <<page, draft, used, owed, lost>>, NEW s \in Purposes,
         net'[s].kind = net[s].kind, \A t \in Purposes \ {s} : net'[t] = net[t], ~Idle(s),
         Unsettled' => /\ Unsettled /\ paper'.index = paper.index /\ paper'.row = paper.row
                       /\ s \notin {"draft", "lock"}
                       /\ net'[s].reply = "screen" =>
                            /\ net'[s].screen.index = paper.index /\ net'[s].screen.row = paper.row
                            /\ net'[s].screen.status = "open"
  PROVE  WorkInv'
<1>1. Purposeful' /\ Placed'
  BY ServedPlaces
<1>2. ASSUME Unsettled' PROVE Ordered' /\ Fresh' /\ Notes' /\ Numbered' /\ Clips'
  <2>1. /\ Unsettled /\ Ordered /\ Fresh /\ Notes /\ Numbered /\ Clips /\ paper'.index = paper.index
        /\ paper'.row = paper.row
    BY <1>2 DEF WorkInv
  <2>2. net'["draft"] = net["draft"] /\ net'["lock"] = net["lock"]
    BY <1>2 DEF Purposes
  <2>3. Ordered' /\ Notes' /\ Numbered' /\ Clips'
    BY <2>1, <2>2 DEF Ordered, Notes, Numbered, Clips, InHall, OnLive, Saving, Drops, Idle, ClipKept
  <2>4. Fresh'
    BY <1>2, <2>1 DEF Fresh, Screened, Idle, Painters, Purposes
  <2> QED
    BY <2>1, <2>3, <2>4
<1> QED
  BY <1>1, <1>2 DEF WorkInv

LEMMA ServingWorks ==
  ASSUME ShownInv, ShownInv', WorkInv, NEW s \in Purposes,
         ServeSubmit \/ ServePhase(s) \/ ServeFetch(s) \/ WindowCloses
  PROVE  WorkInv'
<1>0. "submit" \in Purposes /\ "lock" \in Purposes /\ "draft" \in Purposes
  BY DEF Purposes
<1>1. CASE ServeSubmit
  <2>1. Reply("submit", "done") /\ ~Idle("submit") /\ net["submit"].reply = "none" /\ net["submit"].kind = "submit"
    BY <1>1 DEF ServeSubmit, Sent, Idle
  <2>2. /\ net'["submit"].kind = net["submit"].kind /\ net'["submit"].reply = "done"
        /\ \A t \in Purposes \ {"submit"} : net'[t] = net[t]
    BY <1>0, <2>1, ReplyType, Unpacked
  <2>3. Unsettled' => paper' = paper
    BY <1>1, Unpacked DEF ServeSubmit, Unsettled, Papers
  <2> QED
    BY <1>0, <1>1, <2>1, <2>2, <2>3, ServedWorks DEF ServeSubmit, Unsettled
<1>2. CASE ServePhase(s)
  <2>1. net[s].kind = "phase" /\ net[s].reply = "none" /\ ~Idle(s) /\ s \notin {"draft", "lock"}
    BY <1>2 DEF ServePhase, Sent, Idle, WorkInv, Purposeful
  <2>2. PICK moved : moved = [paper EXCEPT !.phase = "answer", !.late = FALSE]
    OBVIOUS
  <2>3. moved \in Papers /\ moved.index = paper.index /\ moved.row = paper.row /\ moved.status = paper.status
    BY <2>2, Unpacked DEF Papers, Phases
  <2>4. (paper' = moved /\ ReplyScreen(s, moved)) \/ (paper' = paper /\ Reply(s, "refused"))
    BY <1>2, <2>2 DEF ServePhase
  <2>5. CASE paper' = moved /\ ReplyScreen(s, moved)
    <3>0. /\ net'[s].kind = net[s].kind /\ \A t \in Purposes \ {s} : net'[t] = net[t]
          /\ net'[s].screen = [index |-> moved.index, phase |-> moved.phase, status |-> moved.status, row |-> moved.row]
      BY <2>1, <2>3, <2>5, ReplyScreenType, Unpacked
    <3>1. net'[s].screen.index = paper.index /\ net'[s].screen.row = paper.row /\ net'[s].screen.status = paper.status
      BY <2>3, <3>0
    <3> QED
      BY <1>2, <2>1, <2>3, <2>5, <3>0, <3>1, ServedWorks DEF ServePhase, Unsettled
  <2>6. CASE paper' = paper /\ Reply(s, "refused")
    <3>1. net'[s].kind = net[s].kind /\ net'[s].reply = "refused" /\ \A t \in Purposes \ {s} : net'[t] = net[t]
      BY <2>1, <2>6, ReplyType, Unpacked
    <3> QED
      BY <1>2, <2>1, <2>6, <3>1, ServedWorks DEF ServePhase, Unsettled
  <2> QED
    BY <2>4, <2>5, <2>6
<1>3. CASE ServeFetch(s)
  <2>1. /\ net[s].kind = "get" /\ net[s].reply = "none" /\ ~Idle(s) /\ ReplyScreen(s, paper)
        /\ s \notin {"draft", "lock"}
    BY <1>3 DEF ServeFetch, Sent, Idle, WorkInv, Purposeful
  <2>2. /\ net'[s].kind = net[s].kind /\ \A t \in Purposes \ {s} : net'[t] = net[t]
        /\ net'[s].screen = [index |-> paper.index, phase |-> paper.phase, status |-> paper.status, row |-> paper.row]
    BY <2>1, ReplyScreenType, Unpacked
  <2>3. net'[s].screen.index = paper.index /\ net'[s].screen.row = paper.row /\ net'[s].screen.status = paper.status
    BY <2>2
  <2> QED
    BY <1>3, <2>1, <2>2, <2>3, ServedWorks DEF ServeFetch, Unsettled
<1>4. CASE WindowCloses
  <2>1. UNCHANGED <<page, draft, net, used, owed, lost>>
    BY <1>4 DEF WindowCloses
  <2>2. Unsettled' => Unsettled /\ paper'.index = paper.index /\ paper'.row = paper.row
    <3>1. CASE paper' = [paper EXCEPT !.late = TRUE]
      BY <3>1, Unpacked DEF Papers, Unsettled
    <3>2. CASE paper' = [paper EXCEPT !.status = "submitted"]
      BY <3>2, Unpacked DEF Papers, Unsettled
    <3> QED
      BY <1>4, <3>1, <3>2 DEF WindowCloses
  <2>3. Purposeful' /\ Placed'
    BY <2>1, ServedPlaces
  <2>4. ASSUME Unsettled' PROVE Ordered' /\ Fresh' /\ Notes' /\ Numbered' /\ Clips'
    BY <2>1, <2>2, <2>4
      DEF WorkInv, Ordered, Fresh, Screened, Notes, Numbered, Clips, InHall, OnLive, Saving, Drops, Idle, ClipKept
  <2> QED
    BY <2>1, <2>3, <2>4 DEF WorkInv
<1> QED
  BY <1>1, <1>2, <1>3, <1>4

\* A draft that the server takes is one of the page's own question.
LEMMA DraftWorks ==
  ASSUME ShownInv, ShownInv', WorkInv, ServeDraft
  PROVE  WorkInv'
<1>0. "draft" \in Purposes /\ "lock" \in Purposes /\ Painters \subseteq Purposes \ {"draft"}
  BY DEF Purposes, Painters
<1>1. PICK r : r = net["draft"]
  OBVIOUS
<1>2. ~Idle("draft") /\ r.reply = "none" /\ r.kind = "draft" /\ InHall
  BY <1>1 DEF ServeDraft, Sent, Idle, WorkInv, Placed
<1>3. PICK reply \in {"refused", "accepted", "ignored"} :
        /\ Reply("draft", reply)
        /\ \/ paper' = paper /\ reply # "accepted"
           \/ /\ paper' = [paper EXCEPT !.row = Stored(r.v, paper.row)] /\ reply = "accepted"
              /\ r.q = paper.index /\ paper.status = "open"
  BY <1>1 DEF ServeDraft
<1>4. /\ net'["draft"].kind = "draft" /\ net'["draft"].q = r.q /\ net'["draft"].v = r.v
      /\ net'["draft"].reply = reply /\ \A t \in Purposes \ {"draft"} : net'[t] = net[t]
  BY <1>0, <1>1, <1>2, <1>3, ReplyType, Unpacked
<1>5. UNCHANGED <<page, draft, used, owed, lost>>
  BY DEF ServeDraft
<1>6. Purposeful' /\ Placed'
  BY <1>0, <1>1, <1>2, <1>4, <1>5, ServedPlaces
<1>7. net'["lock"] = net["lock"]
  BY <1>0, <1>4
<1>8. CASE paper' = paper /\ reply # "accepted"
  <2>1. ASSUME Unsettled' PROVE Ordered' /\ Fresh' /\ Notes' /\ Numbered' /\ Clips'
    <3>1. Unsettled /\ Ordered /\ Fresh /\ Notes /\ Numbered /\ Clips
      BY <1>8, <2>1 DEF Unsettled, WorkInv
    <3>2. Ordered' /\ Notes' /\ Numbered' /\ Clips'
      BY <1>1, <1>2, <1>3, <1>4, <1>5, <1>7, <1>8, <3>1
        DEF Ordered, Notes, Numbered, Clips, InHall, OnLive, Saving, Drops, Idle, ClipKept
    <3>3. Fresh'
      BY <1>0, <1>4, <1>8, <3>1 DEF Fresh, Screened, Idle
    <3> QED
      BY <3>2, <3>3
  <2> QED
    BY <1>5, <1>6, <2>1 DEF WorkInv
<1>9. CASE /\ paper' = [paper EXCEPT !.row = Stored(r.v, paper.row)] /\ reply = "accepted"
           /\ r.q = paper.index /\ paper.status = "open"
  <2>1. Unsettled /\ Placed /\ Ordered /\ Fresh /\ Notes /\ Numbered /\ Clips
    BY <1>9 DEF Unsettled, WorkInv
  <2>2. OnLive /\ Saving /\ r.q = page.q
    <3>1. r.q <= page.q /\ page.q <= paper.index
      BY <1>1, <1>2, <2>1 DEF Ordered
    <3> QED
      BY <1>1, <1>2, <1>9, <3>1, Counts DEF OnLive, Saving
  <2>3. /\ paper'.index = paper.index /\ paper'.status = "open" /\ paper'.row.note = r.v.note
        /\ paper'.row.clip = IF r.v.keep THEN paper.row.clip ELSE r.v.clip
    BY <1>9, Unpacked DEF Stored, Papers
  <2>4. r.v.note \in Nat /\ r.v.clip \in Nat /\ r.v \in Values
    BY <1>0, <1>1, <1>2, KindType
  <2>5. Ordered'
    BY <1>1, <1>2, <1>4, <1>5, <1>7, <2>1, <2>3 DEF Ordered, InHall, Idle
  <2>6. Fresh'
    <3>1. \A t \in Painters : ~Screened(t)
      <4>1. net["enter"].kind = "none"
        BY <1>2, <2>1 DEF Placed, Idle, InHall
      <4>2. ~Screened("lock")
        BY <2>1, <2>2, Counts DEF Ordered, Screened, OnLive
      <4>3. Idle("load")
        BY <2>1, <2>2, Counts DEF Ordered, Placed, OnLive
      <4>4. Idle("press") /\ Idle("timer")
        <5>1. page.phase # "review"
          BY <1>1, <1>2, <2>1, <2>2, <2>4, Counts DEF Ordered
        <5> QED
          BY <2>1, <5>1 DEF Placed
      <4> QED
        BY <4>1, <4>2, <4>3, <4>4 DEF Painters, Screened, Idle
    <3> QED
      BY <1>0, <1>4, <3>1 DEF Fresh, Screened, Idle
  <2>7. Notes'
    <3>1. /\ paper.row.note <= r.v.note /\ draft.latest # << >> /\ r.v.note <= draft.latest[1].note
          /\ draft.latest[1].note <= page.note /\ draft.acked.note <= paper.row.note
          /\ (owed.q = paper.index => owed.note <= paper.row.note)
      BY <1>1, <1>2, <2>1, <2>2 DEF Notes
    <3>2. draft.acked.note <= r.v.note /\ r.v.note <= page.note /\ (owed.q = paper.index => owed.note <= r.v.note)
      <4>1. draft.acked.note <= r.v.note
        <5>1. draft.acked.note \in Nat /\ paper.row.note \in Nat /\ r.v.note \in Nat
          BY <2>4, Counts
        <5>2. draft.acked.note <= paper.row.note /\ paper.row.note <= r.v.note
          BY <3>1
        <5> QED
          BY ONLY <5>1, <5>2
      <4>2. draft.latest[1].note \in Nat /\ page.note \in Nat
        BY <3>1, Counts
      <4>3. r.v.note <= page.note
        BY <2>4, <3>1, <4>2
      <4>4. owed.q = paper.index => owed.note <= r.v.note
        BY <2>4, <3>1, Counts
      <4> QED
        BY <4>1, <4>3, <4>4
    <3>3. ~Idle("lock") /\ net["lock"].reply = "none" => owed.q = page.q /\ owed.note <= net["lock"].v.note
      BY <2>1, <2>2 DEF Notes
    <3>4. r.v.note <= r.v.note
      BY <2>4
    <3> QED
      BY <1>4, <1>5, <1>7, <1>9, <2>3, <3>1, <3>2, <3>3, <3>4 DEF Notes, Idle, Saving, OnLive, InHall
  <2>8. Numbered'
    BY <1>1, <1>2, <1>4, <1>5, <2>1 DEF Numbered, Idle
  <2>9. Clips'
    <3>1. r.v.keep => r.v.clip = 0
      BY <1>1, <1>2, <2>1 DEF Numbered
    <3>2. page.kept => /\ r.v.keep /\ paper.row.clip = draft.acked.clip
                       /\ draft.latest # << >> => draft.latest[1].keep
      BY <1>1, <2>1, <2>2 DEF Clips
    <3>3. page.clip # 0 /\ draft.saved = page.clip => paper.row.clip = page.clip /\ ~Drops(r.v)
      BY <1>1, <1>2, <2>1, <2>2 DEF Clips
    <3>4. page.clip # 0 /\ draft.saved = page.clip => paper'.row.clip = page.clip
      BY <2>3, <3>3 DEF Drops
    <3>5. page.clip # 0 /\ r.v.clip = page.clip => paper'.row.clip = page.clip
      BY <2>3, <3>1
    <3>6. page.clip # 0 /\ (draft.saved = page.clip \/ r.v.clip = page.clip) =>
            draft.latest # << >> /\ ~Drops(draft.latest[1])
      BY <1>1, <1>2, <2>1, <2>2 DEF Clips
    <3>7. ~Idle("lock") /\ net["lock"].reply = "none" =>
            IF net["lock"].v.keep
            THEN ClipKept(page) /\ IF page.clip # 0 THEN page.clip \in owed.held ELSE draft.acked.clip \in owed.held
            ELSE net["lock"].v.clip \in owed.held
      BY <2>1, <2>2 DEF Clips
    <3>8. page.kept => paper'.row.clip = draft.acked.clip
      BY <2>3, <3>2
    <3> QED
      BY <1>4, <1>5, <1>7, <2>2, <2>3, <3>2, <3>3, <3>4, <3>5, <3>6, <3>7, <3>8
        DEF Clips, Idle, Drops, ClipKept
  <2> QED
    BY <1>5, <1>6, <2>5, <2>6, <2>7, <2>8, <2>9 DEF WorkInv
<1> QED
  BY <1>3, <1>8, <1>9

LEMMA LockWorks ==
  ASSUME ShownInv, ShownInv', WorkInv, ServeLock
  PROVE  WorkInv'
<1>0. "lock" \in Purposes /\ "draft" \in Purposes /\ "lock" \in Painters
  BY DEF Purposes, Painters
<1>1. PICK r : r = net["lock"]
  OBVIOUS
<1>2. ~Idle("lock") /\ r.reply = "none" /\ r.kind = "next" /\ Answering /\ page.lock = "sent" /\ Placed
  BY <1>1 DEF ServeLock, Sent, Idle, WorkInv, Placed
<1>3. UNCHANGED <<page, draft, used, owed>>
  BY DEF ServeLock
<1>4. (\A x \in Painters \ {"lock"} : Idle(x)) /\ Idle("submit")
  BY <1>0, <1>2, PaintersAlone
<1>5. CASE ~(paper.status = "open" /\ paper.index \in Items /\ r.q = paper.index)
  <2>1. PICK reply \in {"refused", "complete", "duplicate"} :
          /\ Reply("lock", reply) /\ paper' = paper /\ lost' = lost
          /\ paper.status = "open" => reply # "refused"
          /\ reply = "duplicate" => r.q # paper.index
    BY <1>1, <1>5 DEF ServeLock, IsCurrent
  <2>2. /\ net'["lock"].kind = "next" /\ net'["lock"].q = r.q /\ net'["lock"].reply = reply
        /\ \A t \in Purposes \ {"lock"} : net'[t] = net[t]
    BY <1>0, <1>1, <1>2, <2>1, ReplyType, Unpacked
  <2>3. Purposeful' /\ Placed'
    BY <1>0, <1>1, <1>2, <1>3, <2>2, ServedPlaces
  <2>4. ASSUME Unsettled' PROVE Ordered' /\ Fresh' /\ Notes' /\ Numbered' /\ Clips'
    <3>1. Unsettled /\ Ordered /\ Fresh /\ Notes /\ Numbered /\ Clips /\ net'["draft"] = net["draft"]
      BY <1>0, <2>1, <2>2, <2>4 DEF Unsettled, WorkInv
    <3>2. r.q = page.q /\ page.q <= paper.index
      BY <1>1, <1>2, <3>1 DEF Ordered, Answering
    <3>3. reply = "duplicate" => page.q < paper.index
      BY <2>1, <3>2, Counts
    <3>4. reply # "refused" /\ reply # "screen" /\ reply # "none"
      BY <2>1, <3>1 DEF Unsettled
    <3>5. Ordered'
      BY <1>2, <1>3, <2>1, <2>2, <3>1, <3>2, <3>3, <3>4 DEF Ordered, InHall, Idle
    <3>6. Notes' /\ Numbered' /\ Clips'
      BY <1>3, <2>1, <2>2, <3>1, <3>4 DEF Notes, Numbered, Clips, InHall, OnLive, Saving, Drops, Idle, ClipKept
    <3>7. Fresh'
      BY <1>4, <2>1, <2>2, <3>4 DEF Fresh, Screened, Idle, Painters, Purposes
    <3> QED
      BY <3>5, <3>6, <3>7
  <2> QED
    BY <2>1, <2>3, <2>4 DEF WorkInv
<1>6. CASE paper.status = "open" /\ paper.index \in Items /\ r.q = paper.index
  <2>1. PICK q : q = paper.index /\ q \in Nat /\ q + 1 \in Nat
    BY Counts
  <2>2. PICK moved : moved = [paper EXCEPT !.index = q + 1, !.phase = FirstPhase(q + 1), !.late = FALSE, !.row = Blank]
    OBVIOUS
  <2>3. moved \in Papers /\ moved.index = q + 1 /\ moved.row = Blank /\ moved.status = "open"
    <3>1. FirstPhase(q + 1) \in Phases /\ Blank \in PageRows
      BY ViewType
    <3> QED
      BY <1>6, <2>1, <2>2, <3>1, Unpacked DEF Papers
  <2>4. PICK answer : answer = IF paper.late THEN paper.row ELSE Stored(r.v, paper.row)
    OBVIOUS
  <2>5. /\ paper' = moved
        /\ IF q + 1 \in Items THEN ReplyScreen("lock", moved) ELSE Reply("lock", "complete")
        /\ lost' = IF answer.note >= owed.note /\ (~paper.late => answer.clip \in owed.held) THEN lost ELSE lost \cup {q}
    BY <1>1, <1>6, <2>1, <2>2, <2>4 DEF ServeLock, IsCurrent
  <2>6. /\ net'["lock"].kind = "next" /\ net'["lock"].q = r.q
        /\ \A t \in Purposes \ {"lock"} : net'[t] = net[t]
        /\ \/ net'["lock"].reply = "complete"
           \/ /\ net'["lock"].reply = "screen" /\ net'["lock"].screen.index = q + 1
              /\ net'["lock"].screen.row = Blank /\ net'["lock"].screen.status = "open"
    <3>1. CASE ReplyScreen("lock", moved)
      <4>1. net'["lock"].reply = "screen"
        BY <1>0, <1>1, <1>2, <2>3, <3>1, ReplyScreenType, Unpacked DEF Screenings
      <4>2. net'["lock"].kind = "next" /\ net'["lock"].q = r.q /\ \A t \in Purposes \ {"lock"} : net'[t] = net[t]
        BY <1>0, <1>1, <1>2, <2>3, <3>1, ReplyScreenType, Unpacked
      <4>3. net'["lock"].screen = [index |-> moved.index, phase |-> moved.phase, status |-> moved.status, row |-> moved.row]
        BY <1>0, <1>1, <1>2, <2>3, <3>1, ReplyScreenType, Unpacked
      <4>4. /\ net'["lock"].screen.index = q + 1 /\ net'["lock"].screen.row = Blank
            /\ net'["lock"].screen.status = "open"
        BY <2>3, <4>3
      <4> QED
        BY <4>1, <4>2, <4>4
    <3>2. CASE Reply("lock", "complete")
      BY <1>0, <1>1, <1>2, <3>2, ReplyType, Unpacked
    <3> QED
      BY <2>5, <3>1, <3>2
  <2>7. Ordered /\ Fresh /\ Notes /\ Numbered /\ Clips /\ OnLive /\ net'["draft"] = net["draft"] /\ r.q = page.q
    BY <1>0, <1>1, <1>2, <1>6, <2>6 DEF WorkInv, Unsettled, OnLive, Answering, Ordered
  <2>8. lost' = lost
    <3>1. r.v \in Values /\ r.v.note \in Nat /\ r.v.clip \in Nat
      BY <1>0, <1>1, <1>2, KindType
    <3>2. owed.q = paper.index /\ owed.note <= r.v.note /\ owed.note <= paper.row.note
      BY <1>1, <1>2, <1>6, <2>7 DEF Notes
    <3>3. answer.note = IF paper.late THEN paper.row.note ELSE r.v.note
      BY <2>4 DEF Stored
    <3>4. answer.note >= owed.note
      BY <3>1, <3>2, <3>3, Counts
    <3>5. ASSUME ~paper.late PROVE answer.clip \in owed.held
      <4>1. answer.clip = IF r.v.keep THEN paper.row.clip ELSE r.v.clip
        BY <2>4, <3>5 DEF Stored
      <4>2. IF r.v.keep
            THEN ClipKept(page) /\ IF page.clip # 0 THEN page.clip \in owed.held ELSE draft.acked.clip \in owed.held
            ELSE r.v.clip \in owed.held
        BY <1>1, <1>2, <2>7 DEF Clips
      <4>3. CASE r.v.keep /\ page.clip # 0
        <5>1. draft.saved = page.clip
          BY <4>2, <4>3 DEF ClipKept
        <5>2. paper.row.clip = page.clip
          BY <2>7, <4>3, <5>1 DEF Clips
        <5> QED
          BY <4>1, <4>2, <4>3, <5>2
      <4>4. CASE r.v.keep /\ page.clip = 0
        <5>1. page.kept
          BY <4>2, <4>4 DEF ClipKept
        <5>2. paper.row.clip = draft.acked.clip
          BY <2>7, <5>1 DEF Clips
        <5> QED
          BY <4>1, <4>2, <4>4, <5>2
      <4> QED
        BY <4>1, <4>2, <4>3, <4>4
    <3> QED
      BY <2>5, <3>4, <3>5
  <2>9. Purposeful' /\ Placed'
    BY <1>0, <1>1, <1>2, <1>3, <2>6, ServedPlaces
  <2>10. page.q < paper'.index /\ paper.index < paper'.index /\ paper'.index = q + 1
    BY <1>6, <2>1, <2>3, <2>5, <2>7
  <2>11. Ordered'
    <3>0. owed.q <= q /\ page.q <= q /\ owed.q \in Nat /\ page.q \in Nat
      BY <2>1, <2>7, Counts DEF Ordered, OnLive
    <3>1. owed.q <= paper'.index /\ page.q <= paper'.index
      BY <2>1, <2>10, <3>0
    <3> QED
      BY <1>2, <1>3, <2>6, <2>7, <2>10, <3>1 DEF Ordered, InHall, Idle
  <2>12. Fresh'
    BY <1>4, <2>3, <2>5, <2>6, <2>10 DEF Fresh, Screened, Idle, Painters, Purposes
  <2>13. Notes' /\ Clips'
    <3>1. ~OnLive'
      BY <1>3, <2>10, Counts DEF OnLive
    <3>2. owed.q # paper'.index
      BY <2>7, <2>10, Counts DEF Ordered
    <3> QED
      BY <1>3, <3>1, <3>2 DEF Notes, Clips
  <2>14. Numbered'
    BY <1>3, <2>7 DEF Numbered, Idle
  <2> QED
    BY <2>8, <2>9, <2>11, <2>12, <2>13, <2>14 DEF WorkInv
<1> QED
  BY <1>5, <1>6

\* The answer is as it was, and nothing new is asked that depends on it.
LEMMA QuietWorks ==
  ASSUME ShownInv, ShownInv', WorkInv, Purposeful', Placed',
         page'.at = page.at, page'.q = page.q, page'.phase = page.phase, page'.note = page.note,
         page'.clip = page.clip, page'.kept = page.kept,
         page'.lock = page.lock \/ page'.lock \in {"no", "stopping"},
         draft'.latest = draft.latest, draft'.saved = draft.saved, draft'.acked = draft.acked,
         used'.clips >= used.clips, UNCHANGED <<paper, owed, lost>>,
         net'["draft"] = net["draft"] \/ net'["draft"] = NoRequest,
         \A s \in Painters : \/ net'[s] = net[s] \/ net'[s] = NoRequest
                             \/ s # "lock" /\ net'[s].reply = "none"
  PROVE  WorkInv'
<1>1. ASSUME Unsettled' PROVE Ordered' /\ Fresh' /\ Notes' /\ Numbered' /\ Clips'
  <2>1. Unsettled /\ Ordered /\ Fresh /\ Notes /\ Numbered /\ Clips
    BY <1>1 DEF Unsettled, WorkInv
  <2>2. net'["draft"] = net["draft"] \/ Idle("draft")'
    BY RequestFields DEF Idle
  <2>3. net'["lock"] = net["lock"] \/ Idle("lock")'
    BY RequestFields DEF Idle, Painters
  <2>4. (OnLive' = OnLive) /\ (InHall' = InHall)
    BY DEF OnLive, InHall
  <2>5. Ordered'
    BY <2>1, <2>2, <2>3, <2>4 DEF Ordered, Idle
  <2>6. Notes'
    BY <2>1, <2>2, <2>3, <2>4 DEF Notes, Idle, Saving
  <2>7. Clips'
    BY <2>1, <2>2, <2>3, <2>4 DEF Clips, Idle, Saving, Drops, ClipKept
  <2>8. Fresh'
    BY <2>1, RequestFields DEF Fresh, Screened, Idle
  <2>9. Numbered'
    <3>1. \A n \in Nat : n <= used.clips => n <= used'.clips
      BY Counts, Unpacked, ShownInv' DEF ShownInv, PageTypes
    <3>2. ~Idle("draft") => net["draft"].v.clip \in Nat
      BY KindType DEF WorkInv, Purposeful, Idle, Purposes
    <3> QED
      BY <2>1, <2>2, <3>1, <3>2, Counts DEF Numbered, Idle
  <2> QED
    BY <2>5, <2>6, <2>7, <2>8, <2>9
<1> QED
  BY <1>1 DEF WorkInv

\* A recording just made has a number of its own.
LEMMA CapturedWorks ==
  ASSUME ShownInv, WorkInv, NEW p \in Captured(page)
  PROVE  /\ p \in Pages /\ p.q = page.q /\ p.at = page.at /\ p.phase = page.phase /\ p.note = page.note
         /\ p.kept = page.kept /\ p.lock = page.lock /\ p.stop = page.stop /\ p.timedOut = page.timedOut
         /\ p.rec = "off" /\ Taken(p).clips \in Nat /\ Taken(p).clips >= used.clips
         /\ Unsettled =>
              /\ p.clip <= Taken(p).clips /\ (p.kept => p.clip = 0)
              /\ \/ p.clip = page.clip
                 \/ /\ p.clip # 0 /\ ~p.kept /\ draft.saved # p.clip
                    /\ ~Idle("draft") => net["draft"].v.clip # p.clip
<1>1. /\ p \in Pages /\ p.q = page.q /\ p.at = page.at /\ p.phase = page.phase /\ p.note = page.note
      /\ p.kept = page.kept /\ p.lock = page.lock /\ p.stop = page.stop /\ p.timedOut = page.timedOut
      /\ Taken(p) \in [clips: Nat, faults: Nat, mute: BOOLEAN]
      /\ \/ p.clip = page.clip /\ Taken(p).clips >= used.clips
         \/ p.clip = used.clips + 1 /\ Taken(p).clips = used.clips + 1
  BY CapturedType
<1>0. Taken(p).clips \in Nat
  BY <1>1
<1>2. Taken(p).clips \in Nat /\ used.clips \in Nat /\ used.clips + 1 \in Nat /\ used.clips + 1 >= used.clips
  BY <1>0, Counts
<1>3. p.rec = "off"
  BY Unpacked DEF Captured, Pages
<1>4. p.clip = page.clip \/ page.rec # "off"
  BY DEF Captured
<1>5. ASSUME Unsettled
      PROVE  /\ p.clip <= Taken(p).clips /\ (p.kept => p.clip = 0)
             /\ \/ p.clip = page.clip
                \/ /\ p.clip # 0 /\ ~p.kept /\ draft.saved # p.clip
                   /\ ~Idle("draft") => net["draft"].v.clip # p.clip
  <2>1. Numbered /\ Placed
    BY <1>5 DEF WorkInv
  <2>2. CASE p.clip = page.clip
    <3>1. page.clip <= used.clips /\ page.clip \in Nat
      BY <2>1, Counts DEF Numbered
    <3>2. Taken(p).clips >= used.clips
      BY <1>1, <1>2
    <3> QED
      BY <1>1, <1>2, <2>1, <2>2, <3>1, <3>2 DEF Numbered
  <2>3. CASE p.clip # page.clip
    <3>1. p.clip = used.clips + 1 /\ Taken(p).clips = used.clips + 1 /\ ~page.kept
      BY <1>1, <1>4, <2>1, <2>3 DEF Placed
    <3>2. draft.saved <= used.clips /\ draft.saved \in Nat
      BY <2>1, Counts DEF Numbered
    <3>3. ASSUME ~Idle("draft") PROVE net["draft"].v.clip # p.clip
      <4>1. net["draft"].v.clip \in Nat /\ net["draft"].v.clip <= used.clips
        BY <2>1, <3>3, KindType DEF Numbered, WorkInv, Purposeful, Idle, Purposes
      <4> QED
        BY <1>2, <3>1, <4>1
    <3> QED
      BY <1>1, <1>2, <3>1, <3>2, <3>3
  <2> QED
    BY <2>2, <2>3
<1>6. Taken(p).clips >= used.clips
  BY <1>1, <1>2
<1> QED
  BY <1>1, <1>2, <1>3, <1>5, <1>6

\* An answer is queued for the autosave as it is on screen: edited, or with a recording.
LEMMA QueueWorks ==
  ASSUME ShownInv, ShownInv', WorkInv, NEW p \in Pages, Answering, page'.at = page.at, page'.q = page.q,
         page'.phase = page.phase, page'.note = p.note, page'.clip = p.clip, page'.kept = p.kept, page'.rec = p.rec,
         p.note >= page.note, p.kept = page.kept, p.rec # "off" => p.clip = 0 /\ ~p.kept,
         page'.lock = page.lock, page'.stop \in {"no", page.stop, page.lock, "lock"},
         page'.stop # "no" => page.lock \in {"no", "stopping"},
         draft' = Queued(OnScreen(p)), used'.clips >= used.clips, UNCHANGED <<paper, net, owed, lost>>,
         Unsettled => /\ p.clip <= used'.clips /\ (p.kept => p.clip = 0)
                      /\ \/ p.clip = page.clip
                         \/ /\ p.clip # 0 /\ ~p.kept /\ draft.saved # p.clip
                            /\ ~Idle("draft") => net["draft"].v.clip # p.clip,
         ~Idle("lock") => p.clip = page.clip
  PROVE  WorkInv'
<1>1. PICK v \in Values : v = OnScreen(p)
  BY OnScreenType, Unpacked
<1>2. /\ v.note = p.note /\ (v.keep <=> ClipKept(p)) /\ v.clip = IF ClipKept(p) THEN 0 ELSE p.clip
  BY <1>1, OnScreenType, Unpacked
<1>3. /\ draft'.latest # << >> /\ draft'.latest[1] = v /\ draft'.saved = draft.saved /\ draft'.acked = draft.acked
  BY <1>1, QueuedType
<1>4. /\ p.note \in Nat /\ p.clip \in Nat /\ v.note \in Nat /\ v.clip \in Nat /\ used'.clips \in Nat
  BY <1>1, ShownInv' DEF Pages, Values, ShownInv, PageTypes
<1>5. Purposeful'
  BY DEF Purposeful, WorkInv
<1>6. Placed'
  BY DEF Placed, WorkInv, Answering, InHall, Idle
<1>7. ASSUME Unsettled' PROVE Ordered' /\ Fresh' /\ Notes' /\ Numbered' /\ Clips'
  <2>1. Unsettled /\ Ordered /\ Fresh /\ Notes /\ Numbered /\ Clips
    BY <1>7 DEF Unsettled, WorkInv
  <2>2. (OnLive' = OnLive) /\ (InHall' = InHall)
    BY DEF OnLive, InHall
  <2>3. Ordered' /\ Fresh'
    BY <2>1, <2>2 DEF Ordered, Fresh, Screened, Idle
  <2>4. Notes'
    <3>1. ASSUME OnLive
          PROVE  /\ paper.row.note <= p.note /\ p.note <= p.note
                 /\ Saving => net["draft"].v.note <= p.note
      <4>1. paper.row.note <= page.note
        BY <2>1, <3>1 DEF Notes
      <4>2. ASSUME Saving PROVE net["draft"].v.note <= page.note /\ net["draft"].v.note \in Nat
        <5>1. net["draft"].v.note \in Nat
          BY <4>2, KindType DEF Saving, WorkInv, Purposeful, Idle, Purposes
        <5>2. draft.latest # << >> /\ net["draft"].v.note <= draft.latest[1].note /\ draft.latest[1].note <= page.note
          BY <2>1, <3>1, <4>2 DEF Notes
        <5>3. draft.latest[1].note \in Nat
          BY <5>2, Counts
        <5> QED
          BY <5>1, <5>2, <5>3, Counts
      <4>3. page.note \in Nat /\ paper.row.note \in Nat
        BY Counts
      <4>4. paper.row.note <= p.note /\ p.note <= p.note
        BY <1>4, <4>1, <4>3
      <4>5. ASSUME Saving PROVE net["draft"].v.note <= p.note
        BY <1>4, <4>2, <4>3, <4>5
      <4> QED
        BY <4>4, <4>5
    <3> QED
      BY <1>2, <1>3, <2>1, <2>2, <3>1 DEF Notes, Saving, Idle
  <2>5. Numbered'
    <3>1. draft.saved <= used'.clips
      BY <1>4, <2>1, Counts DEF Numbered
    <3>2. v.clip <= used'.clips /\ (v.keep => v.clip = 0)
      BY <1>2, <1>4, <2>1
    <3>3. ~Idle("draft") =>
            /\ net["draft"].v.clip <= used'.clips /\ (net["draft"].v.keep => net["draft"].v.clip = 0)
            /\ net["draft"].q # page.q /\ p.clip # 0 => net["draft"].v.clip # p.clip
      <4>1. ASSUME ~Idle("draft") PROVE net["draft"].v.clip \in Nat
        BY <4>1, KindType DEF WorkInv, Purposeful, Idle, Purposes
      <4>2. ASSUME ~Idle("draft") PROVE net["draft"].v.clip <= used'.clips
        <5>1. net["draft"].v.clip <= used.clips
          BY <2>1, <4>2 DEF Numbered
        <5>2. PICK n \in Nat, m \in Nat, k \in Nat : n = net["draft"].v.clip /\ m = used.clips /\ k = used'.clips
          BY <1>4, <4>1, <4>2, Counts
        <5>3. n <= m /\ k >= m
          BY <5>1, <5>2
        <5> QED
          BY <5>2, <5>3
      <4>3. ~Idle("draft") => (net["draft"].v.keep => net["draft"].v.clip = 0)
        BY <2>1 DEF Numbered
      <4>4. ASSUME ~Idle("draft"), net["draft"].q # page.q, p.clip # 0 PROVE net["draft"].v.clip # p.clip
        BY <2>1, <4>4 DEF Numbered
      <4> QED
        BY <4>2, <4>3, <4>4
    <3> QED
      BY <1>3, <2>1, <3>1, <3>2, <3>3 DEF Numbered, Idle
  <2>6. Clips'
    <3>0. SUFFICES ASSUME OnLive PROVE Clips'
      BY <2>2 DEF Clips
    <3>1. v.keep \/ v.clip = page'.clip
      BY <1>2
    <3>2. page'.kept => paper.row.clip = draft.acked.clip /\ v.keep /\ (Saving => net["draft"].v.keep)
      <4>1. page'.kept => page.kept /\ p.clip = 0 /\ p.kept
        BY <2>1
      <4> QED
        BY <1>2, <2>1, <3>0, <4>1 DEF Clips, ClipKept
    <3>3. page'.clip # 0 /\ draft.saved = page'.clip =>
            page.clip = page'.clip /\ paper.row.clip = page'.clip /\ (~Idle("draft") => net["draft"].q = page.q /\ ~Drops(net["draft"].v))
      BY <2>1, <3>0 DEF Clips
    <3>4. Saving /\ page'.clip # 0 /\ net["draft"].v.clip = page'.clip /\ net["draft"].reply = "accepted" =>
            paper.row.clip = page'.clip
      BY <2>1, <3>0 DEF Clips, Saving
    <3>5. ~Idle("lock") /\ net["lock"].reply = "none" =>
            IF net["lock"].v.keep
            THEN ClipKept(p) /\ IF page'.clip # 0 THEN page'.clip \in owed.held ELSE draft.acked.clip \in owed.held
            ELSE net["lock"].v.clip \in owed.held
      <4>1. ~Idle("lock") => page'.clip = page.clip
        OBVIOUS
      <4> QED
        BY <2>1, <3>0, <4>1 DEF Clips, ClipKept
    <3>6. (ClipKept(page))' <=> ClipKept(p)
      BY <1>3 DEF ClipKept
    <3>7. draft'.latest # << >> /\ draft'.latest[1].keep = v.keep /\ (v.keep \/ v.clip = page'.clip)
      BY <1>3, <3>1 DEF Drops
    <3> QED
      BY <1>3, <3>2, <3>3, <3>4, <3>5, <3>6, <3>7 DEF Clips, Drops, Saving, Idle
  <2> QED
    BY <2>3, <2>4, <2>5, <2>6
<1> QED
  BY <1>5, <1>6, <1>7 DEF WorkInv

\* The lock goes out with what is on screen, and owes what the candidate had then.
LEMMA LockingWorks ==
  ASSUME ShownInv, ShownInv', WorkInv, NEW p \in Pages, Answering, page.lock \in {"no", "stopping"},
         p.at = page.at, p.q = page.q, p.phase = page.phase, p.note = page.note, p.kept = page.kept,
         p.rec # "off" => p.clip = 0 /\ ~p.kept, Locking(p), used'.clips >= used.clips,
         UNCHANGED <<paper, draft, lost>>,
         Unsettled => /\ p.clip <= used'.clips /\ (p.kept => p.clip = 0)
                      /\ \/ p.clip = page.clip
                         \/ /\ p.clip # 0 /\ ~p.kept /\ draft.saved # p.clip
                            /\ ~Idle("draft") => net["draft"].v.clip # p.clip
  PROVE  WorkInv'
<1>0. {"enter", "submit", "draft", "lock", "load", "press", "timer"} = Purposes
      /\ Painters = {"enter", "lock", "load", "press", "timer"}
  BY DEF Purposes, Painters
<1>1. PICK v \in Values : v = OnScreen(p)
  BY OnScreenType, Unpacked
<1>2. /\ v.note = p.note /\ (v.keep <=> ClipKept(p)) /\ v.clip = IF ClipKept(p) THEN 0 ELSE p.clip
  BY <1>1, OnScreenType, Unpacked
<1>3. /\ page'.at = "hall" /\ page'.q = page.q /\ page'.phase = "answer" /\ page'.note = page.note
      /\ page'.clip = p.clip /\ page'.kept = p.kept /\ page'.rec = p.rec
      /\ page'.stop = "no" /\ page'.lock = "sent"
  BY DEF Locking, Pages, Answering, InHall
<1>4. PICK r : r = Request("next", p.q, v) /\ Typed(r) /\ r.kind = "next" /\ r.q = page.q /\ r.v = v /\ r.reply = "none"
  BY <1>1, RequestType, RequestFields, Counts
<1>5. net'["lock"] = r /\ \A x \in Purposes \ {"lock"} : net'[x] = net[x]
  <2>1. net' = [net EXCEPT !["lock"] = r]
    BY <1>1, <1>4 DEF Locking
  <2> QED
    BY <1>0, <1>4, <2>1, NetChanges, Unpacked
<1>6. PICK held : held = IF p.clip # 0 THEN p.clip ELSE IF p.kept THEN draft.acked.clip ELSE 0
  OBVIOUS
<1>7. /\ owed'.q = page.q /\ held \in owed'.held
      /\ IF owed.q = page.q THEN owed'.note = owed.note ELSE owed'.note = draft.acked.note
  <2>1. owed' = IF owed.q = p.q THEN [owed EXCEPT !.held = owed.held \cup {held}]
                ELSE [q |-> p.q, note |-> draft.acked.note, held |-> {held}]
    BY <1>6 DEF Locking
  <2> QED
    BY <2>1, Unpacked
<1>8. Idle("lock") /\ Idle("load") /\ Idle("enter") /\ Idle("press") /\ Idle("timer") /\ Idle("submit")
  BY DEF WorkInv, Placed, Answering, InHall
<1>9. Purposeful'
  BY <1>0, <1>4, <1>5 DEF WorkInv, Purposeful
<1>10. Placed'
  <2>1. /\ net'["load"].kind = "none" /\ net'["enter"].kind = "none" /\ net'["press"].kind = "none"
        /\ net'["timer"].kind = "none" /\ net'["submit"].kind = "none"
    BY <1>0, <1>5, <1>8 DEF Idle
  <2>2. page'.rec # "off" => page'.clip = 0 /\ ~page'.kept
    BY <1>3
  <2> QED
    BY <1>3, <2>1, <2>2 DEF Placed, Idle, InHall, Answering
<1>11. ASSUME Unsettled' PROVE Ordered' /\ Fresh' /\ Notes' /\ Numbered' /\ Clips'
  <2>1. Unsettled /\ Ordered /\ Fresh /\ Notes /\ Numbered /\ Clips
    BY <1>11 DEF Unsettled, WorkInv
  <2>2. (OnLive' <=> OnLive) /\ InHall /\ InHall' /\ net'["draft"] = net["draft"]
    BY <1>0, <1>3, <1>5 DEF OnLive, InHall, Answering
  <2>3. page.q <= paper.index
    BY <2>1, <2>2 DEF Ordered
  <2>4. Ordered'
    BY <1>3, <1>4, <1>5, <1>7, <2>1, <2>2, <2>3 DEF Ordered, Idle
  <2>5. Fresh'
    BY <1>0, <1>4, <1>5, <1>8 DEF Fresh, Screened, Idle
  <2>6. Notes'
    <3>1. owed'.q = paper.index => OnLive /\ owed'.note <= paper.row.note
      BY <1>7, <2>1, <2>2 DEF Notes, OnLive
    <3>2. OnLive => owed'.note <= page.note
      <4>1. ASSUME OnLive PROVE owed'.note <= page.note
        <5>1. owed'.note <= paper.row.note /\ paper.row.note <= page.note
          BY <1>7, <2>1, <4>1 DEF Notes, OnLive
        <5>2. owed'.note \in Nat
          BY ShownInv' DEF ShownInv, PageTypes
        <5> QED
          BY <5>1, <5>2, Counts
      <4> QED
        BY <4>1
    <3> QED
      BY <1>2, <1>3, <1>4, <1>5, <1>7, <2>1, <2>2, <3>1, <3>2 DEF Notes, Saving, Idle
  <2>7. Numbered'
    <3>1. \A n \in Nat : n <= used.clips => n <= used'.clips
      BY Counts, ShownInv' DEF ShownInv, PageTypes
    <3>2. ~Idle("draft") => net["draft"].v.clip \in Nat
      BY KindType DEF WorkInv, Purposeful, Idle, Purposes
    <3>3. page'.clip <= used'.clips /\ (page'.kept => page'.clip = 0)
      BY <1>3, <2>1
    <3>4. ~Idle("draft") /\ net["draft"].q # page.q /\ p.clip # 0 => net["draft"].v.clip # p.clip
      BY <2>1 DEF Numbered
    <3> QED
      BY <1>3, <2>1, <2>2, <3>1, <3>2, <3>3, <3>4, Counts DEF Numbered, Idle
  <2>8. Clips'
    <3>0. SUFFICES ASSUME OnLive PROVE Clips'
      BY <2>2 DEF Clips
    <3>1. page'.kept => /\ paper.row.clip = draft.acked.clip
                        /\ draft.latest # << >> => draft.latest[1].keep
                        /\ Saving => net["draft"].v.keep
      BY <1>3, <2>1, <3>0 DEF Clips
    <3>2. page'.clip # 0 /\ draft.saved = page'.clip =>
            page.clip = page'.clip /\ paper.row.clip = page'.clip
            /\ (~Idle("draft") => net["draft"].q = page.q /\ ~Drops(net["draft"].v))
      BY <1>3, <2>1, <3>0 DEF Clips
    <3>3. page'.clip # 0 /\ (draft.saved = page'.clip \/ (~Idle("draft") /\ net["draft"].v.clip = page'.clip)) =>
            page.clip = page'.clip /\ draft.latest # << >> /\ ~Drops(draft.latest[1])
      BY <1>3, <2>1, <3>0 DEF Clips
    <3>4. Saving /\ page'.clip # 0 /\ net["draft"].v.clip = page'.clip /\ net["draft"].reply = "accepted" =>
            paper.row.clip = page'.clip
      BY <1>3, <2>1, <3>0 DEF Clips, Saving
    <3>5. (ClipKept(page))' <=> ClipKept(p)
      BY <1>3 DEF ClipKept
    <3>6. IF v.keep
          THEN ClipKept(p) /\ IF p.clip # 0 THEN p.clip \in owed'.held ELSE draft.acked.clip \in owed'.held
          ELSE v.clip \in owed'.held
      BY <1>2, <1>6, <1>7 DEF ClipKept
    <3> QED
      BY <1>3, <1>4, <1>5, <2>2, <3>1, <3>2, <3>3, <3>4, <3>5, <3>6 DEF Clips, Drops, Saving, Idle
  <2> QED
    BY <2>4, <2>5, <2>6, <2>7, <2>8
<1> QED
  BY <1>9, <1>10, <1>11 DEF WorkInv

\* The button, or the clock, with the page as it was but for its clock and button.
LEMMA ClickWorks ==
  ASSUME ShownInv, ShownInv', WorkInv, NEW p \in Pages, Answering, NEW forced \in BOOLEAN,
         p.at = page.at, p.q = page.q, p.phase = page.phase, p.note = page.note, p.kept = page.kept,
         p.clip = page.clip, p.rec = page.rec, p.lock = page.lock, p.stop = page.stop, Click(p, forced),
         UNCHANGED <<paper, draft, used, lost>>
  PROVE  WorkInv'
<1>0. used'.clips >= used.clips
  BY Counts
<1>1. CASE p.lock # "no"
  <2>1. page' = p /\ UNCHANGED <<net, owed>>
    BY <1>1 DEF Click
  <2>2. Purposeful' /\ Placed'
    BY <2>1 DEF WorkInv, Purposeful, Placed, Idle, InHall, Answering
  <2> QED
    BY <1>0, <2>1, <2>2, QuietWorks
<1>2. CASE p.lock = "no" /\ Kinds[p.q] = "choice"
  <2>1. Locking(p)
    BY <1>2 DEF Click
  <2>2. Unsettled => p.clip <= used'.clips /\ (p.kept => p.clip = 0)
    BY DEF WorkInv, Numbered
  <2>3. p.rec # "off" => p.clip = 0 /\ ~p.kept
    BY DEF WorkInv, Placed
  <2> QED
    BY <1>0, <1>2, <2>1, <2>2, <2>3, LockingWorks
<1>3. CASE p.lock = "no" /\ Kinds[p.q] # "choice"
  <2>1. PICK st \in {"lock", p.stop} :
          /\ page' = [p EXCEPT !.lock = "stopping", !.timedOut = forced, !.stop = st]
          /\ UNCHANGED <<net, owed>>
    BY <1>3 DEF Click
  <2>2. /\ page'.at = page.at /\ page'.q = page.q /\ page'.phase = page.phase /\ page'.note = page.note
        /\ page'.clip = page.clip /\ page'.kept = page.kept /\ page'.rec = page.rec
        /\ page'.lock = "stopping"
    BY <2>1 DEF Pages
  <2>3. Purposeful' /\ Placed'
    BY <1>3, <2>1, <2>2 DEF WorkInv, Purposeful, Placed, Idle, InHall, Answering
  <2> QED
    BY <1>0, <2>1, <2>2, <2>3, QuietWorks
<1> QED
  BY <1>1, <1>2, <1>3

\* The autosave falls idle, or the latest answer goes out, and what the page holds for
\* acknowledged is stored.
LEMMA SlotWorks ==
  ASSUME ShownInv, ShownInv', WorkInv, UNCHANGED <<paper, page, used, owed, lost>>,
         draft'.latest = draft.latest, draft'.timer => draft.timer, InHall,
         \/ net'["draft"].kind = "none"
         \/ draft.latest # << >> /\ net'["draft"] = Request("draft", page.q, draft.latest[1]),
         \A x \in Purposes \ {"draft"} : net'[x] = net[x],
         Unsettled => draft'.saved <= used.clips,
         Unsettled /\ OnLive =>
           /\ draft'.acked.note <= paper.row.note
           /\ page.kept => paper.row.clip = draft'.acked.clip
           /\ page.clip # 0 /\ draft'.saved = page.clip =>
                paper.row.clip = page.clip /\ draft.latest # << >> /\ ~Drops(draft.latest[1])
           /\ ~Idle("lock") /\ net["lock"].reply = "none" /\ net["lock"].v.keep =>
                IF page.clip # 0 THEN draft'.saved = page.clip /\ page.clip \in owed.held
                ELSE page.kept /\ draft'.acked.clip \in owed.held
  PROVE  WorkInv'
<1>0. {"enter", "submit", "draft", "lock", "load", "press", "timer"} = Purposes
      /\ Painters = {"enter", "lock", "load", "press", "timer"}
  BY DEF Purposes, Painters
<1>1. net'["lock"] = net["lock"] /\ \A x \in Painters : net'[x] = net[x]
  BY <1>0
<1>2. ~Idle("draft")' => /\ draft.latest # << >> /\ net'["draft"].kind = "draft" /\ net'["draft"].q = page.q
                         /\ net'["draft"].v = draft.latest[1] /\ net'["draft"].reply = "none"
  BY RequestFields DEF Idle
<1>3. Purposeful'
  BY <1>0, <1>2 DEF WorkInv, Purposeful, Idle
<1>4. Placed'
  BY <1>0, <1>2 DEF WorkInv, Placed, Idle, InHall, Answering
<1>5. ASSUME Unsettled' PROVE Ordered' /\ Fresh' /\ Notes' /\ Numbered' /\ Clips'
  <2>1. Unsettled /\ Placed /\ Ordered /\ Fresh /\ Notes /\ Numbered /\ Clips
    BY <1>5 DEF Unsettled, WorkInv
  <2>2. (OnLive' = OnLive) /\ (InHall' = InHall)
    BY DEF OnLive, InHall
  <2>3. Ordered'
    <3>1. ~Idle("draft")' => net'["draft"].q <= page.q /\ page.phase # "review"
      BY <1>2, <2>1, Counts DEF Placed
    <3> QED
      BY <1>1, <2>1, <2>2, <3>1 DEF Ordered, Idle
  <2>4. Fresh'
    BY <1>1, <2>1 DEF Fresh, Screened, Idle
  <2>5. Notes'
    <3>1. draft.latest # << >> => draft.latest[1].note <= draft.latest[1].note
      BY Counts
    <3> QED
      BY <1>1, <1>2, <2>1, <2>2, <3>1 DEF Notes, Saving, Idle
  <2>6. Numbered'
    BY <1>2, <2>1 DEF Numbered, Idle
  <2>7. Clips'
    <3>0. SUFFICES ASSUME OnLive PROVE Clips'
      BY <2>2 DEF Clips
    <3>1. page.kept => /\ paper.row.clip = draft'.acked.clip
                       /\ draft.latest # << >> => draft.latest[1].keep
                       /\ Saving' => net'["draft"].v.keep
      BY <1>2, <2>1, <3>0 DEF Clips, Saving
    <3>2. page.clip # 0 /\ draft'.saved = page.clip =>
            /\ paper.row.clip = page.clip /\ draft.latest # << >> /\ ~Drops(draft.latest[1])
            /\ (~Idle("draft"))' => net'["draft"].q = page.q /\ (net'["draft"].v.keep \/ net'["draft"].v.clip = page.clip)
      BY <1>2, <2>1, <3>0 DEF Drops
    <3>3. ASSUME page.clip # 0, (~Idle("draft"))', net'["draft"].v.clip = page.clip
          PROVE  draft.latest # << >> /\ ~Drops(draft.latest[1]) /\ net'["draft"].reply # "accepted"
      BY <1>2, <3>3 DEF Drops
    <3>4. ~Idle("lock") /\ net["lock"].reply = "none" =>
            IF net["lock"].v.keep
            THEN (ClipKept(page))' /\ IF page.clip # 0 THEN page.clip \in owed.held ELSE draft'.acked.clip \in owed.held
            ELSE net["lock"].v.clip \in owed.held
      BY <2>1, <3>0 DEF Clips, ClipKept
    <3> QED
      BY <1>1, <3>1, <3>2, <3>3, <3>4 DEF Clips, Drops, Saving, Idle
  <2> QED
    BY <2>3, <2>4, <2>5, <2>6, <2>7
<1> QED
  BY <1>3, <1>4, <1>5 DEF WorkInv

LEMMA AnswersWork ==
  ASSUME ShownInv, ShownInv', WorkInv, Edit \/ SendDraft \/ DraftBack \/ DraftRefused
  PROVE  WorkInv'
<1>0. {"enter", "submit", "draft", "lock", "load", "press", "timer"} = Purposes
      /\ Painters = {"enter", "lock", "load", "press", "timer"}
  BY DEF Purposes, Painters
<1>00. used.clips >= used.clips
  BY Counts
\* What the page holds for acknowledged now.
<1>1. ASSUME Unsettled
      PROVE  /\ draft.saved <= used.clips
             /\ OnLive =>
                  /\ draft.acked.note <= paper.row.note
                  /\ page.kept => paper.row.clip = draft.acked.clip
                  /\ page.clip # 0 /\ draft.saved = page.clip =>
                       paper.row.clip = page.clip /\ draft.latest # << >> /\ ~Drops(draft.latest[1])
                  /\ ~Idle("lock") /\ net["lock"].reply = "none" /\ net["lock"].v.keep =>
                       IF page.clip # 0 THEN draft.saved = page.clip /\ page.clip \in owed.held
                       ELSE page.kept /\ draft.acked.clip \in owed.held
  <2>1. Notes /\ Numbered /\ Clips
    BY <1>1 DEF WorkInv
  <2> QED
    BY <2>1 DEF Notes, Numbered, Clips, ClipKept
<1>2. CASE Edit
  <2>1. PICK b \in BOOLEAN : b = IF OpenItem THEN Enough(page) ELSE page.enabled
    BY Unpacked DEF Enough, Pages
  <2>2. PICK p : p = [page EXCEPT !.note = page.note + 1, !.enabled = b]
    OBVIOUS
  <2>3. page.note + 1 \in Nat /\ page.note + 1 >= page.note
    BY Counts
  <2>4. /\ p \in Pages /\ p.q = page.q /\ p.at = page.at /\ p.phase = page.phase /\ p.note = page.note + 1
        /\ p.clip = page.clip /\ p.kept = page.kept /\ p.rec = page.rec /\ p.lock = page.lock /\ p.stop = page.stop
    BY <2>2, <2>3, Unpacked DEF Pages
  <2>5. page' = p /\ draft' = Queued(OnScreen(p)) /\ Answering /\ UNCHANGED <<paper, net, used, owed, lost>>
    BY <1>2, <2>1, <2>2 DEF Edit
  <2>6. p.rec # "off" => p.clip = 0 /\ ~p.kept
    BY <2>4 DEF WorkInv, Placed
  <2>7. Unsettled => p.clip <= used'.clips /\ (p.kept => p.clip = 0)
    BY <2>4, <2>5 DEF WorkInv, Numbered
  <2>8. page.stop # "no" => page.lock \in {"no", "stopping"}
    BY DEF WorkInv, Placed
  <2> QED
    BY <1>00, <2>3, <2>4, <2>5, <2>6, <2>7, <2>8, QueueWorks
<1>3. CASE SendDraft
  <2>1. draft' = [draft EXCEPT !.timer = FALSE] /\ UNCHANGED <<paper, page, used, owed, lost>> /\ InHall
    BY <1>3 DEF SendDraft
  <2>2. draft'.latest = draft.latest /\ draft'.saved = draft.saved /\ draft'.acked = draft.acked /\ ~draft'.timer
    BY <2>1, Unpacked DEF Drafts
  <2>3. CASE net' = net
    <3>1. Purposeful' /\ Placed'
      BY <2>1, <2>2, <2>3 DEF WorkInv, Purposeful, Placed, Idle, InHall, Answering
    <3> QED
      BY <1>0, <1>00, <2>1, <2>2, <2>3, <3>1, QuietWorks
  <2>4. CASE net' = [net EXCEPT !["draft"] = Request("draft", page.q, draft.latest[1])]
    <3>1. draft.latest # << >> /\ draft.latest[1] \in Values
      BY <1>3, Unpacked DEF SendDraft
    <3>2. PICK r : r = Request("draft", page.q, draft.latest[1]) /\ Typed(r)
      BY <3>1, RequestType, Counts
    <3>3. net'["draft"] = r /\ \A x \in Purposes \ {"draft"} : net'[x] = net[x]
      <4>1. net' = [net EXCEPT !["draft"] = r]
        BY <2>4, <3>2
      <4> QED
        BY <1>0, <3>2, <4>1, NetChanges, Unpacked
    <3> QED
      BY <1>1, <2>1, <2>2, <3>1, <3>2, <3>3, SlotWorks
  <2> QED
    BY <1>3, <2>3, <2>4 DEF SendDraft
<1>4. CASE DraftRefused
  <2>1. net' = [net EXCEPT !["draft"] = NoRequest] /\ UNCHANGED <<paper, page, draft, used, owed, lost>>
    BY <1>4 DEF DraftRefused
  <2>2. net'["draft"] = NoRequest /\ \A x \in Purposes \ {"draft"} : net'[x] = net[x]
    BY <1>0, <2>1, RequestType, NetChanges, Unpacked
  <2>3. InHall
    BY <1>4 DEF DraftRefused, Back, WorkInv, Placed, Idle
  <2> QED
    BY <1>1, <2>1, <2>2, <2>3, RequestFields, SlotWorks
<1>5. CASE DraftBack
  <2>1. PICK r : r = net["draft"]
    OBVIOUS
  <2>2. r.kind = "draft" /\ ~Idle("draft") /\ InHall /\ r.v \in Values /\ r.v.clip \in Nat /\ r.v.note \in Nat
    BY <1>0, <1>5, <2>1, KindType DEF DraftBack, Back, Idle, WorkInv, Placed
  <2>3. PICK sv : sv = IF ClipSaved(r) THEN r.v.clip ELSE draft.saved
    OBVIOUS
  <2>4. PICK a : a = IF r.q = page.q /\ r.reply = "accepted" THEN Stored(r.v, draft.acked) ELSE draft.acked
    OBVIOUS
  <2>5. draft' = [draft EXCEPT !.sent = <<r.v>>, !.saved = sv, !.acked = a]
    BY <1>5, <2>1, <2>3, <2>4 DEF DraftBack
  <2>6. draft'.latest = draft.latest /\ draft'.timer = draft.timer /\ draft'.saved = sv /\ draft'.acked = a
    BY <2>5, Unpacked DEF Drafts
  <2>7. UNCHANGED <<paper, page, used, owed, lost>>
    BY <1>5 DEF DraftBack
  <2>8. PICK x : /\ net' = [net EXCEPT !["draft"] = x] /\ Typed(x)
                 /\ \/ x = NoRequest
                    \/ x = Request("draft", page.q, draft.latest[1]) /\ draft.latest # << >>
    <3>1. PICK x : /\ net' = [net EXCEPT !["draft"] = x]
                   /\ \/ x = NoRequest
                      \/ x = Request("draft", page.q, draft.latest[1]) /\ draft.latest # << >>
      BY <1>5 DEF DraftBack
    <3>2. Typed(x)
      BY <3>1, RequestType, Counts
    <3> QED
      BY <3>1, <3>2
  <2>9. net'["draft"] = x /\ \A y \in Purposes \ {"draft"} : net'[y] = net[y]
    BY <1>0, <2>8, NetChanges, Unpacked
  <2>10. ASSUME Unsettled
         PROVE  /\ sv <= used.clips
                /\ OnLive =>
                     /\ a.note <= paper.row.note
                     /\ page.kept => paper.row.clip = a.clip
                     /\ page.clip # 0 /\ sv = page.clip =>
                          paper.row.clip = page.clip /\ draft.latest # << >> /\ ~Drops(draft.latest[1])
                     /\ ~Idle("lock") /\ net["lock"].reply = "none" /\ net["lock"].v.keep =>
                          IF page.clip # 0 THEN sv = page.clip /\ page.clip \in owed.held
                          ELSE page.kept /\ a.clip \in owed.held
    <3>1. Notes /\ Numbered /\ Clips
      BY <2>10 DEF WorkInv
    <3>2. /\ r.v.clip <= used.clips /\ (r.v.keep => r.v.clip = 0)
          /\ r.q # page.q /\ page.clip # 0 => r.v.clip # page.clip
      BY <2>1, <2>2, <3>1 DEF Numbered
    <3>3. sv <= used.clips
      BY <1>1, <2>3, <2>10, <3>2
    <3>4. ASSUME OnLive PROVE a.note <= paper.row.note
      <4>1. r.q = page.q /\ r.reply = "accepted" => r.v.note <= paper.row.note
        BY <2>1, <2>2, <3>1, <3>4 DEF Notes, Saving
      <4> QED
        BY <1>1, <2>4, <2>10, <3>4, <4>1 DEF Stored
    <3>5. ASSUME OnLive, page.kept PROVE paper.row.clip = a.clip /\ a.clip = draft.acked.clip
      <4>1. r.q = page.q => r.v.keep
        BY <2>1, <2>2, <3>1, <3>5 DEF Clips, Saving
      <4> QED
        BY <1>1, <2>4, <2>10, <3>5, <4>1 DEF Stored
    <3>6. ASSUME OnLive, page.clip # 0, sv = page.clip
          PROVE  paper.row.clip = page.clip /\ draft.latest # << >> /\ ~Drops(draft.latest[1])
      <4>1. CASE draft.saved = page.clip
        BY <1>1, <2>10, <3>6, <4>1
      <4>2. CASE draft.saved # page.clip
        <5>1. r.v.clip = page.clip /\ r.reply = "accepted"
          BY <2>3, <3>6, <4>2 DEF ClipSaved
        <5>2. r.q = page.q
          BY <3>2, <3>6, <5>1
        <5> QED
          BY <2>1, <2>2, <3>1, <3>6, <5>1, <5>2 DEF Clips, Saving
      <4> QED
        BY <4>1, <4>2
    <3>7. ASSUME OnLive, page.clip # 0, draft.saved = page.clip PROVE sv = page.clip
      <4>1. r.v.keep \/ r.v.clip = page.clip
        BY <2>1, <2>2, <3>1, <3>7 DEF Clips, Drops
      <4> QED
        BY <2>3, <3>2, <3>7, <4>1 DEF ClipSaved
    <3>8. ASSUME OnLive, ~Idle("lock"), net["lock"].reply = "none", net["lock"].v.keep
          PROVE  IF page.clip # 0 THEN sv = page.clip /\ page.clip \in owed.held
                 ELSE page.kept /\ a.clip \in owed.held
      <4>1. IF page.clip # 0 THEN draft.saved = page.clip /\ page.clip \in owed.held
            ELSE page.kept /\ draft.acked.clip \in owed.held
        BY <1>1, <2>10, <3>8
      <4> QED
        BY <3>5, <3>7, <3>8, <4>1
    <3> QED
      BY <3>3, <3>4, <3>5, <3>6, <3>8
  <2> QED
    BY <2>2, <2>6, <2>7, <2>8, <2>9, <2>10, RequestFields, SlotWorks
<1> QED
  BY <1>2, <1>3, <1>4, <1>5

LEMMA RecorderWorks ==
  ASSUME ShownInv, ShownInv', WorkInv, Record \/ PressStop \/ StopFails \/ Flush
  PROVE  WorkInv'
<1>0. used.clips >= used.clips
  BY Counts
<1>1. CASE Record
  <2>1. /\ page' = [page EXCEPT !.rec = "live", !.clip = 0, !.kept = FALSE, !.enabled = TRUE]
        /\ Answering /\ page.stop = "no" /\ page.lock = "no" /\ UNCHANGED <<paper, draft, net, used, owed, lost>>
    BY <1>1 DEF Record
  <2>2. /\ page'.at = page.at /\ page'.q = page.q /\ page'.phase = page.phase /\ page'.note = page.note
        /\ page'.clip = 0 /\ page'.kept = FALSE /\ page'.stop = "no" /\ page'.lock = "no"
    BY <2>1, Unpacked DEF Pages
  <2>3. Purposeful' /\ Placed' /\ Idle("lock") /\ Idle("lock")'
    BY <2>1, <2>2 DEF WorkInv, Purposeful, Placed, Idle, InHall, Answering
  <2>4. ASSUME Unsettled' PROVE Ordered' /\ Fresh' /\ Notes' /\ Numbered' /\ Clips'
    <3>1. Unsettled /\ Ordered /\ Fresh /\ Notes /\ Numbered /\ Clips
      BY <2>1, <2>4 DEF Unsettled, WorkInv
    <3>2. (OnLive' <=> OnLive) /\ (InHall' <=> InHall)
      BY <2>1, <2>2 DEF OnLive, InHall
    <3>3. Ordered' /\ Fresh' /\ Notes'
      BY <2>1, <2>2, <3>1, <3>2 DEF Ordered, Fresh, Screened, Notes, Saving, Idle
    <3>4. Numbered'
      BY <2>1, <2>2, <3>1, Counts DEF Numbered, Idle
    <3>5. Clips'
      BY <2>2, <2>3 DEF Clips
    <3> QED
      BY <3>3, <3>4, <3>5
  <2> QED
    BY <2>1, <2>3, <2>4 DEF WorkInv
<1>2. CASE PressStop
  <2>1. /\ page' = [page EXCEPT !.stop = "record"] /\ Answering /\ page.lock = "no"
        /\ UNCHANGED <<paper, draft, net, used, owed, lost>>
    BY <1>2 DEF PressStop
  <2>2. /\ page'.at = page.at /\ page'.q = page.q /\ page'.phase = page.phase /\ page'.note = page.note
        /\ page'.clip = page.clip /\ page'.kept = page.kept /\ page'.lock = page.lock /\ page'.rec = page.rec
    BY <2>1, Unpacked DEF Pages
  <2>3. Purposeful' /\ Placed'
    BY <2>1, <2>2 DEF WorkInv, Purposeful, Placed, Idle, InHall, Answering
  <2> QED
    BY <1>0, <2>1, <2>2, <2>3, QuietWorks
<1>3. CASE StopFails
  <2>1. PICK b \in BOOLEAN : b = (page.stop = "lock" /\ page.enabled)
    OBVIOUS
  <2>2. /\ page' = [page EXCEPT !.rec = "chunks", !.stop = "no", !.lock = "no", !.enabled = b]
        /\ page.stop # "no" /\ page.rec = "live" /\ UNCHANGED <<paper, draft, net, owed, lost>>
    BY <1>3, <2>1 DEF StopFails
  <2>3. /\ page'.at = page.at /\ page'.q = page.q /\ page'.phase = page.phase /\ page'.note = page.note
        /\ page'.clip = page.clip /\ page'.kept = page.kept /\ page'.lock = "no" /\ page'.rec = "chunks"
        /\ page'.stop = "no"
    BY <2>2, Unpacked DEF Pages
  <2>4. Purposeful' /\ Placed'
    BY <2>2, <2>3 DEF WorkInv, Purposeful, Placed, Idle, InHall, Answering
  <2>5. used'.clips = used.clips
    BY <1>3, Unpacked DEF StopFails
  <2> QED
    BY <1>0, <2>2, <2>3, <2>4, <2>5, QuietWorks
<1>4. CASE Flush
  <2>1. /\ page' = [page EXCEPT !.flush = FALSE] /\ InHall /\ page.lock = "sent"
        /\ draft' = Flushed \/ draft' = [draft EXCEPT !.timer = FALSE]
        /\ UNCHANGED <<paper, net, used, owed, lost>>
    BY <1>4 DEF Flush
  <2>2. /\ page'.at = page.at /\ page'.q = page.q /\ page'.phase = page.phase /\ page'.note = page.note
        /\ page'.clip = page.clip /\ page'.kept = page.kept /\ page'.lock = page.lock /\ page'.rec = page.rec
        /\ page'.stop = page.stop
    BY <2>1, Unpacked DEF Pages
  <2>3. draft'.latest = draft.latest /\ draft'.saved = draft.saved /\ draft'.acked = draft.acked
    <3>1. CASE draft' = Flushed
      BY <3>1, FlushedType
    <3>2. CASE draft' = [draft EXCEPT !.timer = FALSE]
      BY <3>2, Unpacked DEF Drafts
    <3> QED
      BY <2>1, <3>1, <3>2
  <2>4. Purposeful' /\ Placed'
    BY <2>1, <2>2 DEF WorkInv, Purposeful, Placed, Idle, InHall, Answering
  <2> QED
    BY <1>0, <2>1, <2>2, <2>3, <2>4, QuietWorks
<1> QED
  BY <1>1, <1>2, <1>3, <1>4

LEMMA StopWorks ==
  ASSUME ShownInv, ShownInv', WorkInv, StopDone \/ LockStopped
  PROVE  WorkInv'
<1>0. page.stop # "no" => Answering /\ page.lock \in {"no", "stopping"}
  BY Unpacked DEF WorkInv, Placed, Answering, InHall, Pages, Phases
<1>1. CASE StopDone
  <2>1. PICK p \in Captured(page) :
          LET q == [p EXCEPT !.stop = "no", !.enabled = Enough(p)] IN
          /\ page' = IF page.lock = "stopping" THEN [q EXCEPT !.stop = "lock"] ELSE q
          /\ draft' = Queued(OnScreen(q))
          /\ used' = Taken(p)
    BY <1>1 DEF StopDone
  <2>2. /\ p \in Pages /\ p.q = page.q /\ p.at = page.at /\ p.phase = page.phase /\ p.note = page.note
        /\ p.kept = page.kept /\ p.lock = page.lock /\ p.rec = "off" /\ used'.clips >= used.clips
        /\ Unsettled =>
             /\ p.clip <= used'.clips /\ (p.kept => p.clip = 0)
             /\ \/ p.clip = page.clip
                \/ /\ p.clip # 0 /\ ~p.kept /\ draft.saved # p.clip
                   /\ ~Idle("draft") => net["draft"].v.clip # p.clip
    BY <2>1, CapturedWorks
  <2>3. PICK b \in BOOLEAN : b = Enough(p)
    BY <2>2 DEF Enough, Pages
  <2>4. PICK q : q = [p EXCEPT !.stop = "no", !.enabled = b]
    OBVIOUS
  <2>5. /\ q \in Pages /\ q.q = p.q /\ q.at = p.at /\ q.phase = p.phase /\ q.note = p.note
        /\ q.clip = p.clip /\ q.kept = p.kept /\ q.lock = p.lock /\ q.rec = "off" /\ q.stop = "no"
    BY <2>2, <2>4 DEF Pages
  <2>6. /\ page' = (IF page.lock = "stopping" THEN [q EXCEPT !.stop = "lock"] ELSE q)
        /\ draft' = Queued(OnScreen(q))
    BY <2>1, <2>3, <2>4
  <2>7. /\ page'.at = page.at /\ page'.q = page.q /\ page'.phase = page.phase /\ page'.note = q.note
        /\ page'.clip = q.clip /\ page'.kept = q.kept /\ page'.rec = q.rec /\ page'.lock = page.lock
        /\ page'.stop \in {"no", "lock"}
    BY <2>2, <2>5, <2>6 DEF Pages
  <2>8. Answering /\ page.lock \in {"no", "stopping"} /\ Idle("lock")
    BY <1>0, <1>1 DEF StopDone, WorkInv, Placed
  <2>9. q.note >= page.note
    BY <2>2, <2>5, Counts
  <2>10. UNCHANGED <<paper, net, owed, lost>>
    BY <1>1 DEF StopDone
  <2> QED
    BY <2>2, <2>5, <2>6, <2>7, <2>8, <2>9, <2>10, QueueWorks
<1>2. CASE LockStopped
  <2>1. PICK p \in Captured(page) :
          /\ IF Enough(p) \/ page.timedOut
             THEN Locking(p)
             ELSE page' = [p EXCEPT !.lock = "no", !.stop = "no", !.enabled = FALSE] /\ UNCHANGED <<net, owed>>
          /\ used' = Taken(p)
    BY <1>2 DEF LockStopped
  <2>2. /\ p \in Pages /\ p.q = page.q /\ p.at = page.at /\ p.phase = page.phase /\ p.note = page.note
        /\ p.kept = page.kept /\ p.lock = page.lock /\ p.rec = "off" /\ used'.clips >= used.clips
        /\ Unsettled =>
             /\ p.clip <= used'.clips /\ (p.kept => p.clip = 0)
             /\ \/ p.clip = page.clip
                \/ /\ p.clip # 0 /\ ~p.kept /\ draft.saved # p.clip
                   /\ ~Idle("draft") => net["draft"].v.clip # p.clip
    BY <2>1, CapturedWorks
  <2>3. Answering /\ page.lock = "stopping" /\ UNCHANGED <<paper, draft, lost>>
    BY <1>0, <1>2 DEF LockStopped
  <2>4. CASE Locking(p)
    BY <2>2, <2>3, <2>4, LockingWorks
  <2>5. CASE /\ ~Enough(p) /\ page' = [p EXCEPT !.lock = "no", !.stop = "no", !.enabled = FALSE]
             /\ UNCHANGED <<net, owed>>
    <3>1. /\ page'.at = page.at /\ page'.q = page.q /\ page'.phase = page.phase /\ page'.note = page.note
          /\ page'.clip = p.clip /\ page'.kept = page.kept /\ page'.rec = "off" /\ page'.lock = "no"
          /\ page'.stop = "no"
      BY <2>2, <2>5 DEF Pages
    <3>2. p.clip = 0
      BY <2>5 DEF Enough
    <3>3. p.clip = page.clip
      <4>1. used.clips + 1 # 0
        BY Counts
      <4> QED
        BY <2>1, <3>2, <4>1, CapturedType
    <3>4. Purposeful' /\ Placed'
      BY <2>3, <2>5, <3>1 DEF WorkInv, Purposeful, Placed, Idle, InHall, Answering
    <3> QED
      BY <2>2, <2>3, <2>5, <3>1, <3>3, <3>4, QuietWorks
  <2> QED
    BY <2>1, <2>4, <2>5
<1> QED
  BY <1>1, <1>2

LEMMA ClocksWork ==
  ASSUME "hurry" \notin Trouble, ShownInv, ShownInv', WorkInv, ClockFires \/ PressLock \/ PressStart
  PROVE  WorkInv'
<1>0. {"enter", "submit", "draft", "lock", "load", "press", "timer"} = Purposes
      /\ Painters = {"enter", "lock", "load", "press", "timer"}
  BY DEF Purposes, Painters
<1>01. used.clips >= used.clips
  BY Counts
<1>02. UNCHANGED <<paper, draft, used, lost>>
  BY DEF ClockFires, PressLock, PressStart
<1>1. UNCHANGED <<paper, draft, used, lost>> /\ used.clips >= used.clips /\ used'.clips >= used.clips
  BY <1>01, <1>02
<1>2. ASSUME NEW s \in {"press", "timer"}, net' = [net EXCEPT ![s] = PhaseOf], InHall, page.phase = "review",
             Idle("press"), Idle("timer"), owed' = owed, page'.at = page.at, page'.q = page.q,
             page'.phase = page.phase, page'.note = page.note, page'.clip = page.clip, page'.kept = page.kept,
             page'.lock = page.lock, page'.stop = page.stop, page'.rec = page.rec
      PROVE  WorkInv'
  <2>1. Typed(PhaseOf) /\ PhaseOf.kind = "phase" /\ PhaseOf.reply = "none"
    BY RequestType, RequestFields, ViewType, Counts DEF PhaseOf
  <2>2. net'[s] = PhaseOf /\ \A x \in Purposes \ {s} : net'[x] = net[x]
    <3>1. PICK r : r = PhaseOf /\ Typed(r) /\ net' = [net EXCEPT ![s] = r]
      BY <1>2, <2>1
    <3>2. s \in Purposes /\ NetTyped
      BY <1>0, Unpacked
    <3> QED
      BY <3>1, <3>2, NetChanges
  <2>3. Purposeful'
    BY <1>0, <1>2, <2>1, <2>2 DEF WorkInv, Purposeful
  <2>4. Placed'
    BY <1>0, <1>1, <1>2, <2>1, <2>2 DEF WorkInv, Placed, Idle, InHall, Answering
  <2> QED
    BY <1>0, <1>1, <1>2, <2>1, <2>2, <2>3, <2>4, QuietWorks
<1>3. CASE PressStart
  <2>1. /\ InHall /\ page.phase = "review" /\ Idle("press") /\ Idle("timer") /\ owed' = owed
        /\ page' = [page EXCEPT !.enabled = FALSE] /\ net' = [net EXCEPT !["press"] = PhaseOf]
    BY <1>3 DEF PressStart
  <2>2. /\ page'.at = page.at /\ page'.q = page.q /\ page'.phase = page.phase /\ page'.note = page.note
        /\ page'.clip = page.clip /\ page'.kept = page.kept /\ page'.lock = page.lock /\ page'.stop = page.stop
        /\ page'.rec = page.rec
    BY <2>1, Unpacked DEF Pages
  <2> QED
    BY <1>2, <2>1, <2>2
<1>4. CASE PressLock
  <2>1. Answering /\ Click(page, page.over) /\ page.over \in BOOLEAN /\ page \in Pages
    BY <1>4, Unpacked DEF PressLock, Pages
  <2> QED
    BY <1>1, <2>1, ClickWorks
<1>5. CASE ClockFires
  <2>1. PICK p : p = [page EXCEPT !.clock = "off", !.over = TRUE, !.enabled = TRUE]
    OBVIOUS
  <2>2. /\ p \in Pages /\ p.at = page.at /\ p.q = page.q /\ p.phase = page.phase /\ p.note = page.note
        /\ p.kept = page.kept /\ p.clip = page.clip /\ p.rec = page.rec /\ p.lock = page.lock /\ p.stop = page.stop
    BY <2>1, Unpacked DEF Pages
  <2>3. CASE page.phase = "answer" /\ Click(p, TRUE)
    <3>1. Answering
      BY <1>5, <2>3 DEF ClockFires, Answering
    <3> QED
      BY <1>1, <2>2, <2>3, <3>1, ClickWorks
  <2>4. CASE /\ page.phase = "review" /\ Idle("timer") /\ Idle("press")
             /\ page' = [page EXCEPT !.clock = "off", !.over = TRUE] /\ net' = [net EXCEPT !["timer"] = PhaseOf]
             /\ owed' = owed
    <3>1. /\ page'.at = page.at /\ page'.q = page.q /\ page'.phase = page.phase /\ page'.note = page.note
          /\ page'.clip = page.clip /\ page'.kept = page.kept /\ page'.lock = page.lock /\ page'.stop = page.stop
          /\ page'.rec = page.rec
      BY <2>4, Unpacked DEF Pages
    <3> QED
      BY <1>2, <1>5, <2>4, <3>1 DEF ClockFires
  <2>5. CASE page' = [page EXCEPT !.clock = "ticking", !.over = FALSE, !.enabled = TRUE] /\ UNCHANGED <<net, owed>>
    <3>1. /\ page'.at = page.at /\ page'.q = page.q /\ page'.phase = page.phase /\ page'.note = page.note
          /\ page'.clip = page.clip /\ page'.kept = page.kept /\ page'.lock = page.lock /\ page'.stop = page.stop
          /\ page'.rec = page.rec
      BY <2>5, Unpacked DEF Pages
    <3>2. Purposeful' /\ Placed'
      BY <1>1, <2>5, <3>1 DEF WorkInv, Purposeful, Placed, Idle, InHall, Answering
    <3> QED
      BY <1>1, <2>5, <3>1, <3>2, QuietWorks
  <2> QED
    BY <1>5, <2>1, <2>3, <2>4, <2>5 DEF ClockFires
<1> QED
  BY <1>3, <1>4, <1>5

LEMMA FailingWorks ==
  ASSUME ShownInv, ShownInv', WorkInv, NEW s \in Purposes, RequestFails(s)
  PROVE  WorkInv'
<1>0. {"enter", "submit", "draft", "lock", "load", "press", "timer"} = Purposes
      /\ Painters = {"enter", "lock", "load", "press", "timer"}
  BY DEF Purposes, Painters
<1>1. ~Idle(s) /\ s # "enter" /\ UNCHANGED <<paper, owed, lost>> /\ used'.clips = used.clips /\ used.clips >= used.clips
  BY Counts, Unpacked DEF RequestFails
<1>2. PICK r \in {NoRequest, Fetch} :
        /\ net' = [net EXCEPT ![s] = r]
        /\ r = Fetch => net[s].kind = "phase"
  <2>1. net' = [net EXCEPT ![s] = IF net[s].kind = "phase" THEN Fetch ELSE NoRequest]
    BY DEF RequestFails
  <2>2. Fetch # NoRequest
    BY RequestFields
  <2>3. CASE net[s].kind = "phase"
    BY <2>1, <2>3
  <2>4. CASE net[s].kind # "phase"
    BY <2>1, <2>2, <2>4
  <2> QED
    BY <2>3, <2>4
<1>3. net'[s] = r /\ \A x \in Purposes \ {s} : net'[x] = net[x]
  BY <1>2, RequestType, NetChanges, Unpacked
<1>4. draft'.latest = draft.latest /\ draft'.saved = draft.saved /\ draft'.acked = draft.acked
      /\ (s # "lock" => draft' = draft)
  BY FlushedType DEF RequestFails
<1>5. Purposeful'
  BY <1>0, <1>2, <1>3, RequestFields DEF WorkInv, Purposeful
<1>6. CASE s = "submit"
  <2>1. page' = View("problem")
    BY <1>6 DEF RequestFails
  <2>2. r = NoRequest /\ page.at = "handover"
    BY <1>0, <1>1, <1>2, <1>6 DEF WorkInv, Purposeful, Placed
  <2>3. \A x \in Purposes : net'[x].kind = "none"
    BY <1>0, <1>3, <1>6, <2>2, RequestFields DEF WorkInv, Placed, Idle, InHall, Answering
  <2> QED
    BY <1>0, <1>1, <1>4, <1>6, <2>1, <2>3, WorkAway
<1>7. CASE s # "submit"
  <2>1. /\ page'.at = page.at /\ page'.q = page.q /\ page'.phase = page.phase /\ page'.note = page.note
        /\ page'.clip = page.clip /\ page'.kept = page.kept /\ page'.rec = page.rec /\ page'.stop = page.stop
        /\ page'.lock = page.lock \/ page'.lock = "no"
        /\ s \in {"lock", "load"} => page'.lock = "no"
        /\ s \notin {"lock", "load"} => page'.lock = page.lock
    <3>1. s = "load" => page.lock \in {"checking", "loading"}
      BY <1>1 DEF WorkInv, Placed
    <3>2. CASE page' = Rearmed(page) /\ s \in {"lock", "load"}
      BY <3>2, Unpacked DEF Rearmed, Pages
    <3>3. CASE page' = [page EXCEPT !.lock = "no", !.enabled = TRUE] /\ s = "load"
      BY <3>3, Unpacked DEF Pages
    <3>4. CASE page' = [page EXCEPT !.enabled = TRUE] /\ s = "press"
      BY <3>4, Unpacked DEF Pages
    <3>5. CASE page' = [page EXCEPT !.clock = "repaint"] /\ s = "timer"
      BY <3>5, Unpacked DEF Pages
    <3>6. CASE page' = page /\ s \notin {"lock", "load"}
      BY <3>6
    <3> QED
      BY <1>7, <3>1, <3>2, <3>3, <3>4, <3>5, <3>6 DEF RequestFails
  <2>2. \A x \in Purposes : net[x].kind = "none" => net'[x].kind = "none"
    BY <1>1, <1>3 DEF Idle
  <2>3. s \in {"lock", "load"} => /\ Answering /\ net'["lock"].kind = "none" /\ net'["load"].kind = "none"
                                  /\ page.lock \in {"sent", "checking", "loading"}
    BY <1>0, <1>1, <1>2, <1>3, RequestFields DEF WorkInv, Placed, Purposeful, Idle
  <2>4. Placed'
    <3>1. CASE s \in {"lock", "load"}
      <4>1. /\ net["enter"].kind = "none" /\ net["press"].kind = "none" /\ net["timer"].kind = "none"
            /\ net["submit"].kind = "none" /\ page.stop = "no"
        BY <2>3, <3>1 DEF WorkInv, Placed, Idle, InHall, Answering
      <4>2. /\ net'["enter"].kind = "none" /\ net'["press"].kind = "none" /\ net'["timer"].kind = "none"
            /\ net'["submit"].kind = "none"
        BY <1>0, <2>2, <4>1
      <4>3. page.at = "hall" /\ page.phase = "answer"
        BY <2>3, <3>1 DEF Answering, InHall
      <4>4. page'.rec # "off" => page'.clip = 0 /\ ~page'.kept
        BY <2>1 DEF WorkInv, Placed
      <4> QED
        BY <2>1, <2>3, <3>1, <4>1, <4>2, <4>3, <4>4 DEF Placed, Idle, InHall, Answering
    <3>2. CASE s \notin {"lock", "load"}
      BY <1>0, <1>3, <1>4, <2>1, <2>2, <3>2 DEF WorkInv, Placed, Idle, InHall, Answering
    <3> QED
      BY <3>1, <3>2
  <2>5. net'["draft"] = net["draft"] \/ net'["draft"] = NoRequest
    BY <1>0, <1>2, <1>3, RequestFields DEF WorkInv, Purposeful
  <2>6. \A x \in Painters : \/ net'[x] = net[x] \/ net'[x] = NoRequest
                            \/ x # "lock" /\ net'[x].reply = "none"
    BY <1>0, <1>2, <1>3, RequestFields DEF WorkInv, Purposeful
  <2> QED
    BY <1>1, <1>4, <1>5, <2>1, <2>4, <2>5, <2>6, QuietWorks
<1> QED
  BY <1>6, <1>7

LEMMA WorkStarts == ExamPageInit => WorkInv
<1> SUFFICES ASSUME ExamPageInit PROVE WorkInv
  OBVIOUS
<1>1. "enter" \in Purposes /\ {"enter", "submit", "draft", "lock", "load", "press", "timer"} = Purposes
  BY DEF Purposes
<1>2. net["enter"] = Fetch /\ \A x \in Purposes \ {"enter"} : net[x] = NoRequest
  BY <1>1 DEF ExamPageInit
<1>3. /\ page.at = "entering" /\ page.q = 0 /\ page.phase = "answer" /\ page.clip = 0 /\ ~page.kept
      /\ page.rec = "off" /\ page.stop = "no" /\ page.lock = "no"
      /\ draft.latest = << >> /\ draft.saved = 0 /\ ~draft.timer
  BY ViewFields, FreshFields DEF ExamPageInit
<1>4. Purposeful /\ Placed
  BY <1>1, <1>2, <1>3, RequestFields DEF Purposeful, Placed, Idle, InHall, Answering
<1>5. ~InHall /\ owed.q = 0 /\ paper.index = 1 /\ used.clips = 0 /\ lost = {}
  BY <1>3 DEF ExamPageInit, InHall
<1>6. \A x \in Purposes : ~Screened(x)
  BY <1>2, RequestFields DEF Screened, Idle
<1>7. Ordered /\ Notes /\ Numbered /\ Clips
  BY <1>1, <1>2, <1>3, <1>5, RequestFields DEF Ordered, Notes, Numbered, Clips, OnLive, Idle
<1>8. Fresh
  BY <1>1, <1>6 DEF Fresh, Painters
<1> QED
  BY <1>4, <1>5, <1>7, <1>8 DEF WorkInv

LEMMA WorkStays ==
  "hurry" \notin Trouble /\ ShownInv /\ WorkInv /\ [ExamPageNext]_examPageVars => WorkInv'
<1> SUFFICES ASSUME "hurry" \notin Trouble, ShownInv, WorkInv, [ExamPageNext]_examPageVars PROVE WorkInv'
  OBVIOUS
<1>0. ShownInv'
  BY ShownStays
<1>1. CASE UNCHANGED examPageVars
  BY <1>1 DEF examPageVars, WorkInv, Unsettled, Purposeful, Placed, Ordered, Fresh, Screened, Notes, Numbered,
              Clips, Saving, Drops, OnLive, InHall, Answering, Idle, ClipKept
<1>2. ASSUME NEW s \in Purposes, Serve(s) \/ Handle(s) \/ RequestFails(s) PROVE WorkInv'
  <2>1. CASE Handle(s)
    <3>1. CASE Submitted
      BY <1>0, <3>1, LeavingWorks
    <3>2. CASE DraftBack \/ DraftRefused
      BY <1>0, <3>2, AnswersWork
    <3>3. CASE Enter \/ LockBack \/ (s \in {"press", "timer", "load"} /\ FetchBack(s))
                 \/ (s \in {"press", "timer"} /\ PhaseBack(s))
      BY <1>0, <3>3, PaintingWorks
    <3> QED
      BY <2>1, <3>1, <3>2, <3>3 DEF Handle
  <2>2. CASE Serve(s)
    BY <1>0, <2>2, DraftWorks, LockWorks, ServingWorks DEF Serve
  <2> QED
    BY <1>0, <1>2, <2>1, <2>2, FailingWorks
<1>3. CASE Tick \/ Press \/ TryAgain \/ Flush
  BY <1>0, <1>3, StopWorks, ClocksWork, AnswersWork, LeavingWorks, RecorderWorks DEF Tick, Press
<1>4. CASE Edit \/ Record \/ PressStop \/ WindowCloses \/ ExamClockEnds \/ StopFails \/ Reload
  <2>1. "lock" \in Purposes
    BY DEF Purposes
  <2> QED
    BY <1>0, <1>4, <2>1, AnswersWork, RecorderWorks, LeavingWorks, ServingWorks
<1> QED
  BY <1>1, <1>2, <1>3, <1>4 DEF ExamPageNext

\* However requests and replies are lost, recorders fail and the page is reloaded, a
\* locked answer is no older than what had been acknowledged, and one locked in time
\* has the recording the candidate had then - unless the review may run out while
\* "Start answering" is under way (candidate.js:595-625 and 970-984).
THEOREM WorkIsKept ==
  ASSUME "hurry" \notin Trouble
  PROVE  ExamPageSpec => []LockKeepsWork
<1>1. ExamPageInit => ShownInv /\ WorkInv
  BY ShownStarts, WorkStarts
<1>2. ShownInv /\ WorkInv /\ [ExamPageNext]_examPageVars => (ShownInv /\ WorkInv)'
  BY ShownStays, WorkStays
<1>3. WorkInv => LockKeepsWork
  BY DEF WorkInv, LockKeepsWork
<1> QED
  BY <1>1, <1>2, <1>3, PTL DEF ExamPageSpec

----------------------------------------------------------------------------
(* The binding to one browser *)

USE DeviceAssumption

\* What a request may look like, and what being let through leaves of it.
LEMMA RequestTypes ==
  /\ NotAsking \in Requests /\ NotAsking.step = "idle" /\ ~NotAsking.live
  /\ \A op \in {"open", "draft", "work", "submit"}, browser \in Browsers \cup {Nobody}, ip \in Networks,
        takeover \in BOOLEAN :
       /\ Asking(op, browser, ip, takeover) \in Requests
       /\ Asking(op, browser, ip, takeover).step = "bind"
       /\ Asking(op, browser, ip, takeover).browser = browser
<1>1. (CHOOSE n \in Networks : TRUE) \in Networks
  BY DeviceAssumption
<1> QED
  BY <1>1 DEF NotAsking, Asking, Requests

LEMMA AdmittedType ==
  ASSUME TypeOK, NEW w \in Requests
  PROVE  /\ Admitted(w) \in Requests /\ Admitted(w).step = "act"
         /\ Admitted(w).browser = w.browser /\ Admitted(w).op = w.op
         /\ Admitted(w).since = trail.switch
         /\ (Admitted(w).live <=> w.browser # Nobody /\ row.opened /\ row.status = "in_progress")
<1>1. /\ trail.switch \in Nat /\ w.op \in {"open", "draft", "work", "submit"}
      /\ w.browser \in Browsers \cup {Nobody} /\ row.opened \in BOOLEAN
  BY DEF TypeOK, Rows, Requests
<1>2. PICK b \in BOOLEAN : b <=> w.browser # Nobody /\ row.opened /\ row.status = "in_progress"
  OBVIOUS
<1>3. Admitted(w) = [NotAsking EXCEPT !.step = "act", !.op = w.op, !.browser = w.browser,
                                      !.since = trail.switch, !.live = b]
  BY <1>2 DEF Admitted
<1>4. Admitted(w) \in Requests /\ Admitted(w).step = "act" /\ Admitted(w).browser = w.browser
      /\ Admitted(w).op = w.op /\ Admitted(w).since = trail.switch /\ (Admitted(w).live <=> b)
  BY <1>1, <1>3, RequestTypes DEF Requests
<1> QED
  BY <1>2, <1>4

LEMMA InitTypeOK == Init => TypeOK
  BY RequestTypes DEF Init, TypeOK, Rows

\* One step of bindExamDevice, seen from the request that takes it.
LEMMA ArriveSteps ==
  ASSUME TypeOK, NEW i \in Instances, Arrive(i)
  PROVE  \E w \in Requests :
           /\ w.step = "bind"
           /\ \/ NothingToBind(w) /\ req' = [req EXCEPT ![i] = Admitted(w)]
              \/ ~NothingToBind(w) /\ ~BoundElsewhere(w) /\ req' = [req EXCEPT ![i] = w]
           /\ UNCHANGED <<row, trail>>
<1>1. PICK op \in {"open", "draft", "work", "submit"}, browser \in Browsers \cup {Nobody}, ip \in Networks,
           takeover \in BOOLEAN :
         LET w == Asking(op, browser, ip, takeover) IN
         \/ NothingToBind(w) /\ req' = [req EXCEPT ![i] = Admitted(w)]
         \/ ~NothingToBind(w) /\ ~BoundElsewhere(w) /\ req' = [req EXCEPT ![i] = w]
  BY DEF Arrive
<1>2. Asking(op, browser, ip, takeover) \in Requests /\ Asking(op, browser, ip, takeover).step = "bind"
  BY RequestTypes
<1>3. UNCHANGED <<row, trail>>
  BY DEF Arrive
<1>4. PICK w \in Requests : w = Asking(op, browser, ip, takeover)
  BY <1>2
<1> QED
  BY <1>1, <1>2, <1>3, <1>4

LEMMA BindEffect ==
  ASSUME TypeOK, NEW i \in Instances, Bind(i)
  PROVE  /\ req[i] \in Requests /\ req[i].step = "bind"
         /\ row' \in Rows /\ row'.status = row.status /\ row'.opened = row.opened
         /\ IsOpen => row'.session = req[i].browser
         /\ ~IsOpen => row' = row
         /\ trail' \in [switch: Nat, address: Nat] /\ trail.switch <= trail'.switch
         /\ row'.session # row.session /\ Logs => trail'.switch = trail.switch + 1
         /\ req'[i] \in Requests /\ req' = [req EXCEPT ![i] = req'[i]]
         /\ req'[i].step = "act" /\ req'[i].browser = req[i].browser
         /\ req'[i].since = trail'.switch
         /\ (req'[i].live <=> req[i].browser # Nobody /\ row.opened /\ row.status = "in_progress")
<1>1. req[i] \in Requests /\ row \in Rows /\ req \in [Instances -> Requests]
  BY DEF TypeOK
<1>2. trail.switch \in Nat /\ trail.address \in Nat
  BY DEF TypeOK
<1>3. req[i].step = "bind" /\ req[i].browser \in Browsers \cup {Nobody} /\ req[i].ip \in Networks
  BY <1>1 DEF Bind, Requests
<1>4. /\ row' \in Rows /\ row'.status = row.status /\ row'.opened = row.opened
      /\ IsOpen => row'.session = req[i].browser
      /\ ~IsOpen => row' = row
      /\ row'.session # row.session => IsOpen /\ Moves(req[i])
  BY <1>1, <1>3 DEF Bind, Rows, Moves, IsOpen
<1>5. PICK a, b \in {0, 1} : /\ trail' = [switch |-> trail.switch + a, address |-> trail.address + b]
                             /\ IsOpen /\ Logs /\ Moves(req[i]) => a = 1
  <2> DEFINE rebinds == IsOpen /\ (Moves(req[i]) \/ row.ip # req[i].ip)
             a == IF rebinds /\ Logs /\ Moves(req[i]) THEN 1 ELSE 0
             b == IF rebinds /\ Logs /\ ~Moves(req[i]) THEN 1 ELSE 0
  <2>1. a \in {0, 1} /\ b \in {0, 1} /\ (IsOpen /\ Logs /\ Moves(req[i]) => a = 1)
    OBVIOUS
  <2>2. trail' = [switch |-> trail.switch + a, address |-> trail.address + b]
    BY DEF Bind
  <2> QED
    BY <2>1, <2>2
<1>6. /\ trail' \in [switch: Nat, address: Nat] /\ trail'.switch = trail.switch + a
      /\ trail'.switch \in Nat /\ trail.switch <= trail'.switch
  BY <1>2, <1>5
<1>7. row'.session # row.session /\ Logs => trail'.switch = trail.switch + 1
  BY <1>4, <1>5, <1>6
<1>8. req' = [req EXCEPT ![i] = [Admitted(req[i]) EXCEPT !.since = trail'.switch]]
  BY DEF Bind
<1>9. req'[i] = [Admitted(req[i]) EXCEPT !.since = trail'.switch]
  BY <1>1, <1>8
<1>10. /\ req'[i] \in Requests /\ req'[i].step = "act" /\ req'[i].browser = req[i].browser
       /\ req'[i].since = trail'.switch
       /\ (req'[i].live <=> req[i].browser # Nobody /\ row.opened /\ row.status = "in_progress")
  <2>1. /\ Admitted(req[i]) \in Requests /\ Admitted(req[i]).step = "act"
        /\ Admitted(req[i]).browser = req[i].browser
        /\ (Admitted(req[i]).live <=> req[i].browser # Nobody /\ row.opened /\ row.status = "in_progress")
    BY <1>1, AdmittedType
  <2> QED
    BY <2>1, <1>6, <1>9 DEF Requests
<1> QED
  BY <1>1, <1>3, <1>4, <1>6, <1>7, <1>8, <1>9, <1>10

LEMMA ActEffect ==
  ASSUME TypeOK, NEW i \in Instances, Act(i)
  PROVE  /\ row' \in Rows /\ row'.session = row.session /\ UNCHANGED trail
         /\ row.opened => row'.opened
         /\ row'.status = "in_progress" => row.status \in {"assigned", "in_progress"}
         /\ row'.status = "assigned" => row.status = "assigned"
         /\ req' = [req EXCEPT ![i] = NotAsking]
<1>1. req[i] \in Requests /\ row \in Rows
  BY DEF TypeOK
<1>2. req[i].op \in {"open", "draft", "work", "submit"}
  BY <1>1 DEF Requests
<1>3. \/ row' = row
      \/ row' = [row EXCEPT !.status = "in_progress", !.opened = TRUE] /\ IsOpen
      \/ row' = [row EXCEPT !.status = "in_progress"] /\ IsOpen
      \/ row' = [row EXCEPT !.opened = TRUE]
      \/ row' = [row EXCEPT !.status = "submitted"]
  BY <1>1, <1>2 DEF Act, Seeded, Rows
<1>4. UNCHANGED trail /\ req' = [req EXCEPT ![i] = NotAsking]
  BY DEF Act
<1> QED
  BY <1>1, <1>3, <1>4 DEF Rows, IsOpen

LEMMA NextTypeOK == TypeOK /\ [Next]_vars => TypeOK'
<1> SUFFICES ASSUME TypeOK, [Next]_vars PROVE TypeOK'
  OBVIOUS
<1>1. ASSUME NEW i \in Instances, Arrive(i) PROVE TypeOK'
  <2>1. PICK w \in Requests : /\ req' \in {[req EXCEPT ![i] = Admitted(w)], [req EXCEPT ![i] = w]}
                              /\ UNCHANGED <<row, trail>>
    BY <1>1, ArriveSteps
  <2>2. Admitted(w) \in Requests
    BY AdmittedType
  <2> QED
    BY <2>1, <2>2 DEF TypeOK
<1>2. ASSUME NEW i \in Instances, Bind(i) PROVE TypeOK'
  <2>1. row' \in Rows /\ trail' \in [switch: Nat, address: Nat]
        /\ req'[i] \in Requests /\ req' = [req EXCEPT ![i] = req'[i]]
    BY <1>2, BindEffect
  <2> QED
    BY <2>1 DEF TypeOK
<1>3. ASSUME NEW i \in Instances, Act(i) PROVE TypeOK'
  BY <1>3, ActEffect, RequestTypes DEF TypeOK
<1>4. ASSUME NEW i \in Instances, Crash(i) PROVE TypeOK'
  BY <1>4, RequestTypes DEF Crash, TypeOK
<1>5. CASE UNCHANGED vars
  BY <1>5 DEF vars, TypeOK
<1> QED
  BY <1>1, <1>2, <1>3, <1>4, <1>5 DEF Next

\* Every variable stays in its type, for every number of instances.
THEOREM DeviceTypes == Spec => []TypeOK
  BY InitTypeOK, NextTypeOK, PTL DEF Spec

----------------------------------------------------------------------------
(* Any number of instances *)

\* A binding request names its browser.
BindersNamed == \A i \in Instances : req[i].step = "bind" => req[i].browser # Nobody

LEMMA NextBindersNamed == TypeOK /\ BindersNamed /\ [Next]_vars => BindersNamed'
<1> SUFFICES ASSUME TypeOK, BindersNamed, [Next]_vars PROVE BindersNamed'
  OBVIOUS
<1>1. req \in [Instances -> Requests]
  BY DEF TypeOK
<1>2. ASSUME NEW i \in Instances, Arrive(i) PROVE BindersNamed'
  <2>1. PICK w \in Requests :
          \/ req' = [req EXCEPT ![i] = Admitted(w)]
          \/ ~NothingToBind(w) /\ req' = [req EXCEPT ![i] = w]
    BY <1>2, ArriveSteps
  <2>2. Admitted(w).step = "act"
    BY AdmittedType
  <2>3. ~NothingToBind(w) => w.browser # Nobody
    BY DEF NothingToBind
  <2> QED
    BY <1>1, <2>1, <2>2, <2>3 DEF BindersNamed
<1>3. ASSUME NEW i \in Instances, Bind(i) PROVE BindersNamed'
  <2>1. req' = [req EXCEPT ![i] = req'[i]] /\ req'[i].step = "act"
    BY <1>3, BindEffect
  <2> QED
    BY <1>1, <2>1 DEF BindersNamed
<1>4. ASSUME NEW i \in Instances, Act(i) \/ Crash(i) PROVE BindersNamed'
  <2>1. req' = [req EXCEPT ![i] = NotAsking] /\ NotAsking.step = "idle"
    BY <1>4, ActEffect, RequestTypes DEF Crash
  <2> QED
    BY <1>1, <2>1 DEF BindersNamed
<1>5. CASE UNCHANGED vars
  BY <1>5 DEF vars, BindersNamed
<1> QED
  BY <1>2, <1>3, <1>4, <1>5 DEF Next

LEMMA AlwaysNamed == Spec => [](TypeOK /\ BindersNamed)
<1>1. Init => TypeOK /\ BindersNamed
  BY InitTypeOK, RequestTypes DEF Init, BindersNamed
<1> QED
  BY <1>1, NextTypeOK, NextBindersNamed, PTL DEF Spec

\* Only the conditional write of bindExamDevice changes the binding.
LEMMA OnlyBindMoves ==
  ASSUME TypeOK, [Next]_vars, row'.session # row.session
  PROVE  \E i \in Instances : Bind(i)
<1>1. ASSUME NEW i \in Instances, Act(i) PROVE row'.session = row.session
  BY <1>1, ActEffect
<1> QED
  BY <1>1 DEF Next, Arrive, Crash, vars

\* Once bound, a paper stays bound (bindExamDevice, ensureQuizState, /submit).
THEOREM BindingKept == Spec => BindingIsKept
<1>1. TypeOK /\ BindersNamed /\ [Next]_vars => [row.session # Nobody => row'.session # Nobody]_vars
  <2> SUFFICES ASSUME TypeOK, BindersNamed, [Next]_vars, row.session # Nobody, row'.session # row.session
               PROVE  row'.session # Nobody
    OBVIOUS
  <2>1. PICK i \in Instances : Bind(i)
    BY OnlyBindMoves
  <2>2. row'.session = req[i].browser /\ req[i].step = "bind"
    BY <2>1, BindEffect
  <2> QED
    BY <2>2 DEF BindersNamed
<1> QED
  BY <1>1, AlwaysNamed, PTL DEF Spec, BindingIsKept

\* Every move of a live exam to another browser joins its trail, whichever
\* instance decides it (the event is written with the binding).
THEOREM MovesLogged == Spec => MovesAreLogged
<1>1. TypeOK /\ [Next]_vars =>
        [row.opened /\ row.session # Nobody /\ row'.session # row.session
           => trail'.switch = trail.switch + 1]_vars
  <2> SUFFICES ASSUME TypeOK, [Next]_vars, row.opened, row.session # Nobody, row'.session # row.session
               PROVE  trail'.switch = trail.switch + 1
    OBVIOUS
  <2>1. PICK i \in Instances : Bind(i)
    BY OnlyBindMoves
  <2> QED
    BY <2>1, BindEffect DEF Logs
<1> QED
  BY <1>1, DeviceTypes, PTL DEF Spec, MovesAreLogged

\* A live exam whose request is under way is still held by its browser, or has been moved
\* since with an entry in the trail.
LiveInv ==
  \A i \in Instances :
    req[i].step = "act" /\ req[i].live =>
      /\ req[i].browser # Nobody /\ row.opened /\ row.status # "assigned"
      /\ req[i].since <= trail.switch
      /\ row.status = "in_progress" => row.session = req[i].browser \/ trail.switch > req[i].since

LEMMA NextLive == TypeOK /\ LiveInv /\ [Next]_vars => LiveInv'
<1> SUFFICES ASSUME TypeOK, LiveInv, [Next]_vars PROVE LiveInv'
  OBVIOUS
<1>1. req \in [Instances -> Requests] /\ trail.switch \in Nat
      /\ \A j \in Instances : req[j].since \in Nat
  BY DEF TypeOK, Requests
<1>2. ASSUME NEW i \in Instances, Arrive(i) PROVE LiveInv'
  <2>1. PICK w \in Requests :
          /\ w.step = "bind"
          /\ \/ NothingToBind(w) /\ req' = [req EXCEPT ![i] = Admitted(w)]
             \/ req' = [req EXCEPT ![i] = w]
          /\ UNCHANGED <<row, trail>>
    BY <1>2, ArriveSteps
  <2>2. /\ Admitted(w).browser = w.browser
        /\ Admitted(w).since = trail.switch
        /\ (Admitted(w).live <=> w.browser # Nobody /\ row.opened /\ row.status = "in_progress")
    BY AdmittedType
  <2>3. NothingToBind(w) /\ Admitted(w).live => row.session = w.browser
    BY <2>2 DEF NothingToBind, IsOpen
  <2>4. row.opened \in BOOLEAN /\ UNCHANGED <<row, trail>>
    BY <2>1 DEF TypeOK, Rows
  <2> SUFFICES ASSUME NEW j \in Instances, req'[j].step = "act", req'[j].live
               PROVE  /\ req'[j].browser # Nobody /\ row.opened /\ row.status # "assigned"
                      /\ req'[j].since <= trail.switch
                      /\ row.status = "in_progress" =>
                           row.session = req'[j].browser \/ trail.switch > req'[j].since
    BY <2>4 DEF LiveInv
  <2>5. CASE j # i
    <3>1. req'[j] = req[j]
      BY <1>1, <2>1, <2>5
    <3> QED
      BY <3>1 DEF LiveInv
  <2>6. CASE j = i
    <3>1. req'[i] = Admitted(w) /\ NothingToBind(w)
      BY <1>1, <2>1, <2>6
    <3>2. req'[i].since <= trail.switch
      BY <1>1, <2>2, <3>1
    <3> QED
      BY <2>2, <2>3, <2>6, <3>1, <3>2
  <2> QED
    BY <2>5, <2>6
<1>3. ASSUME NEW i \in Instances, Bind(i) PROVE LiveInv'
  <2>1. /\ row'.status = row.status /\ row'.opened = row.opened
        /\ IsOpen => row'.session = req[i].browser
        /\ trail'.switch \in Nat /\ trail.switch <= trail'.switch
        /\ row'.session # row.session /\ Logs => trail'.switch = trail.switch + 1
        /\ req' = [req EXCEPT ![i] = req'[i]] /\ req'[i].browser = req[i].browser
        /\ req'[i].since = trail'.switch
        /\ (req'[i].live <=> req[i].browser # Nobody /\ row.opened /\ row.status = "in_progress")
    BY <1>3, BindEffect
  <2> SUFFICES ASSUME NEW j \in Instances, req'[j].step = "act", req'[j].live
               PROVE  /\ req'[j].browser # Nobody /\ row'.opened /\ row'.status # "assigned"
                      /\ req'[j].since <= trail'.switch
                      /\ row'.status = "in_progress" =>
                           row'.session = req'[j].browser \/ trail'.switch > req'[j].since
    BY DEF LiveInv
  <2>2. CASE j = i
    <3>1. /\ req'[i].browser # Nobody /\ row.opened /\ row.status = "in_progress"
          /\ req'[i].since <= trail'.switch
      BY <2>1, <2>2
    <3>2. row'.session = req'[i].browser
      BY <2>1, <3>1 DEF IsOpen
    <3> QED
      BY <2>1, <2>2, <3>1, <3>2
  <2>3. CASE j # i
    <3>1. req'[j] = req[j]
      BY <1>1, <2>1, <2>3
    <3>2. /\ req[j].browser # Nobody /\ row.opened /\ row.status # "assigned"
          /\ req[j].since <= trail.switch /\ req[j].since \in Nat
          /\ row.status = "in_progress" => row.session = req[j].browser \/ trail.switch > req[j].since
      BY <1>1, <3>1 DEF LiveInv
    <3>3. CASE row'.session = row.session
      BY <1>1, <2>1, <3>1, <3>2, <3>3
    <3>4. CASE row'.session # row.session
      <4>1. row.session = req[j].browser => Logs
        BY <3>2 DEF Logs
      <4>2. CASE row.session = req[j].browser
        BY <1>1, <2>1, <3>1, <3>2, <3>4, <4>1, <4>2
      <4>3. CASE row.session # req[j].browser
        BY <1>1, <2>1, <3>1, <3>2, <4>3
      <4> QED
        BY <4>2, <4>3
    <3> QED
      BY <3>3, <3>4
  <2> QED
    BY <2>2, <2>3
<1>4. ASSUME NEW i \in Instances, Act(i) PROVE LiveInv'
  <2>1. /\ row'.session = row.session /\ UNCHANGED trail
        /\ row.opened => row'.opened
        /\ row'.status = "in_progress" => row.status \in {"assigned", "in_progress"}
        /\ row'.status = "assigned" => row.status = "assigned"
        /\ req' = [req EXCEPT ![i] = NotAsking] /\ ~NotAsking.live
    BY <1>4, ActEffect, RequestTypes
  <2> SUFFICES ASSUME NEW j \in Instances, req'[j].step = "act", req'[j].live
               PROVE  /\ req'[j].browser # Nobody /\ row'.opened /\ row'.status # "assigned"
                      /\ req'[j].since <= trail'.switch
                      /\ row'.status = "in_progress" =>
                           row'.session = req'[j].browser \/ trail'.switch > req'[j].since
    BY DEF LiveInv
  <2>2. j # i /\ req'[j] = req[j]
    BY <1>1, <2>1
  <2>3. /\ req[j].browser # Nobody /\ row.opened /\ row.status # "assigned"
        /\ req[j].since <= trail.switch
        /\ row.status = "in_progress" => row.session = req[j].browser \/ trail.switch > req[j].since
    BY <2>2 DEF LiveInv
  <2>4. trail' = trail /\ row'.session = row.session
    BY <2>1
  <2>5. row'.opened /\ row'.status # "assigned" /\ (row'.status = "in_progress" => row.status = "in_progress")
    BY <2>1, <2>3
  <2> QED
    BY <2>2, <2>3, <2>4, <2>5
<1>5. ASSUME NEW i \in Instances, Crash(i) PROVE LiveInv'
  BY <1>1, <1>5, RequestTypes DEF Crash, LiveInv
<1>6. CASE UNCHANGED vars
  BY <1>6 DEF vars, LiveInv
<1> QED
  BY <1>2, <1>3, <1>4, <1>5, <1>6 DEF Next

\* Whoever took a live exam away from a browser whose request was let through is in the
\* trail before that request does its work, on any number of instances
\* (bindExamDevice, examRoute).
THEOREM DisplacedIsSeen == Spec => []DisplacedWorkShows
<1>1. Init => TypeOK /\ LiveInv
  BY InitTypeOK, RequestTypes DEF Init, LiveInv
<1>2. LiveInv => DisplacedWorkShows
  BY DEF LiveInv, DisplacedWorkShows
<1> QED
  BY <1>1, <1>2, NextTypeOK, NextLive, PTL DEF Spec

----------------------------------------------------------------------------
(* One server *)

\* The lock of the process keeps what bindExamDevice read current until its write.
HeldInv == \A i \in Instances : req[i].step = "bind" => ~BoundElsewhere(req[i])

LEMMA NextHeld ==
  ASSUME NEW s, Instances = {s}, TypeOK, HeldInv, [Next]_vars
  PROVE  HeldInv'
<1>1. req \in [Instances -> Requests] /\ s \in Instances
  BY DEF TypeOK
<1>2. CASE Arrive(s)
  <2>1. PICK w \in Requests :
          /\ \/ req' = [req EXCEPT ![s] = Admitted(w)]
             \/ ~BoundElsewhere(w) /\ req' = [req EXCEPT ![s] = w]
          /\ UNCHANGED <<row, trail>>
    BY <1>1, <1>2, ArriveSteps
  <2>2. Admitted(w).step = "act"
    BY AdmittedType
  <2> QED
    BY <1>1, <2>1, <2>2 DEF HeldInv, BoundElsewhere
<1>3. CASE Bind(s)
  <2>1. req' = [req EXCEPT ![s] = req'[s]] /\ req'[s].step = "act"
    BY <1>1, <1>3, BindEffect
  <2> QED
    BY <2>1 DEF HeldInv
<1>4. CASE Act(s) \/ Crash(s)
  <2>1. req' = [req EXCEPT ![s] = NotAsking] /\ NotAsking.step = "idle"
    BY <1>1, <1>4, ActEffect, RequestTypes DEF Crash
  <2> QED
    BY <1>1, <2>1 DEF HeldInv
<1>5. CASE UNCHANGED vars
  BY <1>5 DEF vars, HeldInv, BoundElsewhere
<1> QED
  BY <1>2, <1>3, <1>4, <1>5 DEF Next

LEMMA AlwaysHeld ==
  ASSUME NEW CONSTANT s, Instances = {s}
  PROVE  Spec => [](TypeOK /\ HeldInv)
<1>1. Init => TypeOK /\ HeldInv
  BY InitTypeOK, RequestTypes DEF Init, HeldInv
<1>2. TypeOK /\ HeldInv /\ [Next]_vars => (TypeOK /\ HeldInv)'
  BY NextTypeOK, NextHeld
<1> QED
  BY <1>1, <1>2, PTL DEF Spec

\* On one server another browser moves the exam only by choosing to (README,
\* "One device at a time").
THEOREM ChoiceMoves ==
  ASSUME NEW CONSTANT s, Instances = {s}
  PROVE  Spec => MovesOnlyByChoice
<1>1. TypeOK /\ HeldInv /\ [Next]_vars =>
        [row.session # Nobody /\ row'.session # row.session =>
           \E i \in Instances : req[i].step = "bind" /\ req[i].takeover /\ row'.session = req[i].browser]_vars
  <2> SUFFICES ASSUME TypeOK, HeldInv, [Next]_vars, row.session # Nobody, row'.session # row.session
               PROVE  \E i \in Instances : req[i].step = "bind" /\ req[i].takeover
                                           /\ row'.session = req[i].browser
    OBVIOUS
  <2>1. PICK i \in Instances : Bind(i)
    BY OnlyBindMoves
  <2>2. row'.session = req[i].browser /\ req[i].step = "bind"
    BY <2>1, BindEffect
  <2>3. ~BoundElsewhere(req[i])
    BY <2>2 DEF HeldInv
  <2> QED
    BY <2>2, <2>3 DEF BoundElsewhere
<1> QED
  BY <1>1, AlwaysHeld, PTL DEF Spec, MovesOnlyByChoice
=============================================================================
