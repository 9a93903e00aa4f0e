---------------------------- MODULE ExamDevice ----------------------------
(***************************************************************************)
(* One device at a time: every exam route first runs bindExamDevice        *)
(* (src/api/handlers/candidate.mjs), which reads the paper, refuses a      *)
(* browser other than the bound one, and binds the paper by a conditional  *)
(* write of its own; then the route does its work on the row as it is.     *)
(* Both run under the assessment lock of the process, so the requests of   *)
(* one process run one after the other and those of two may interleave.    *)
(* Every write of the row is decided on the row as it is then.             *)
(***************************************************************************)
EXTENDS Naturals

CONSTANTS
  Instances,   \* function instances (or the single server process)
  Browsers,    \* ids the exam app keeps in each browser
  Nobody,      \* no binding; a request without a browser id
  Networks,    \* network addresses requests come from
  MaxEvents    \* bound: no new binding request once the trail has this many entries

ASSUME DeviceAssumption ==
  /\ Nobody \notin Browsers /\ Nobody \notin Networks
  /\ Networks # {} /\ MaxEvents \in Nat

VARIABLES
  row,      \* the paper: status, is a question live, and the device it is bound to
  trail,    \* the device_switch and ip_change counters of its quiz state
  req       \* req[i]: the request instance i works on

vars == <<row, trail, req>>

Rows == [status: {"assigned", "in_progress", "submitted"}, opened: BOOLEAN,
         session: Browsers \cup {Nobody}, ip: Networks \cup {Nobody}]

\* op: the opening GET, a draft, a route that seeds the quiz state (a beacon, a
\* phase change, an advance), or the hand-in.  History: live, the exam was under way
\* when the request was let through; since, the moves its trail had by then.
Requests == [step: {"idle", "bind", "act"}, op: {"open", "draft", "work", "submit"},
             browser: Browsers \cup {Nobody}, ip: Networks, takeover: BOOLEAN,
             live: BOOLEAN, since: Nat]

Asking(op, browser, ip, takeover) ==
  [step |-> "bind", op |-> op, browser |-> browser, ip |-> ip, takeover |-> takeover,
   live |-> FALSE, since |-> 0]

NotAsking == [Asking("open", Nobody, CHOOSE n \in Networks : TRUE, FALSE) EXCEPT !.step = "idle"]

Init ==
  /\ row = [status |-> "assigned", opened |-> FALSE, session |-> Nobody, ip |-> Nobody]
  /\ trail = [switch |-> 0, address |-> 0]
  /\ req = [i \in Instances |-> NotAsking]

IsOpen == row.status \in {"assigned", "in_progress"}

BoundElsewhere(w) == row.session # Nobody /\ row.session # w.browser /\ ~w.takeover

\* Faulty variant of NothingToBind: a known address is taken for the bound browser.
FaultyNothingToBind(w) ==
  \/ w.browser = Nobody \/ ~IsOpen
  \/ row.status = "assigned" /\ w.op # "open"
  \/ row.ip = w.ip

\* Nothing to bind: no browser id, a closed paper, a stray request on a paper
\* nobody has opened, or the bound browser at its known address.
NothingToBind(w) ==
  \/ w.browser = Nobody \/ ~IsOpen
  \/ row.status = "assigned" /\ w.op # "open"
  \/ row.session = w.browser /\ row.ip = w.ip

\* A request that is let through goes on to its route, with what the route looks at.
Admitted(w) ==
  [NotAsking EXCEPT !.step = "act", !.op = w.op, !.browser = w.browser, !.since = trail.switch,
                    !.live = w.browser # Nobody /\ row.opened /\ row.status = "in_progress"]

\* bindExamDevice, the read.  A refused request changes nothing and is left out.
Arrive(i) ==
  /\ req[i].step = "idle"
  /\ \E op \in {"open", "draft", "work", "submit"}, browser \in Browsers \cup {Nobody}, ip \in Networks,
        takeover \in BOOLEAN :
       LET w == Asking(op, browser, ip, takeover) IN
       \/ NothingToBind(w) /\ req' = [req EXCEPT ![i] = Admitted(w)]
       \/ /\ ~NothingToBind(w) /\ ~BoundElsewhere(w) /\ trail.switch + trail.address < MaxEvents
          /\ req' = [req EXCEPT ![i] = w]
  /\ UNCHANGED <<row, trail>>

\* Only a live exam that was bound has a trail to log to.
Logs == row.opened /\ row.session # Nobody

\* Faulty variant: a move from a new address is taken for a change of address.
FaultyMoves(w) == row.session # w.browser /\ row.ip = w.ip

Moves(w) == row.session # w.browser

\* bindExamDevice, the conditional write: who holds the exam is not asked again.
Bind(i) ==
  LET w == req[i]
      rebinds == IsOpen /\ (Moves(w) \/ row.ip # w.ip)
      moved == rebinds /\ Logs /\ Moves(w)
      readdressed == rebinds /\ Logs /\ ~Moves(w)
  IN
  /\ w.step = "bind"
  /\ row' = IF rebinds THEN [row EXCEPT !.session = w.browser, !.ip = w.ip] ELSE row
  /\ trail' = [switch |-> trail.switch + (IF moved THEN 1 ELSE 0),
               address |-> trail.address + (IF readdressed THEN 1 ELSE 0)]
  /\ req' = [req EXCEPT ![i] = [Admitted(w) EXCEPT !.since = trail'.switch]]

\* ensureQuizState: a fresh quiz state keeps the device bound by the opening request.
Seeded(r) == [r EXCEPT !.opened = TRUE]

\* The route itself: opening starts the paper and seeds its quiz state, a draft
\* starts it only, working on it seeds it only, handing in closes it.
Act(i) ==
  /\ req[i].step = "act"
  /\ row' = CASE ~IsOpen -> row
              [] IsOpen /\ req[i].op = "open" -> Seeded([row EXCEPT !.status = "in_progress"])
              [] IsOpen /\ req[i].op = "draft" -> [row EXCEPT !.status = "in_progress"]
              [] IsOpen /\ req[i].op = "work" -> Seeded(row)
              [] IsOpen /\ req[i].op = "submit" -> [row EXCEPT !.status = "submitted"]
  /\ req' = [req EXCEPT ![i] = NotAsking]
  /\ UNCHANGED trail

Crash(i) ==
  /\ req[i].step # "idle"
  /\ req' = [req EXCEPT ![i] = NotAsking]
  /\ UNCHANGED <<row, trail>>

Next == \E i \in Instances : Arrive(i) \/ Bind(i) \/ Act(i) \/ Crash(i)

Spec == Init /\ [][Next]_vars

----------------------------------------------------------------------------
(* Properties *)

TypeOK ==
  /\ row \in Rows
  /\ trail \in [switch: Nat, address: Nat]
  /\ req \in [Instances -> Requests]

\* README, "One device at a time": another browser can move the exam only by
\* choosing to continue there.  It holds on one server; two opening requests that
\* read the unbound paper on two instances bind it one after the other.
MovesOnlyByChoice ==
  [][row.session # Nobody /\ row'.session # row.session =>
       \E i \in Instances : req[i].step = "bind" /\ req[i].takeover /\ row'.session = req[i].browser]_vars

\* The binding is checked before the route does its work, and on another instance the
\* exam may be taken over in between: work for a browser that no longer holds a live
\* exam happens, but never unseen.  The move that came in between is in the trail.
DisplacedWorkShows ==
  \A i \in Instances :
    /\ req[i].step = "act" /\ req[i].live /\ row.status = "in_progress"
    /\ row.session # req[i].browser
    => trail.switch > req[i].since

\* Once bound, a paper stays bound: neither the seeding of the quiz state nor the
\* hand-in forgets the browser that sat the exam.
BindingIsKept == [][row.session # Nobody => row'.session # Nobody]_vars

\* A move of a live exam to another browser is always in the trail.  (Live: its
\* quiz state has a cursor.  A paper that was started by a draft, or whose opening
\* request died after binding it, is in progress and has no trail yet.)
MovesAreLogged ==
  [][row.opened /\ row.session # Nobody /\ row'.session # row.session =>
       trail'.switch = trail.switch + 1]_vars
=============================================================================
