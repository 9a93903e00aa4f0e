----------------------------- MODULE TestBooking -----------------------------
(***************************************************************************)
(* Test booking links (src/api/handlers/bookings.mjs): a single-use link   *)
(* is claimed by a form, and the booked slot is then turned into a         *)
(* candidate, an account and an exam by storage calls that may stop        *)
(* anywhere and are repaired by a retry of the form or by the admin's      *)
(* list.  With them what undoes a booking: cancelling it, deleting its     *)
(* exam (admin/assessments.mjs) and deleting its person (person-purge.mjs).*)
(*                                                                         *)
(* Booking requests and person deletions of one process run one at a time  *)
(* (they hold "users:create"); an exam deletion holds the lock of its exam *)
(* only.  Nothing but the store orders the requests of two processes.      *)
(***************************************************************************)
EXTENDS Naturals, Sequences

CONSTANTS
  Instances,   \* function instances (or the single server process)
  Links,       \* booking links, by their row ids
  Emails,      \* email addresses
  Forms,       \* submissions, each with a request id of its own
  LinkOf,      \* LinkOf[f]: the link form f was opened from
  EmailOf,     \* EmailOf[f]: the address it gives
  Nobody,      \* no form, no owner
  Ops          \* the requests made in this instance of the model

ASSUME BookingAssumption ==
  /\ LinkOf \in [Forms -> Links] /\ EmailOf \in [Forms -> Emails]
  /\ Nobody \notin Forms /\ Nobody \notin Links
  /\ Ops \subseteq {"book", "list", "cancel", "delete", "purge"}

VARIABLES
  booking,     \* the booking rows
  candidate,   \* candidate[l]: the candidate created for link l
  account,     \* account[e]: the account whose id is derived from address e
  exam,        \* exam[l]: the paper created for link l
  req,         \* req[i]: the booking request or person deletion of instance i
  del,         \* del[i]: its exam deletion
  receipts     \* history: the forms reported as booked and set up

rows == <<booking, candidate, account, exam>>
vars == <<rows, req, del, receipts>>

----------------------------------------------------------------------------
(* Data *)

\* `plan`: provisioning_json (the password hash and the paper) is stored;
\* `cand`: candidate_id is set; `linked`: user_id and assessment_id are.  An
\* unused link past its expires_at is "lapsed"; a removed row is "gone".
Bookings == [status: {"none", "pending", "lapsed", "booked", "cancelled", "revoked", "gone"},
             form: Forms \cup {Nobody}, plan: BOOLEAN, cand: BOOLEAN, linked: BOOLEAN]
NoLink == [status |-> "none", form |-> Nobody, plan |-> FALSE, cand |-> FALSE, linked |-> FALSE]

Accounts == [owner: Links \cup {Nobody}, active: BOOLEAN]
NoAccount == [owner |-> Nobody, active |-> FALSE]

\* What a person deletion has listed and goes on to remove.
Parts == {"exam", "account", "booking"}

\* Faulty variant of PurgeOrder: the profile goes with its bookings, before the rest.
FaultyOrder == <<"flag", "suspend", "bookings", "profile", "papers", "accounts">>

\* The tables, in the order they are written.
PurgeOrder == <<"flag", "suspend", "papers", "accounts", "bookings", "profile">>

Provisioning == {"candidate", "insert", "link", "start", "account", "exam", "finish"}
Purging == {PurgeOrder[n] : n \in DOMAIN PurgeOrder}
Steps == {"idle", "claim", "cancel", "close"} \cup Provisioning \cup Purging

NoRequest == [step |-> "idle", link |-> Nobody, form |-> Nobody, found |-> {}]
NoDeletion == [step |-> "idle", link |-> Nobody]

TypeOK ==
  /\ booking \in [Links -> Bookings]
  /\ candidate \in [Links -> {"none", "live", "deleting"}]
  /\ account \in [Emails -> Accounts]
  /\ exam \in [Links -> {"none", "open", "submitted", "cancelled"}]
  /\ req \in [Instances -> [step: Steps, link: Links \cup {Nobody}, form: Forms \cup {Nobody},
                            found: SUBSET Parts]]
  /\ del \in [Instances -> [step: {"idle", "unbook", "remove"}, link: Links \cup {Nobody}]]
  /\ receipts \subseteq Forms

Init ==
  /\ booking = [l \in Links |-> NoLink]
  /\ candidate = [l \in Links |-> "none"]
  /\ account = [e \in Emails |-> NoAccount]
  /\ exam = [l \in Links |-> "none"]
  /\ req = [i \in Instances |-> NoRequest]
  /\ del = [i \in Instances |-> NoDeletion]
  /\ receipts = {}

----------------------------------------------------------------------------
(* The links *)

\* POST /admin/test-bookings/links.
CreateLink(l) ==
  /\ booking[l] = NoLink
  /\ booking' = [booking EXCEPT ![l].status = "pending"]
  /\ UNCHANGED <<candidate, account, exam, req, del, receipts>>

\* Thirty days pass on an unused link.
LinkLapses(l) ==
  /\ booking[l].status = "pending"
  /\ booking' = [booking EXCEPT ![l].status = "lapsed"]
  /\ UNCHANGED <<candidate, account, exam, req, del, receipts>>

Booked(l) == booking[l].status = "booked"

\* No other booked link was given this address.
AddressFree(l, e) == \A m \in Links \ {l} : Booked(m) => EmailOf[booking[m].form] # e

----------------------------------------------------------------------------
(* Requests under the booking lock *)

At(i, step) == req[i].step = step

\* Instance i takes up a request that got past its first checks.
Begin(i, step, l, f, found) ==
  /\ At(i, "idle")
  /\ req' = [req EXCEPT ![i] = [step |-> step, link |-> l, form |-> f, found |-> found]]
  /\ UNCHANGED <<rows, del, receipts>>

\* Its next step; a request that is over leaves nothing behind.
Go(i, step) ==
  req' = [req EXCEPT ![i] = IF step = "idle" THEN NoRequest ELSE [@ EXCEPT !.step = step]]

\* Faulty variant of Replays: any form of a booked link counts as its retry.
FaultyReplays(f) == Booked(LinkOf[f])

\* A retry of the form that booked the link.
Replays(f) == Booked(LinkOf[f]) /\ booking[LinkOf[f]].form = f

\* Faulty variant of Acceptable: accounts are not looked at.
FaultyAcceptable(f) == booking[LinkOf[f]].status = "pending" /\ AddressFree(LinkOf[f], EmailOf[f])

\* The link is unused, and its address neither has an account nor is reserved.
Acceptable(f) ==
  /\ booking[LinkOf[f]].status = "pending"
  /\ account[EmailOf[f]] = NoAccount
  /\ AddressFree(LinkOf[f], EmailOf[f])

\* POST /public/test-bookings: the checks before the claim.
SubmitForm(i, f) ==
  /\ "book" \in Ops
  /\ \/ Replays(f) /\ Begin(i, "candidate", LinkOf[f], f, {})
     \/ ~Replays(f) /\ Acceptable(f) /\ Begin(i, "claim", LinkOf[f], f, {})

\* Faulty variant of NeedsRepair: a booking with its candidate counts as set up.
FaultyNeedsRepair(b) == ~b.cand
NeedsRepair(b) == ~b.cand \/ ~b.linked \/ b.plan

\* GET /admin/test-bookings repairs each booked link that is not set up.
RepairLink(i, l) ==
  /\ "list" \in Ops
  /\ Booked(l) /\ NeedsRepair(booking[l])
  /\ Begin(i, "candidate", l, booking[l].form, {})

\* POST /admin/test-bookings/:id/cancel.
CancelLink(i, l) ==
  /\ "cancel" \in Ops
  /\ booking[l].status \notin {"none", "gone"}
  /\ Begin(i, "cancel", l, Nobody, {})

\* DELETE /admin/candidates/:id: what is to go is listed under all its locks,
\* the lock of the exam among them.
PurgePerson(i, l) ==
  /\ "purge" \in Ops
  /\ candidate[l] # "none"
  /\ exam[l] = "none" \/ del[i].link # l
  /\ LET found == {p \in Parts : \/ p = "exam" /\ exam[l] # "none"
                                 \/ p = "account" /\ \E e \in Emails : account[e].owner = l
                                 \/ p = "booking" /\ booking[l].status # "gone"}
     IN Begin(i, "flag", l, Nobody, found)

\* A storage call fails or the process stops: what was written stays.
Fail(i) ==
  /\ \/ ~At(i, "idle") /\ req' = [req EXCEPT ![i] = NoRequest] /\ UNCHANGED del
     \/ del[i].step # "idle" /\ del' = [del EXCEPT ![i] = NoDeletion] /\ UNCHANGED req
  /\ UNCHANGED <<rows, receipts>>

----------------------------------------------------------------------------
(* Booking: one step per storage call *)

\* Faulty variant of Commits: the address is not checked again at the write.
FaultyAddress(l, f) == booking[l].status = "pending"

\* bookingCommitPatch: decided on the rows that are current at the write.
Commits(l, f) == booking[l].status = "pending" /\ AddressFree(l, EmailOf[f])

ClaimLink(i) ==
  /\ At(i, "claim")
  /\ LET l == req[i].link f == req[i].form IN
     IF Commits(l, f)
     THEN /\ booking' = [booking EXCEPT ![l] = [@ EXCEPT !.status = "booked", !.form = f, !.plan = TRUE]]
          /\ Go(i, "candidate")
     ELSE Go(i, "idle") /\ UNCHANGED booking
  /\ UNCHANGED <<candidate, account, exam, del, receipts>>

\* Faulty variant of Continue: any row that is returned counts as set up.
FaultyContinue(i, b) ==
  /\ Go(i, IF b.status = "booked" /\ b.plan THEN "start" ELSE "idle")
  /\ receipts' = IF b.status = "booked" => ~b.plan THEN receipts \cup {req[i].form} ELSE receipts

\* How provisionBooking goes on from a row it was given: with a plan to carry out,
\* or with nothing more to do.  A row that is returned counts as set up when it has
\* its account and its exam, also one that was cancelled meanwhile.
Continue(i, b) ==
  /\ Go(i, IF b.status = "booked" /\ b.plan THEN "start" ELSE "idle")
  /\ receipts' = IF b.linked /\ (b.status = "booked" => ~b.plan)
                 THEN receipts \cup {req[i].form} ELSE receipts

\* ensureCandidate: read the row; a booked row without a candidate gets one.
ReadBooking(i) ==
  /\ At(i, "candidate")
  /\ LET b == booking[req[i].link] IN
     IF b.status = "booked" /\ ~b.cand
     THEN Go(i, "insert") /\ UNCHANGED receipts
     ELSE Continue(i, b)
  /\ UNCHANGED <<rows, del>>

InsertCandidate(i) ==
  /\ At(i, "insert")
  /\ candidate' = [candidate EXCEPT ![req[i].link] = IF @ = "none" THEN "live" ELSE @]
  /\ Go(i, "link")
  /\ UNCHANGED <<booking, account, exam, del, receipts>>

LinkCandidate(i) ==
  /\ At(i, "link")
  /\ LET l == req[i].link IN
     /\ booking' = IF Booked(l) THEN [booking EXCEPT ![l].cand = TRUE] ELSE booking
     /\ Continue(i, booking'[l])
  /\ UNCHANGED <<candidate, account, exam, del>>

\* A candidate that is gone, or on its way out, is given nothing.
ReadCandidate(i) ==
  /\ At(i, "start")
  /\ Go(i, IF candidate[req[i].link] = "live" THEN "account" ELSE "idle")
  /\ UNCHANGED <<rows, del, receipts>>

\* The account of the address, created unless it exists, must be this booking's
\* and not switched off.
InsertAccount(i) ==
  /\ At(i, "account")
  /\ LET l == req[i].link
         e == EmailOf[req[i].form]
         a == IF account[e] = NoAccount THEN [owner |-> l, active |-> TRUE] ELSE account[e]
     IN /\ account' = [account EXCEPT ![e] = a]
        /\ Go(i, IF a = [owner |-> l, active |-> TRUE] THEN "exam" ELSE "idle")
  /\ UNCHANGED <<booking, candidate, exam, del, receipts>>

InsertExam(i) ==
  /\ At(i, "exam")
  /\ exam' = [exam EXCEPT ![req[i].link] = IF @ = "none" THEN "open" ELSE @]
  /\ Go(i, "finish")
  /\ UNCHANGED <<booking, candidate, account, del, receipts>>

\* Faulty variant of Finished: the booking is linked whatever became of it.
FaultyFinished(b) == [b EXCEPT !.linked = TRUE, !.plan = FALSE]

\* Decided on the row that is current at the write.
Finished(b) == IF b.status = "booked" THEN [b EXCEPT !.linked = TRUE, !.plan = FALSE] ELSE b

FinishBooking(i) ==
  /\ At(i, "finish")
  /\ booking' = [booking EXCEPT ![req[i].link] = Finished(@)]
  /\ Continue(i, booking'[req[i].link])
  /\ UNCHANGED <<candidate, account, exam, del>>

----------------------------------------------------------------------------
(* What undoes a booking *)

\* The decision of a cancellation; any other row is left as it is.
Cancelled(b) ==
  IF b.status \in {"pending", "lapsed", "booked"}
  THEN [b EXCEPT !.status = IF @ = "booked" THEN "cancelled" ELSE "revoked", !.plan = FALSE] ELSE b

CancelBooking(i) ==
  /\ At(i, "cancel")
  /\ LET l == req[i].link IN
     /\ booking' = [booking EXCEPT ![l] = Cancelled(@)]
     /\ Go(i, IF booking'[l].status = "cancelled" /\ booking'[l].linked THEN "close" ELSE "idle")
  /\ UNCHANGED <<candidate, account, exam, del, receipts>>

\* expireExam: an open exam without a booking is cancelled, one whose two hours
\* are over is submitted; nothing else is touched.
Expired(l) == IF exam[l] # "open" THEN exam[l] ELSE IF Booked(l) THEN "submitted" ELSE "cancelled"

\* The cancellation closes the exam under its lock, its time left or not.
CloseExam(i) ==
  /\ At(i, "close")
  /\ del[i].link # req[i].link
  /\ exam' = [exam EXCEPT ![req[i].link] = IF Booked(req[i].link) THEN @ ELSE Expired(req[i].link)]
  /\ Go(i, "idle")
  /\ UNCHANGED <<booking, candidate, account, del, receipts>>

\* The candidate hands in, or a listing screen expires the exam without its lock.
ExamCloses(l) ==
  /\ exam[l] = "open"
  /\ exam' = [exam EXCEPT ![l] = Expired(l)]
  /\ UNCHANGED <<booking, candidate, account, req, del, receipts>>

\* DELETE /admin/assessments/:id: the status check, under the lock of the exam.
DeleteExam(i, l) ==
  /\ "delete" \in Ops
  /\ del[i].step = "idle" /\ exam[l] \in {"open", "cancelled"}
  /\ ~(req[i].link = l /\ "exam" \in req[i].found)
  /\ del' = [del EXCEPT ![i] = [step |-> "unbook", link |-> l]]
  /\ UNCHANGED <<rows, req, receipts>>

\* Faulty variant of Unbooked: only a link that nobody used is withdrawn.
FaultyUnbooked(b) == IF b.status = "pending" THEN [b EXCEPT !.status = "cancelled"] ELSE b

Unbooked(b) ==
  IF b.status \in {"pending", "lapsed", "booked"} THEN [b EXCEPT !.status = "cancelled", !.plan = FALSE] ELSE b

UnbookExam(i) ==
  /\ del[i].step = "unbook"
  /\ booking' = [booking EXCEPT ![del[i].link] = Unbooked(@)]
  /\ del' = [del EXCEPT ![i].step = "remove"]
  /\ UNCHANGED <<candidate, account, exam, req, receipts>>

RemoveExam(i) ==
  /\ del[i].step = "remove"
  /\ exam' = [exam EXCEPT ![del[i].link] = "none"]
  /\ del' = [del EXCEPT ![i] = NoDeletion]
  /\ UNCHANGED <<booking, candidate, account, req, receipts>>

----------------------------------------------------------------------------
(* Deleting a person: one step per table, in PurgeOrder *)

\* The step after n; the request is over after the last one.
AfterPurge(n) == IF n = Len(PurgeOrder) THEN "idle" ELSE PurgeOrder[n + 1]

Owned(l, a) == a.owner = l

PurgeStep(i) ==
  \E n \in DOMAIN PurgeOrder :
    LET l == req[i].link
        step == PurgeOrder[n]
        Listed(p) == p \in req[i].found
    IN /\ At(i, step)
       /\ Go(i, AfterPurge(n))
       /\ candidate' = CASE step = "flag" /\ candidate[l] # "none" -> [candidate EXCEPT ![l] = "deleting"]
                         [] step = "profile" -> [candidate EXCEPT ![l] = "none"]
                         [] OTHER -> candidate
       /\ account' = CASE step = "suspend" /\ Listed("account") ->
                            [e \in Emails |-> IF Owned(l, account[e]) THEN [account[e] EXCEPT !.active = FALSE]
                                              ELSE account[e]]
                       [] step = "accounts" /\ Listed("account") ->
                            [e \in Emails |-> IF Owned(l, account[e]) THEN NoAccount ELSE account[e]]
                       [] OTHER -> account
       /\ exam' = IF step = "papers" /\ Listed("exam") THEN [exam EXCEPT ![l] = "none"] ELSE exam
       /\ booking' = IF step = "bookings" /\ Listed("booking")
                     THEN [booking EXCEPT ![l] = [NoLink EXCEPT !.status = "gone"]] ELSE booking
       /\ UNCHANGED <<del, receipts>>

----------------------------------------------------------------------------
(* The specification *)

Provision(i) ==
  \/ ClaimLink(i) \/ ReadBooking(i) \/ InsertCandidate(i) \/ LinkCandidate(i)
  \/ ReadCandidate(i) \/ InsertAccount(i) \/ InsertExam(i) \/ FinishBooking(i)

Next ==
  \/ \E l \in Links : CreateLink(l) \/ LinkLapses(l) \/ ExamCloses(l)
  \/ \E i \in Instances :
       \/ \E f \in Forms : SubmitForm(i, f)
       \/ \E l \in Links : RepairLink(i, l) \/ CancelLink(i, l) \/ PurgePerson(i, l) \/ DeleteExam(i, l)
       \/ Provision(i) \/ CancelBooking(i) \/ CloseExam(i)
       \/ UnbookExam(i) \/ RemoveExam(i) \/ PurgeStep(i) \/ Fail(i)

Spec == Init /\ [][Next]_vars

\* The admin's list is reopened, and repairs every booked link in turn; requests
\* run on, and one that waits for a lock gets it in turn (mutex.mjs); storage
\* calls stop failing at some time.
FairSpec ==
  /\ Spec
  /\ <>[][\A i \in Instances : ~Fail(i)]_vars
  /\ \A i \in Instances :
       /\ \A l \in Links : SF_vars(RepairLink(i, l))
       /\ SF_vars(CloseExam(i))
       /\ WF_vars(Provision(i)) /\ WF_vars(CancelBooking(i)) /\ WF_vars(PurgeStep(i))
       /\ WF_vars(UnbookExam(i)) /\ WF_vars(RemoveExam(i))

----------------------------------------------------------------------------
(* Properties *)

\* Two booked links never share an address, whichever instances took the forms
\* and however their checks and writes fell (bookings.mjs:50-58).
OneBookingPerEmail ==
  \A l, m \in Links : l # m /\ Booked(l) /\ Booked(m) => EmailOf[booking[l].form] # EmailOf[booking[m].form]

\* A booked row that says it is set up has its candidate, its own working
\* account and an exam that was not withdrawn, although each came from another
\* table and an exam deletion may have run between (bookings.mjs:108-137).
SetUpIsComplete ==
  \A l \in Links : Booked(l) /\ booking[l].linked =>
    /\ candidate[l] = "live"
    /\ account[EmailOf[booking[l].form]] = [owner |-> l, active |-> TRUE]
    /\ exam[l] \in {"open", "submitted"}

\* Who was told that a slot is booked is the one the link was booked for, and its
\* account and exam were linked to it while it was: no retry, repair or cancellation
\* during the set-up brings a receipt for another's slot or for half a booking
\* (bookings.mjs:134-137, 236-256, 286-288).
ReceiptsAreTrue ==
  \A f \in receipts : booking[LinkOf[f]].form = f /\ booking[LinkOf[f]].linked

\* A cancelled or revoked link keeps no password hash or paper for a set-up that
\* will not come (bookings.mjs:213, admin/assessments.mjs:93).
PlanOnlyWhileBooked ==
  \A l \in Links : booking[l].plan => Booked(l)

\* A link is used once, and a cancellation is final: the form in a row is never
\* replaced by another, and a set-up still running elsewhere changes the row of a
\* cancelled link no more (bookings.mjs:87, 134).
SettledRowsStand ==
  [][\A l \in Links :
       \/ booking'[l].status = "gone"
       \/ /\ booking[l].form # Nobody => booking'[l].form = booking[l].form
          /\ booking[l].status \in {"cancelled", "revoked"} => booking'[l] = booking[l]]_vars

\* A booked link can always be set up: no other link's account sits on its
\* address (bookings.mjs:257-266).
NotStranded ==
  \A l \in Links : Booked(l) => account[EmailOf[booking[l].form]].owner \in {l, Nobody}

\* A person deletion stopped anywhere leaves no account, exam or booking that
\* points at a profile which is gone (person-purge.mjs:93-110).
NoOrphans ==
  \A l \in Links : candidate[l] = "none" =>
    /\ exam[l] = "none" /\ \A e \in Emails : account[e].owner # l
    /\ ~booking[l].cand

\* A booked slot is set up in the end, unless it is cancelled or its person is
\* being deleted: no order of failures leaves it half made for ever.
SlotIsSetUp ==
  \A l \in Links : Booked(l) ~>
    \/ Booked(l) /\ booking[l].linked
    \/ ~Booked(l) \/ candidate[l] = "deleting"

=============================================================================
