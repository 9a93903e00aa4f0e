------------------------- MODULE TestBookingProofs -------------------------
(***************************************************************************)
(* Proofs about TestBooking, for every set of links, addresses, forms and  *)
(* instances.                                                              *)
(***************************************************************************)
EXTENDS TestBooking, TLAPS

USE BookingAssumption

----------------------------------------------------------------------------
(* Types *)

LEMMA PurgeSteps ==
  /\ DOMAIN PurgeOrder = 1..6 /\ Len(PurgeOrder) = 6
  /\ \A n \in 1..6 : PurgeOrder[n] \in Purging /\ AfterPurge(n) \in Purging \cup {"idle"}
<1>1. DOMAIN PurgeOrder = 1..6 /\ Len(PurgeOrder) = 6
  BY DEF PurgeOrder
<1>2. \A n \in 1..6 : PurgeOrder[n] \in Purging
  BY <1>1 DEF Purging
<1>3. ASSUME NEW n \in 1..6, n # 6 PROVE PurgeOrder[n + 1] \in Purging
  <2>1. n + 1 \in 1..6
    BY <1>3
  <2> QED
    BY <2>1, <1>2
<1> QED
  BY <1>1, <1>2, <1>3 DEF AfterPurge

ReqType == [step: Steps, link: Links \cup {Nobody}, form: Forms \cup {Nobody}, found: SUBSET Parts]

LEMMA InitTypeOK == Init => TypeOK
  BY DEF Init, TypeOK, Bookings, NoLink, Accounts, NoAccount, NoRequest, NoDeletion, Steps

\* A request that starts or goes on keeps its type.
LEMMA GoType ==
  ASSUME TypeOK, NEW i \in Instances, NEW step \in Steps, Go(i, step)
  PROVE  req' \in [Instances -> ReqType]
  <1>1. req[i] \in ReqType /\ NoRequest \in ReqType
    BY DEF TypeOK, ReqType, NoRequest, Steps
  <1>2. [req[i] EXCEPT !.step = step] \in ReqType
    BY <1>1 DEF ReqType
  <1> QED
    BY <1>1, <1>2 DEF Go, TypeOK, ReqType

LEMMA BeginType ==
  ASSUME TypeOK, NEW i \in Instances, NEW step \in Steps, NEW l \in Links,
         NEW f \in Forms \cup {Nobody}, NEW found \in SUBSET Parts, Begin(i, step, l, f, found)
  PROVE  TypeOK'
  BY DEF Begin, TypeOK, rows

LEMMA ContinueType ==
  ASSUME TypeOK, NEW i \in Instances, NEW b, Continue(i, b), req[i].form \in Forms
  PROVE  req' \in [Instances -> ReqType] /\ receipts' \subseteq Forms
  <1>1. {"start", "idle"} \subseteq Steps
    BY DEF Steps, Provisioning
  <1>2. req' \in [Instances -> ReqType]
    BY <1>1, GoType DEF Continue
  <1>3. receipts' \subseteq Forms
    BY DEF Continue, TypeOK
  <1> QED
    BY <1>2, <1>3

----------------------------------------------------------------------------
(* The inductive invariant *)

\* Whatever works on a link knows which one; a request that claims or sets up a
\* booking carries a form of that very link.
Working ==
  /\ \A i \in Instances :
       /\ req[i].step # "idle" => req[i].link \in Links
       /\ req[i].step \in Provisioning \cup {"claim"} =>
            req[i].form \in Forms /\ LinkOf[req[i].form] = req[i].link
  /\ \A i \in Instances : del[i].step # "idle" => del[i].link \in Links

Unused == {"none", "pending", "lapsed"}

\* A row has the form that booked it from the claim on, and a plan while booked.
RowsSound ==
  \A l \in Links :
    /\ booking[l].status \in Unused => booking[l].form = Nobody
    /\ booking[l].form # Nobody => LinkOf[booking[l].form] = l
    /\ Booked(l) => booking[l].form # Nobody
    /\ booking[l].plan => Booked(l)

Inv == TypeOK /\ Working /\ RowsSound /\ OneBookingPerEmail

----------------------------------------------------------------------------
(* What a step does to the booking rows: at most one of them changes, and in one of these ways *)

Claimed(l, f) == [booking[l] EXCEPT !.status = "booked", !.form = f, !.plan = TRUE]
Gone == [NoLink EXCEPT !.status = "gone"]

Becomes(l, b) ==
  \/ b = booking[l]
  \/ booking[l] = NoLink /\ b = [booking[l] EXCEPT !.status = "pending"]
  \/ booking[l].status = "pending" /\ b = [booking[l] EXCEPT !.status = "lapsed"]
  \/ \E f \in Forms : LinkOf[f] = l /\ Commits(l, f) /\ b = Claimed(l, f)
  \/ Booked(l) /\ b = [booking[l] EXCEPT !.cand = TRUE]
  \/ b \in {Finished(booking[l]), Cancelled(booking[l]), Unbooked(booking[l]), Gone}

OneRowChanges ==
  \/ booking' = booking
  \/ \E l \in Links : \E b : Becomes(l, b) /\ booking' = [booking EXCEPT ![l] = b]

LEMMA RowSteps ==
  ASSUME TypeOK, Working, Next
  PROVE  OneRowChanges
<1>1. ASSUME NEW l \in Links, CreateLink(l) PROVE OneRowChanges
  BY <1>1 DEF CreateLink, OneRowChanges, Becomes, TypeOK
<1>2. ASSUME NEW l \in Links, LinkLapses(l) PROVE OneRowChanges
  BY <1>2 DEF LinkLapses, OneRowChanges, Becomes, TypeOK
<1>3. ASSUME NEW i \in Instances, ClaimLink(i) PROVE OneRowChanges
  <2>1. req[i].link \in Links /\ req[i].form \in Forms /\ LinkOf[req[i].form] = req[i].link
    BY <1>3 DEF ClaimLink, At, Working
  <2> QED
    BY <1>3, <2>1 DEF ClaimLink, OneRowChanges, Becomes, Claimed
<1>4. ASSUME NEW i \in Instances, LinkCandidate(i) PROVE OneRowChanges
  <2>1. req[i].link \in Links
    BY <1>4 DEF LinkCandidate, At, Working
  <2>2. CASE Booked(req[i].link)
    <3>1. booking' = [booking EXCEPT ![req[i].link] = [booking[req[i].link] EXCEPT !.cand = TRUE]]
      BY <1>4, <2>2 DEF LinkCandidate
    <3> QED
      BY <2>1, <2>2, <3>1 DEF OneRowChanges, Becomes
  <2> QED
    BY <1>4, <2>2 DEF LinkCandidate, OneRowChanges
<1>5. ASSUME NEW i \in Instances, FinishBooking(i) PROVE OneRowChanges
  <2>1. req[i].link \in Links
    BY <1>5 DEF FinishBooking, At, Working
  <2>2. booking' = [booking EXCEPT ![req[i].link] = Finished(booking[req[i].link])]
    BY <1>5 DEF FinishBooking
  <2> QED
    BY <2>1, <2>2 DEF OneRowChanges, Becomes
<1>6. ASSUME NEW i \in Instances, CancelBooking(i) PROVE OneRowChanges
  <2>1. req[i].link \in Links
    BY <1>6 DEF CancelBooking, At, Working
  <2>2. booking' = [booking EXCEPT ![req[i].link] = Cancelled(booking[req[i].link])]
    BY <1>6 DEF CancelBooking
  <2> QED
    BY <2>1, <2>2 DEF OneRowChanges, Becomes
<1>7. ASSUME NEW i \in Instances, UnbookExam(i) PROVE OneRowChanges
  <2>1. del[i].link \in Links
    BY <1>7 DEF UnbookExam, Working
  <2>2. booking' = [booking EXCEPT ![del[i].link] = Unbooked(booking[del[i].link])]
    BY <1>7 DEF UnbookExam
  <2> QED
    BY <2>1, <2>2 DEF OneRowChanges, Becomes
<1>8. ASSUME NEW i \in Instances, PurgeStep(i) PROVE OneRowChanges
  <2>1. PICK n \in DOMAIN PurgeOrder :
          At(i, PurgeOrder[n]) /\ (booking' = booking \/ booking' = [booking EXCEPT ![req[i].link] = Gone])
    BY <1>8 DEF PurgeStep, Gone
  <2>2. req[i].link \in Links
    BY <2>1, PurgeSteps DEF At, Working, Purging, PurgeOrder
  <2> QED
    BY <2>1, <2>2 DEF OneRowChanges, Becomes
<1>9. ASSUME NEW i \in Instances, NEW f \in Forms, SubmitForm(i, f) PROVE OneRowChanges
  <2>1. booking' = booking
    BY <1>9 DEF SubmitForm, Begin, rows
  <2> QED
    BY <2>1 DEF OneRowChanges
<1>10. ASSUME NEW i \in Instances,
              ReadBooking(i) \/ InsertCandidate(i) \/ ReadCandidate(i) \/ InsertAccount(i) \/ InsertExam(i)
       PROVE  OneRowChanges
  <2>1. booking' = booking
    BY <1>10 DEF ReadBooking, InsertCandidate, ReadCandidate, InsertAccount, InsertExam, rows
  <2> QED
    BY <2>1 DEF OneRowChanges
<1>11. ASSUME NEW i \in Instances, CloseExam(i) \/ RemoveExam(i) \/ Fail(i) PROVE OneRowChanges
  <2>1. booking' = booking
    BY <1>11 DEF CloseExam, RemoveExam, Fail, rows
  <2> QED
    BY <2>1 DEF OneRowChanges
<1>12. ASSUME NEW l \in Links, ExamCloses(l) PROVE OneRowChanges
  BY <1>12 DEF ExamCloses, OneRowChanges
<1>13. ASSUME NEW i \in Instances, NEW l \in Links, RepairLink(i, l) \/ CancelLink(i, l) \/ PurgePerson(i, l)
                                                   \/ DeleteExam(i, l)
       PROVE  OneRowChanges
  <2>1. booking' = booking
    BY <1>13 DEF RepairLink, CancelLink, PurgePerson, DeleteExam, Begin, rows
  <2> QED
    BY <2>1 DEF OneRowChanges
<1> QED
  BY <1>1, <1>2, <1>3, <1>4, <1>5, <1>6, <1>7, <1>8, <1>9, <1>10, <1>11, <1>12, <1>13 DEF Next, Provision

----------------------------------------------------------------------------
(* What such a change preserves *)

RowSound(l, b) ==
  /\ b.status \in Unused => b.form = Nobody
  /\ b.form # Nobody => LinkOf[b.form] = l
  /\ b.status = "booked" => b.form # Nobody
  /\ b.plan => b.status = "booked"

LEMMA BecomesSound ==
  ASSUME TypeOK, RowsSound, NEW l \in Links, NEW b, Becomes(l, b)
  PROVE  b \in Bookings /\ RowSound(l, b)
<1> USE DEF Bookings, RowSound
<1>1. booking[l] \in Bookings /\ RowSound(l, booking[l])
  BY DEF TypeOK, RowsSound, Booked
<1>2. CASE b = booking[l]
  BY <1>1, <1>2
<1>3. CASE booking[l] = NoLink /\ b = [booking[l] EXCEPT !.status = "pending"]
  <2>1. b \in Bookings /\ b.status = "pending" /\ b.form = booking[l].form /\ b.plan = booking[l].plan
    BY <1>1, <1>3
  <2>2. b.form = Nobody /\ b.plan = FALSE
    BY <1>3, <2>1 DEF NoLink
  <2> QED
    BY <2>1, <2>2
<1>4. CASE booking[l].status = "pending" /\ b = [booking[l] EXCEPT !.status = "lapsed"]
  BY <1>1, <1>4 DEF Unused
<1>5. ASSUME NEW f \in Forms, LinkOf[f] = l, b = Claimed(l, f) PROVE b \in Bookings /\ RowSound(l, b)
  BY <1>1, <1>5 DEF Claimed, Unused
<1>6. CASE Booked(l) /\ b = [booking[l] EXCEPT !.cand = TRUE]
  BY <1>1, <1>6 DEF Booked, Unused
<1>7. CASE b = Finished(booking[l])
  BY <1>1, <1>7 DEF Finished, Unused
<1>8. CASE b = Cancelled(booking[l])
  BY <1>1, <1>8 DEF Cancelled, Unused
<1>9. CASE b = Unbooked(booking[l])
  BY <1>1, <1>9 DEF Unbooked, Unused
<1>10. CASE b = Gone
  BY <1>10 DEF Gone, NoLink, Unused
<1> QED
  BY <1>2, <1>3, <1>4, <1>5, <1>6, <1>7, <1>8, <1>9, <1>10 DEF Becomes

\* Only a claim books a link, and a claim looks at every other row.
LEMMA BecomesBooked ==
  ASSUME TypeOK, NEW l \in Links, NEW b, Becomes(l, b), b.status = "booked"
  PROVE  \/ Booked(l) /\ b.form = booking[l].form
         \/ \E f \in Forms : Commits(l, f) /\ b.form = f
<1>1. booking[l] \in Bookings
  BY DEF TypeOK
<1>2. CASE b = booking[l]
  BY <1>2 DEF Booked
<1>3. CASE b = [booking[l] EXCEPT !.status = "pending"] \/ b = [booking[l] EXCEPT !.status = "lapsed"]
  BY <1>1, <1>3 DEF Bookings
<1>4. CASE \E f \in Forms : Commits(l, f) /\ b = Claimed(l, f)
  <2>1. PICK f \in Forms : Commits(l, f) /\ b = Claimed(l, f)
    BY <1>4
  <2>2. b.form = f
    BY <1>1, <2>1 DEF Claimed, Bookings
  <2> QED
    BY <2>1, <2>2
<1>5. CASE Booked(l) /\ b = [booking[l] EXCEPT !.cand = TRUE]
  BY <1>1, <1>5 DEF Bookings
<1>6. CASE b = Finished(booking[l])
  BY <1>1, <1>6 DEF Booked, Finished, Bookings
<1>7. CASE b = Cancelled(booking[l])
  BY <1>1, <1>7 DEF Booked, Cancelled, Bookings
<1>8. CASE b = Unbooked(booking[l])
  BY <1>1, <1>8 DEF Booked, Unbooked, Bookings
<1>9. CASE b = Gone
  BY <1>9 DEF Gone, NoLink
<1>10. \/ b = booking[l] \/ b = [booking[l] EXCEPT !.status = "pending"]
       \/ b = [booking[l] EXCEPT !.status = "lapsed"]
       \/ \E f \in Forms : Commits(l, f) /\ b = Claimed(l, f)
       \/ Booked(l) /\ b = [booking[l] EXCEPT !.cand = TRUE]
       \/ b = Finished(booking[l]) \/ b = Cancelled(booking[l]) \/ b = Unbooked(booking[l]) \/ b = Gone
  BY Zenon DEF Becomes
<1> QED
  BY <1>2, <1>3, <1>4, <1>5, <1>6, <1>7, <1>8, <1>9, <1>10

LEMMA RowsPreserved ==
  ASSUME Inv, OneRowChanges
  PROVE  booking' \in [Links -> Bookings] /\ RowsSound' /\ OneBookingPerEmail'
<1>1. CASE booking' = booking
  BY <1>1 DEF Inv, TypeOK, RowsSound, OneBookingPerEmail, Booked
<1>2. ASSUME NEW l \in Links, NEW b, Becomes(l, b), booking' = [booking EXCEPT ![l] = b]
      PROVE  booking' \in [Links -> Bookings] /\ RowsSound' /\ OneBookingPerEmail'
  <2>1. b \in Bookings /\ RowSound(l, b)
    BY <1>2, BecomesSound DEF Inv
  <2>2. booking' \in [Links -> Bookings]
    BY <1>2, <2>1 DEF Inv, TypeOK
  <2>3. booking'[l] = b /\ \A m \in Links \ {l} : booking'[m] = booking[m]
    BY <1>2 DEF Inv, TypeOK
  <2>4. RowsSound'
    BY <2>1, <2>3 DEF Inv, RowsSound, RowSound, Booked
  <2>5. ASSUME NEW m \in Links \ {l}, b.status = "booked", Booked(m)
        PROVE  EmailOf[b.form] # EmailOf[booking[m].form]
    <3>1. CASE Booked(l) /\ b.form = booking[l].form
      BY <2>5, <3>1 DEF Inv, OneBookingPerEmail
    <3>2. ASSUME NEW f \in Forms, Commits(l, f), b.form = f PROVE EmailOf[b.form] # EmailOf[booking[m].form]
      BY <2>5, <3>2 DEF Commits, AddressFree
    <3> QED
      BY <1>2, <2>5, <3>1, <3>2, BecomesBooked DEF Inv
  <2>6. OneBookingPerEmail'
    BY <2>3, <2>5 DEF Inv, OneBookingPerEmail, Booked
  <2> QED
    BY <2>2, <2>4, <2>6
<1> QED
  BY <1>1, <1>2 DEF OneRowChanges

----------------------------------------------------------------------------
(* Requests and deletions *)

\* What an instance may turn to next, seen from its own request.
ReqGoes(i) ==
  \/ req' = req
  \/ \E step \in Steps : Go(i, step) /\ (step \in Provisioning => req[i].step \in Provisioning \cup {"claim"})
                          /\ step # "claim" /\ req[i].step # "idle"
  \/ \E step \in Steps, l \in Links, f \in Forms \cup {Nobody}, found \in SUBSET Parts :
       /\ req' = [req EXCEPT ![i] = [step |-> step, link |-> l, form |-> f, found |-> found]]
       /\ step \in Provisioning \cup {"claim"} => f \in Forms /\ LinkOf[f] = l
  \/ req' = [req EXCEPT ![i] = NoRequest]

LEMMA ReqPreserved ==
  ASSUME TypeOK, Working, NEW i \in Instances, ReqGoes(i)
  PROVE  /\ req' \in [Instances -> ReqType]
         /\ \A j \in Instances :
              /\ req'[j].step # "idle" => req'[j].link \in Links
              /\ req'[j].step \in Provisioning \cup {"claim"} =>
                   req'[j].form \in Forms /\ LinkOf[req'[j].form] = req'[j].link
<1> DEFINE Sound(r) == /\ r.step # "idle" => r.link \in Links
                       /\ r.step \in Provisioning \cup {"claim"} => r.form \in Forms /\ LinkOf[r.form] = r.link
<1>1. req \in [Instances -> ReqType] /\ \A j \in Instances : Sound(req[j])
  BY DEF TypeOK, ReqType, Working
<1>2. NoRequest \in ReqType /\ Sound(NoRequest)
  BY DEF NoRequest, ReqType, Steps, Provisioning
<1>3. ASSUME NEW r \in ReqType, Sound(r), req' = [req EXCEPT ![i] = r]
      PROVE  req' \in [Instances -> ReqType] /\ \A j \in Instances : Sound(req'[j])
  BY <1>1, <1>3
<1>4. ASSUME NEW step \in Steps, Go(i, step), step \in Provisioning => req[i].step \in Provisioning \cup {"claim"},
             step # "claim", step # "idle", req[i].step # "idle"
      PROVE  [req[i] EXCEPT !.step = step] \in ReqType /\ Sound([req[i] EXCEPT !.step = step])
  BY <1>1, <1>4 DEF ReqType
<1>5. ASSUME NEW step \in Steps, NEW l \in Links, NEW f \in Forms \cup {Nobody}, NEW found \in SUBSET Parts,
             step \in Provisioning \cup {"claim"} => f \in Forms /\ LinkOf[f] = l
      PROVE  LET r == [step |-> step, link |-> l, form |-> f, found |-> found] IN r \in ReqType /\ Sound(r)
  BY <1>5 DEF ReqType
<1>6. req' \in [Instances -> ReqType] /\ \A j \in Instances : Sound(req'[j])
  <2>1. CASE req' = req
    BY <1>1, <2>1
  <2>2. CASE req' = [req EXCEPT ![i] = NoRequest]
    BY <1>2, <1>3, <2>2
  <2>3. ASSUME NEW step \in Steps, Go(i, step), step \in Provisioning => req[i].step \in Provisioning \cup {"claim"},
               step # "claim", req[i].step # "idle"
        PROVE  req' \in [Instances -> ReqType] /\ \A j \in Instances : Sound(req'[j])
    <3>1. CASE step = "idle"
      BY <1>2, <1>3, <2>3, <3>1 DEF Go
    <3>2. CASE step # "idle"
      <4>1. req' = [req EXCEPT ![i] = [req[i] EXCEPT !.step = step]]
        BY <2>3, <3>2 DEF Go
      <4>2. [req[i] EXCEPT !.step = step] \in ReqType /\ Sound([req[i] EXCEPT !.step = step])
        BY <1>4, <2>3, <3>2
      <4> HIDE DEF Sound
      <4> QED
        BY <1>3, <4>1, <4>2
    <3> QED
      BY <3>1, <3>2
  <2>4. ASSUME NEW step \in Steps, NEW l \in Links, NEW f \in Forms \cup {Nobody}, NEW found \in SUBSET Parts,
               req' = [req EXCEPT ![i] = [step |-> step, link |-> l, form |-> f, found |-> found]],
               step \in Provisioning \cup {"claim"} => f \in Forms /\ LinkOf[f] = l
        PROVE  req' \in [Instances -> ReqType] /\ \A j \in Instances : Sound(req'[j])
    <3> HIDE DEF Sound
    <3> QED
      BY <1>3, <1>5, <2>4
  <2> QED
    BY <2>1, <2>2, <2>3, <2>4 DEF ReqGoes
<1> QED
  BY <1>6

\* Each action moves the requests in one of these ways, and keeps the types of the rest.
OthersTyped ==
  /\ candidate' \in [Links -> {"none", "live", "deleting"}]
  /\ account' \in [Emails -> Accounts]
  /\ exam' \in [Links -> {"none", "open", "submitted", "cancelled"}]
  /\ receipts' \subseteq Forms

DelType == [step: {"idle", "unbook", "remove"}, link: Links \cup {Nobody}]

DelGoes ==
  /\ del' \in [Instances -> DelType]
  /\ \A i \in Instances : del'[i].step # "idle" => del'[i].link \in Links

LEMMA StepShape ==
  ASSUME Inv, Next
  PROVE  OthersTyped /\ DelGoes /\ (req' = req \/ \E i \in Instances : ReqGoes(i))
<1> DEFINE Goal == OthersTyped /\ DelGoes /\ (req' = req \/ \E i \in Instances : ReqGoes(i))
           Same == UNCHANGED <<candidate, account, exam, receipts>>
<1> USE DEF Inv
<1>s. Same => OthersTyped
  BY DEF OthersTyped, TypeOK
<1>d. UNCHANGED del => DelGoes
  BY DEF DelGoes, DelType, TypeOK, Working
<1>t. /\ {"idle", "candidate", "insert", "link", "start", "account", "exam", "finish", "claim",
         "cancel", "close"} \cup Purging \subseteq Steps
      /\ {"candidate", "insert", "link", "start", "account", "exam", "finish"} = Provisioning
      /\ \A p \in Purging : p \notin Provisioning \cup {"claim", "idle"}
  BY PurgeSteps DEF Steps, Provisioning, Purging, PurgeOrder
\* A booking request at a provisioning step (or a claim) that goes on with one.
<1>g. ASSUME NEW i \in Instances, req[i].step \in Provisioning \cup {"claim"},
             NEW step \in Provisioning \cup {"idle"}, Go(i, step)
      PROVE  ReqGoes(i)
  BY <1>g, <1>t DEF ReqGoes, Provisioning
\* Continue reports the form of a request that has one.
<1>c. ASSUME NEW i \in Instances, req[i].step \in Provisioning, NEW b, Continue(i, b)
      PROVE  ReqGoes(i) /\ receipts' \subseteq Forms
  <2>1. PICK step \in {"start", "idle"} : Go(i, step)
    BY <1>c DEF Continue
  <2>2. ReqGoes(i)
    BY <1>c, <1>g, <2>1 DEF Provisioning
  <2>3. req[i].form \in Forms
    BY <1>c DEF Working
  <2> QED
    BY <1>c, <2>2, <2>3, ContinueType
<1>1. ASSUME NEW l \in Links, CreateLink(l) \/ LinkLapses(l) PROVE Goal
  BY <1>1, <1>s, <1>d DEF CreateLink, LinkLapses
<1>2. ASSUME NEW l \in Links, ExamCloses(l) PROVE Goal
  <2>1. exam' \in [Links -> {"none", "open", "submitted", "cancelled"}]
    BY <1>2 DEF ExamCloses, Expired, TypeOK
  <2> QED
    BY <1>2, <1>d, <2>1 DEF ExamCloses, OthersTyped, TypeOK
<1>3. ASSUME NEW i \in Instances, NEW step \in Steps, NEW l \in Links, NEW f \in Forms \cup {Nobody},
             NEW found \in SUBSET Parts, Begin(i, step, l, f, found),
             step \in Provisioning \cup {"claim"} => f \in Forms /\ LinkOf[f] = l
      PROVE  Goal
  <2>1. ReqGoes(i)
    BY <1>3 DEF Begin, ReqGoes
  <2> QED
    BY <1>3, <1>s, <1>d, <2>1 DEF Begin, rows
<1>4. ASSUME NEW i \in Instances, NEW f \in Forms, SubmitForm(i, f) PROVE Goal
  <2>1. "candidate" \in Steps /\ "claim" \in Steps
    BY <1>t
  <2>2. LinkOf[f] \in Links
    BY BookingAssumption
  <2>3. Begin(i, "candidate", LinkOf[f], f, {}) \/ Begin(i, "claim", LinkOf[f], f, {})
    BY <1>4 DEF SubmitForm
  <2> QED
    BY <1>3, <2>1, <2>2, <2>3
<1>5. ASSUME NEW i \in Instances, NEW l \in Links, RepairLink(i, l) PROVE Goal
  <2>1. booking[l].form \in Forms /\ LinkOf[booking[l].form] = l
    BY <1>5 DEF RepairLink, TypeOK, Bookings, RowsSound
  <2> QED
    BY <1>5, <1>3, <1>t, <2>1 DEF RepairLink
<1>6. ASSUME NEW i \in Instances, NEW l \in Links, CancelLink(i, l) PROVE Goal
  <2>1. Begin(i, "cancel", l, Nobody, {})
    BY <1>6 DEF CancelLink
  <2>2. "cancel" \in Steps /\ "cancel" \notin Provisioning \cup {"claim"}
    BY <1>t DEF Provisioning
  <2> QED
    BY <1>3, <2>1, <2>2
<1>7. ASSUME NEW i \in Instances, NEW l \in Links, PurgePerson(i, l) PROVE Goal
  <2>1. PICK found \in SUBSET Parts : Begin(i, "flag", l, Nobody, found)
    BY <1>7 DEF PurgePerson
  <2>2. "flag" \in Steps /\ "flag" \notin Provisioning \cup {"claim"}
    BY PurgeSteps DEF Purging, PurgeOrder, Steps, Provisioning
  <2> QED
    BY <2>1, <2>2, <1>3
<1>8. ASSUME NEW i \in Instances, ClaimLink(i) PROVE Goal
  <2>1. ReqGoes(i)
    BY <1>8, <1>g DEF ClaimLink, At, Provisioning
  <2> QED
    BY <1>8, <1>s, <1>d, <2>1 DEF ClaimLink
<1>9. ASSUME NEW i \in Instances, ReadBooking(i) PROVE Goal
  <2>1. req[i].step \in Provisioning
    BY <1>9 DEF ReadBooking, At, Provisioning
  <2>2. ReqGoes(i) /\ receipts' \subseteq Forms
    <3>1. CASE Go(i, "insert") /\ UNCHANGED receipts
      BY <2>1, <3>1, <1>g DEF Provisioning, TypeOK
    <3>2. CASE Continue(i, booking[req[i].link])
      BY <2>1, <3>2, <1>c
    <3> QED
      BY <1>9, <3>1, <3>2 DEF ReadBooking
  <2> QED
    BY <1>9, <1>d, <2>2 DEF ReadBooking, rows, OthersTyped, TypeOK
<1>10. ASSUME NEW i \in Instances, InsertCandidate(i) PROVE Goal
  <2>1. ReqGoes(i)
    BY <1>10, <1>g DEF InsertCandidate, At, Provisioning
  <2>2. candidate' \in [Links -> {"none", "live", "deleting"}]
    BY <1>10 DEF InsertCandidate, TypeOK
  <2> QED
    BY <1>10, <1>d, <2>1, <2>2 DEF InsertCandidate, OthersTyped, TypeOK
<1>11. ASSUME NEW i \in Instances, LinkCandidate(i) PROVE Goal
  <2>1. req[i].step \in Provisioning /\ Continue(i, booking'[req[i].link])
    BY <1>11 DEF LinkCandidate, At, Provisioning
  <2>2. ReqGoes(i) /\ receipts' \subseteq Forms
    BY <2>1, <1>c
  <2> QED
    BY <1>11, <1>d, <2>2 DEF LinkCandidate, OthersTyped, TypeOK
<1>12. ASSUME NEW i \in Instances, ReadCandidate(i) PROVE Goal
  <2>1. ReqGoes(i)
    BY <1>12, <1>g DEF ReadCandidate, At, Provisioning
  <2> QED
    BY <1>12, <1>s, <1>d, <2>1 DEF ReadCandidate, rows
<1>13. ASSUME NEW i \in Instances, InsertAccount(i) PROVE Goal
  <2>1. ReqGoes(i)
    BY <1>13, <1>g DEF InsertAccount, At, Provisioning
  <2>2. req[i].link \in Links /\ req[i].form \in Forms
    BY <1>13 DEF InsertAccount, At, Working, Provisioning
  <2>3. account' \in [Emails -> Accounts]
    BY <1>13, <2>2 DEF InsertAccount, TypeOK, Accounts
  <2> QED
    BY <1>13, <1>d, <2>1, <2>3 DEF InsertAccount, OthersTyped, TypeOK
<1>14. ASSUME NEW i \in Instances, InsertExam(i) PROVE Goal
  <2>1. ReqGoes(i)
    BY <1>14, <1>g DEF InsertExam, At, Provisioning
  <2>2. exam' \in [Links -> {"none", "open", "submitted", "cancelled"}]
    BY <1>14 DEF InsertExam, TypeOK
  <2> QED
    BY <1>14, <1>d, <2>1, <2>2 DEF InsertExam, OthersTyped, TypeOK
<1>15. ASSUME NEW i \in Instances, FinishBooking(i) PROVE Goal
  <2>1. req[i].step \in Provisioning /\ Continue(i, booking'[req[i].link])
    BY <1>15 DEF FinishBooking, At, Provisioning
  <2>2. ReqGoes(i) /\ receipts' \subseteq Forms
    BY <2>1, <1>c
  <2> QED
    BY <1>15, <1>d, <2>2 DEF FinishBooking, OthersTyped, TypeOK
<1>16. ASSUME NEW i \in Instances, CancelBooking(i) PROVE Goal
  <2>1. PICK step \in {"close", "idle"} : Go(i, step)
    BY <1>16 DEF CancelBooking
  <2>2. ReqGoes(i)
    BY <1>16, <1>t, <2>1 DEF CancelBooking, At, ReqGoes, Provisioning
  <2> QED
    BY <1>16, <1>s, <1>d, <2>2 DEF CancelBooking
<1>17. ASSUME NEW i \in Instances, CloseExam(i) PROVE Goal
  <2>1. ReqGoes(i)
    BY <1>17, <1>t DEF CloseExam, At, ReqGoes, Provisioning
  <2>2. exam' \in [Links -> {"none", "open", "submitted", "cancelled"}]
    BY <1>17 DEF CloseExam, Expired, TypeOK
  <2> QED
    BY <1>17, <1>d, <2>1, <2>2 DEF CloseExam, OthersTyped, TypeOK
<1>18. ASSUME NEW i \in Instances, NEW l \in Links, DeleteExam(i, l) PROVE Goal
  <2>1. DelGoes
    BY <1>18 DEF DeleteExam, DelGoes, DelType, TypeOK, Working
  <2> QED
    BY <1>18, <1>s, <2>1 DEF DeleteExam, rows
<1>19. ASSUME NEW i \in Instances, UnbookExam(i) PROVE Goal
  <2>1. DelGoes
    BY <1>19 DEF UnbookExam, DelGoes, DelType, TypeOK, Working
  <2> QED
    BY <1>19, <1>s, <2>1 DEF UnbookExam
<1>20. ASSUME NEW i \in Instances, RemoveExam(i) PROVE Goal
  <2>1. DelGoes
    BY <1>20 DEF RemoveExam, DelGoes, DelType, TypeOK, Working, NoDeletion
  <2>2. exam' \in [Links -> {"none", "open", "submitted", "cancelled"}]
    BY <1>20 DEF RemoveExam, TypeOK
  <2> QED
    BY <1>20, <2>1, <2>2 DEF RemoveExam, OthersTyped, TypeOK
<1>21. ASSUME NEW i \in Instances, PurgeStep(i) PROVE Goal
  <2>1. PICK n \in 1..6 : At(i, PurgeOrder[n]) /\ Go(i, AfterPurge(n))
    BY <1>21, PurgeSteps DEF PurgeStep
  <2>2. ReqGoes(i)
    BY <2>1, PurgeSteps, <1>t DEF ReqGoes, At
  <2>3. candidate' \in [Links -> {"none", "live", "deleting"}]
    BY <1>21 DEF PurgeStep, TypeOK
  <2>4. account' \in [Emails -> Accounts]
    <3>1. \/ account' = account
          \/ account' = [e \in Emails |-> IF Owned(req[i].link, account[e])
                                           THEN [account[e] EXCEPT !.active = FALSE] ELSE account[e]]
          \/ account' = [e \in Emails |-> IF Owned(req[i].link, account[e]) THEN NoAccount ELSE account[e]]
      BY <1>21 DEF PurgeStep
    <3>2. ASSUME NEW e \in Emails PROVE account[e] \in Accounts /\ [account[e] EXCEPT !.active = FALSE] \in Accounts
      <4>1. account[e] \in [owner: Links \cup {Nobody}, active: BOOLEAN]
        BY DEF TypeOK, Accounts
      <4>2. [account[e] EXCEPT !.active = FALSE] \in [owner: Links \cup {Nobody}, active: BOOLEAN]
        BY <4>1
      <4> QED
        BY <4>1, <4>2 DEF Accounts
    <3>3. NoAccount \in Accounts
      BY DEF NoAccount, Accounts
    <3>4. account \in [Emails -> Accounts]
      BY DEF TypeOK
    <3> QED
      BY <3>1, <3>2, <3>3, <3>4
  <2>5. exam' \in [Links -> {"none", "open", "submitted", "cancelled"}]
    BY <1>21 DEF PurgeStep, TypeOK
  <2>6. receipts' \subseteq Forms /\ UNCHANGED del
    BY <1>21 DEF PurgeStep, TypeOK
  <2> QED
    BY <1>d, <2>2, <2>3, <2>4, <2>5, <2>6 DEF OthersTyped
<1>22. ASSUME NEW i \in Instances, Fail(i) PROVE Goal
  <2>1. req' = req \/ ReqGoes(i)
    BY <1>22 DEF Fail, ReqGoes
  <2>2. DelGoes
    BY <1>22, <1>d DEF Fail, DelGoes, DelType, TypeOK, Working, NoDeletion
  <2> QED
    BY <1>22, <1>s, <2>1, <2>2 DEF Fail, rows
<1> QED
  BY <1>1, <1>2, <1>4, <1>5, <1>6, <1>7, <1>8, <1>9, <1>10, <1>11, <1>12, <1>13, <1>14, <1>15, <1>16, <1>17,
     <1>18, <1>19, <1>20, <1>21, <1>22 DEF Next, Provision

----------------------------------------------------------------------------
(* The theorems *)

LEMMA InitInv == Init => Inv
<1> SUFFICES ASSUME Init PROVE Inv
  OBVIOUS
<1>1. Working
  BY DEF Init, Working, NoRequest, NoDeletion, Provisioning
<1>2. RowsSound /\ OneBookingPerEmail
  BY DEF Init, RowsSound, OneBookingPerEmail, Booked, NoLink
<1> QED
  BY <1>1, <1>2, InitTypeOK DEF Inv

LEMMA NextInv == Inv /\ [Next]_vars => Inv'
<1> SUFFICES ASSUME Inv, [Next]_vars PROVE Inv'
  OBVIOUS
<1>1. CASE Next
  <2>1. booking' \in [Links -> Bookings] /\ RowsSound' /\ OneBookingPerEmail'
    BY <1>1, RowSteps, RowsPreserved DEF Inv
  <2>2. OthersTyped /\ DelGoes /\ (req' = req \/ \E i \in Instances : ReqGoes(i))
    BY <1>1, StepShape
  <2>3. /\ req' \in [Instances -> ReqType]
        /\ \A j \in Instances :
              /\ req'[j].step # "idle" => req'[j].link \in Links
              /\ req'[j].step \in Provisioning \cup {"claim"} =>
                   req'[j].form \in Forms /\ LinkOf[req'[j].form] = req'[j].link
    <3>1. CASE req' = req
      BY <3>1 DEF Inv, TypeOK, ReqType, Working
    <3>2. ASSUME NEW i \in Instances, ReqGoes(i)
          PROVE  /\ req' \in [Instances -> ReqType]
                 /\ \A j \in Instances :
                      /\ req'[j].step # "idle" => req'[j].link \in Links
                      /\ req'[j].step \in Provisioning \cup {"claim"} =>
                           req'[j].form \in Forms /\ LinkOf[req'[j].form] = req'[j].link
      BY <3>2, ReqPreserved DEF Inv
    <3> QED
      BY <2>2, <3>1, <3>2
  <2>4. TypeOK'
    BY <2>1, <2>2, <2>3 DEF TypeOK, OthersTyped, DelGoes, DelType, ReqType
  <2>5. Working'
    BY <2>2, <2>3 DEF Working, DelGoes
  <2> QED
    BY <2>1, <2>4, <2>5 DEF Inv
<1>2. CASE UNCHANGED vars
  <2>1. UNCHANGED <<booking, candidate, account, exam, req, del, receipts>>
    BY <1>2 DEF vars, rows
  <2> QED
    BY <2>1 DEF Inv, TypeOK, Working, RowsSound, OneBookingPerEmail, Booked
<1> QED
  BY <1>1, <1>2

\* The invariant holds of every reachable state (bookings.mjs as a whole).
THEOREM Inductive == Spec => []Inv
  BY InitInv, NextInv, PTL DEF Spec

\* Every variable stays in its type, for every set of links, forms and instances.
THEOREM BookingTypes == Spec => []TypeOK
<1>1. Inv => TypeOK
  BY DEF Inv
<1> QED
  BY <1>1, Inductive, PTL

\* However many instances take forms at once, no address is booked twice
\* (bookingCommitPatch in bookings.mjs).
THEOREM AddressesBookedOnce == Spec => []OneBookingPerEmail
<1>1. Inv => OneBookingPerEmail
  BY DEF Inv
<1> QED
  BY <1>1, Inductive, PTL

\* A row keeps a password hash and a paper only while it is booked.
THEOREM PlansEnd == Spec => []PlanOnlyWhileBooked
<1>1. Inv => PlanOnlyWhileBooked
  BY DEF Inv, RowsSound, PlanOnlyWhileBooked
<1> QED
  BY <1>1, Inductive, PTL

\* The form a link was booked with is never replaced (the claim in bookings.mjs), and a
\* cancelled or revoked link is left alone by whatever was still running (the
\* conditional changes of ensureCandidate and provisionBooking).
THEOREM RowsStand == Spec => SettledRowsStand
<1> DEFINE Kept == \A l \in Links :
                     \/ booking'[l].status = "gone"
                     \/ /\ booking[l].form # Nobody => booking'[l].form = booking[l].form
                        /\ booking[l].status \in {"cancelled", "revoked"} => booking'[l] = booking[l]
<1>1. Inv /\ [Next]_vars => [Kept]_vars
  <2> SUFFICES ASSUME Inv, Next PROVE Kept
    OBVIOUS
  <2>1. CASE booking' = booking
    BY <2>1
  <2>2. ASSUME NEW l \in Links, NEW b, Becomes(l, b), booking' = [booking EXCEPT ![l] = b] PROVE Kept
    <3>1. booking[l].form # Nobody => b.form = booking[l].form \/ b.status = "gone"
      <4>1. booking[l] \in Bookings /\ (booking[l].status \in Unused => booking[l].form = Nobody)
        BY DEF Inv, TypeOK, RowsSound
      <4>2. \A f \in Forms : Commits(l, f) => booking[l].form = Nobody
        BY <4>1 DEF Commits, Unused
      <4> QED
        BY <2>2, <4>1, <4>2 DEF Becomes, Finished, Cancelled, Unbooked, Gone, NoLink, Bookings
    <3>2. booking[l].status \in {"cancelled", "revoked"} => b = booking[l] \/ b.status = "gone"
      BY <2>2 DEF Becomes, Booked, Commits, Finished, Cancelled, Unbooked, Gone, NoLink
    <3>3. booking'[l] = b /\ \A m \in Links \ {l} : booking'[m] = booking[m]
      BY <2>2 DEF Inv, TypeOK
    <3> QED
      BY <3>1, <3>2, <3>3
  <2> QED
    BY <2>1, <2>2, RowSteps DEF Inv, OneRowChanges
<1> QED
  BY <1>1, Inductive, PTL DEF Spec, SettledRowsStand

----------------------------------------------------------------------------
(* Setting up a booking, when nobody deletes a person *)

SetUp(l) ==
  /\ candidate[l] = "live"
  /\ account[EmailOf[booking[l].form]] = [owner |-> l, active |-> TRUE]
  /\ exam[l] \in {"open", "submitted"}

\* Everything that hangs on a link came after the form that booked it.
LinkSound(l) ==
  /\ booking[l].linked => booking[l].form # Nobody
  /\ exam[l] # "none" => booking[l].form # Nobody
  /\ exam[l] = "cancelled" => ~Booked(l)
  /\ candidate[l] # "deleting"
  /\ Booked(l) /\ booking[l].linked => SetUp(l)

\* What a booking request has reached, and what an exam deletion has.
OfBooking(i) ==
  /\ req[i].step \notin Purging
  /\ req[i].step \in Provisioning => booking[req[i].link].form = req[i].form
  /\ req[i].step \in {"account", "exam", "finish"} => candidate[req[i].link] = "live"
  /\ req[i].step \in {"exam", "finish"} =>
       account[EmailOf[req[i].form]] = [owner |-> req[i].link, active |-> TRUE]
  /\ req[i].step = "finish" => exam[req[i].link] # "none" \/ ~Booked(req[i].link)

OfDeletion(i) ==
  /\ del[i].step # "idle" => booking[del[i].link].form # Nobody
  /\ del[i].step = "remove" => ~Booked(del[i].link)

SetUpInv ==
  /\ \A l \in Links : LinkSound(l)
  /\ \A i \in Instances : OfBooking(i) /\ OfDeletion(i)
  /\ ReceiptsAreTrue

\* What no step takes back.
Grows ==
  /\ \A l \in Links :
       /\ booking[l].form # Nobody => booking'[l].form = booking[l].form
       /\ booking[l].form # Nobody /\ ~Booked(l) => ~Booked(l)'
       /\ booking[l].linked => booking'[l].linked
       /\ candidate[l] = "live" => candidate'[l] = "live"
       /\ exam[l] # "none" => exam'[l] # "none" \/ ~Booked(l)'
  /\ \A e \in Emails : account[e] # NoAccount => account'[e] = account[e]

LEMMA AccountsDiffer == \A l \in Links : [owner |-> l, active |-> TRUE] # NoAccount
  BY DEF NoAccount

\* A request that sets up a booking carries the form of its row.
LEMMA Carries ==
  ASSUME Inv, NEW i \in Instances
  PROVE  /\ req[i].step # "idle" => req[i].link \in Links
         /\ req[i].step \in Provisioning \cup {"claim"} =>
              /\ req[i].link \in Links /\ req[i].form \in Forms /\ req[i].form # Nobody
              /\ LinkOf[req[i].form] = req[i].link /\ EmailOf[req[i].form] \in Emails
  BY DEF Inv, Working, Provisioning

LEMMA KeepsForm ==
  ASSUME Inv, SetUpInv, Grows, NEW i \in Instances, req[i].step \in Provisioning
  PROVE  booking'[req[i].link].form = req[i].form
<1>1. req[i].link \in Links /\ req[i].form # Nobody
  BY Carries
<1>2. booking[req[i].link].form = req[i].form
  BY DEF SetUpInv, OfBooking
<1> QED
  BY <1>1, <1>2 DEF Grows

LEMMA OthersSetUp ==
  ASSUME Inv, SetUpInv, Grows, NEW j \in Instances, req'[j] = req[j]
  PROVE  OfBooking(j)'
<1>1. /\ req[j].step # "idle" => req[j].link \in Links
      /\ req[j].step \in Provisioning \cup {"claim"} =>
            req[j].form \in Forms /\ LinkOf[req[j].form] = req[j].link
  BY DEF Inv, Working
<1>2. OfBooking(j)
  BY DEF SetUpInv
<1>3. CASE req[j].step \in Provisioning
  <2>1. /\ req[j].link \in Links /\ req[j].form \in Forms /\ req[j].form # Nobody
        /\ EmailOf[req[j].form] \in Emails
    BY <1>1, <1>3
  <2>2. booking'[req[j].link].form = req[j].form
    BY <1>2, <1>3, <2>1 DEF OfBooking, Grows
  <2>3. req[j].step \in {"account", "exam", "finish"} => candidate'[req[j].link] = "live"
    BY <1>2, <2>1 DEF OfBooking, Grows
  <2>4. req[j].step \in {"exam", "finish"} =>
          account'[EmailOf[req[j].form]] = [owner |-> req[j].link, active |-> TRUE]
    BY <1>2, <2>1, AccountsDiffer DEF OfBooking, Grows
  <2>5. req[j].step = "finish" => exam'[req[j].link] # "none" \/ ~Booked(req[j].link)'
    BY <1>2, <1>3, <2>1 DEF OfBooking, Grows
  <2> QED
    BY <1>2, <2>2, <2>3, <2>4, <2>5 DEF OfBooking, Booked
<1>4. CASE req[j].step \notin Provisioning
  BY <1>2, <1>4 DEF OfBooking, Provisioning
<1> QED
  BY <1>3, <1>4

LEMMA DeletionsSetUp ==
  ASSUME Inv, SetUpInv, Grows, NEW j \in Instances, del'[j] = del[j]
  PROVE  OfDeletion(j)'
<1>1. del[j].step # "idle" => del[j].link \in Links
  BY DEF Inv, Working
<1>2. OfDeletion(j) /\ (del[j].step = "remove" => del[j].step # "idle")
  BY DEF SetUpInv
<1>3. del[j].step # "idle" => booking'[del[j].link].form # Nobody
  BY <1>1, <1>2 DEF OfDeletion, Grows
<1>4. del[j].step = "remove" => ~Booked(del[j].link)'
  BY <1>1, <1>2 DEF OfDeletion, Grows
<1> QED
  BY <1>3, <1>4 DEF OfDeletion, Booked

LEMMA ReceiptsSetUp ==
  ASSUME Inv, SetUpInv, Grows, NEW i \in Instances,
         \/ receipts' = receipts
         \/ /\ req[i].step \in Provisioning /\ booking'[req[i].link].linked
            /\ receipts' = receipts \cup {req[i].form}
  PROVE  ReceiptsAreTrue'
<1>1. ASSUME NEW f \in receipts PROVE booking'[LinkOf[f]].form = f /\ booking'[LinkOf[f]].linked
  <2>1. f \in Forms /\ f # Nobody /\ LinkOf[f] \in Links
    BY BookingAssumption DEF Inv, TypeOK
  <2>2. booking[LinkOf[f]].form = f /\ booking[LinkOf[f]].linked
    BY <1>1 DEF SetUpInv, ReceiptsAreTrue
  <2> QED
    BY <2>1, <2>2 DEF Grows
<1>2. req[i].step \in Provisioning =>
        booking'[LinkOf[req[i].form]].form = req[i].form /\ LinkOf[req[i].form] = req[i].link
  BY Carries, KeepsForm
<1> QED
  BY <1>1, <1>2 DEF ReceiptsAreTrue

\* The links, when the rows of one or none changed.
LEMMA LinksSetUp ==
  ASSUME Inv, SetUpInv, Grows, NEW k \in Links, LinkSound(k)',
         \A l \in Links \ {k} : booking'[l] = booking[l] /\ candidate'[l] = candidate[l] /\ exam'[l] = exam[l]
  PROVE  \A l \in Links : LinkSound(l)'
<1> SUFFICES ASSUME NEW l \in Links \ {k} PROVE LinkSound(l)'
  OBVIOUS
<1>1. LinkSound(l)
  BY DEF SetUpInv
<1>2. Booked(l) => EmailOf[booking[l].form] \in Emails
  BY DEF Inv, TypeOK, RowsSound, Bookings
<1>3. Booked(l) /\ booking[l].linked => SetUp(l)'
  BY <1>1, <1>2, AccountsDiffer DEF LinkSound, SetUp, Grows
<1> QED
  BY <1>1, <1>3 DEF LinkSound, Booked

\* A request goes on: req[i] changes its step or ends.
LEMMA RequestGoes ==
  ASSUME Inv, NEW i \in Instances, NEW step, Go(i, step)
  PROVE  /\ \A j \in Instances \ {i} : req'[j] = req[j]
         /\ req'[i].step = step
         /\ step # "idle" => req'[i].link = req[i].link /\ req'[i].form = req[i].form /\ req'[i].found = req[i].found
<1>1. req \in [Instances -> ReqType] /\ req[i] \in ReqType
  BY DEF Inv, TypeOK, ReqType
<1>2. CASE step = "idle"
  BY <1>1, <1>2 DEF Go, NoRequest
<1>3. CASE step # "idle"
  <2>1. req' = [req EXCEPT ![i] = [req[i] EXCEPT !.step = step]]
    BY <1>3 DEF Go
  <2> QED
    BY <1>1, <2>1 DEF ReqType
<1> QED
  BY <1>2, <1>3

LEMMA IdleSetUp ==
  ASSUME NEW i \in Instances, req'[i].step \in {"idle", "claim", "cancel", "close"}
  PROVE  OfBooking(i)'
<1>1. req'[i].step \notin Purging \cup Provisioning
  BY PurgeSteps DEF Purging, PurgeOrder, Provisioning
<1> QED
  BY <1>1 DEF OfBooking, Provisioning

LEMMA AllSetUp ==
  ASSUME Inv, SetUpInv, Grows, NEW i \in Instances,
         \A j \in Instances \ {i} : req'[j] = req[j] /\ del'[j] = del[j],
         OfBooking(i)', OfDeletion(i)', \A l \in Links : LinkSound(l)', ReceiptsAreTrue'
  PROVE  SetUpInv'
  BY OthersSetUp, DeletionsSetUp DEF SetUpInv

\* Nothing in the rows changes.
LEMMA RowsRest ==
  ASSUME SetUpInv, UNCHANGED rows
  PROVE  Grows /\ \A l \in Links : LinkSound(l)'
<1>1. UNCHANGED <<booking, candidate, account, exam>>
  BY DEF rows
<1> QED
  BY <1>1 DEF Grows, SetUpInv, LinkSound, SetUp, Booked

LEMMA BeginSetsUp ==
  ASSUME Inv, SetUpInv, NEW i \in Instances, NEW step, NEW l, NEW f, NEW found,
         Begin(i, step, l, f, found), step \in {"claim", "cancel", "candidate"},
         step = "candidate" => booking[l].form = f
  PROVE  SetUpInv'
<1>1. UNCHANGED <<rows, del, receipts>>
  BY DEF Begin
<1>2. Grows /\ \A x \in Links : LinkSound(x)'
  BY <1>1, RowsRest
<1>3. req'[i] = [step |-> step, link |-> l, form |-> f, found |-> found] /\ \A j \in Instances \ {i} : req'[j] = req[j]
  BY DEF Begin, Inv, TypeOK
<1>4. OfBooking(i)'
  <2>1. CASE step = "candidate"
    <3>1. "candidate" \notin Purging
      BY PurgeSteps DEF Purging, PurgeOrder
    <3>2. booking' = booking
      BY <1>1 DEF rows
    <3> QED
      BY <1>3, <2>1, <3>1, <3>2 DEF OfBooking
  <2> QED
    BY <1>3, <2>1, IdleSetUp
<1>5. OfDeletion(i)' /\ ReceiptsAreTrue'
  BY <1>1, <1>2, DeletionsSetUp, ReceiptsSetUp
<1> QED
  BY <1>1, <1>2, <1>3, <1>4, <1>5, AllSetUp

LEMMA StartsSetUp ==
  ASSUME Inv, SetUpInv, NEW i \in Instances,
         \/ \E f \in Forms : SubmitForm(i, f)
         \/ \E l \in Links : RepairLink(i, l) \/ CancelLink(i, l)
  PROVE  SetUpInv'
<1>1. ASSUME NEW f \in Forms, SubmitForm(i, f) PROVE SetUpInv'
  BY <1>1, BeginSetsUp DEF SubmitForm, Replays
<1>2. ASSUME NEW l \in Links, RepairLink(i, l) \/ CancelLink(i, l) PROVE SetUpInv'
  BY <1>2, BeginSetsUp DEF RepairLink, CancelLink
<1> QED
  BY <1>1, <1>2

\* What provisionBooking goes on with keeps the form of the row.
LEMMA ContinueSetsUp ==
  ASSUME Inv, SetUpInv, Grows, NEW i \in Instances, Continue(i, booking'[req[i].link]),
         req[i].step \in Provisioning, UNCHANGED del, \A l \in Links : LinkSound(l)'
  PROVE  SetUpInv'
<1>1. PICK step \in {"start", "idle"} : Go(i, step)
  BY DEF Continue
<1>2. /\ \A j \in Instances \ {i} : req'[j] = req[j]
      /\ req'[i].step = step
      /\ step # "idle" => req'[i].link = req[i].link /\ req'[i].form = req[i].form
  BY <1>1, RequestGoes
<1>3. ReceiptsAreTrue'
  <2>1. \/ receipts' = receipts
        \/ booking'[req[i].link].linked /\ receipts' = receipts \cup {req[i].form}
    BY DEF Continue
  <2> QED
    BY <2>1, ReceiptsSetUp
<1>4. OfBooking(i)'
  <2>1. CASE step = "start"
    <3>1. "start" \notin Purging
      BY PurgeSteps DEF Purging, PurgeOrder
    <3>2. booking'[req[i].link].form = req[i].form
      BY KeepsForm
    <3> QED
      BY <1>2, <2>1, <3>1, <3>2 DEF OfBooking
  <2> QED
    BY <1>1, <1>2, <2>1, IdleSetUp
<1>5. OfDeletion(i)'
  BY DeletionsSetUp
<1> QED
  BY <1>2, <1>3, <1>4, <1>5, AllSetUp

\* A request that is setting up goes on to a further step.
LEMMA FurtherSetUp ==
  ASSUME Inv, SetUpInv, Grows, NEW i \in Instances, NEW step \in Provisioning \cup {"idle"}, Go(i, step),
         req[i].step \in Provisioning, UNCHANGED <<del, receipts>>, \A l \in Links : LinkSound(l)',
         step \in {"account", "exam", "finish"} => candidate'[req[i].link] = "live",
         step \in {"exam", "finish"} => account'[EmailOf[req[i].form]] = [owner |-> req[i].link, active |-> TRUE],
         step = "finish" => exam'[req[i].link] # "none" \/ ~Booked(req[i].link)'
  PROVE  SetUpInv'
<1>1. /\ \A j \in Instances \ {i} : req'[j] = req[j]
      /\ req'[i].step = step
      /\ step # "idle" => req'[i].link = req[i].link /\ req'[i].form = req[i].form
  BY RequestGoes
<1>2. OfBooking(i)'
  <2>1. CASE step # "idle"
    <3>1. step \notin Purging
      BY <2>1, PurgeSteps DEF Purging, PurgeOrder, Provisioning
    <3> QED
      BY <1>1, <2>1, <3>1, KeepsForm DEF OfBooking, Booked
  <2> QED
    BY <1>1, <2>1, IdleSetUp
<1>3. OfDeletion(i)' /\ ReceiptsAreTrue'
  BY DeletionsSetUp, ReceiptsSetUp
<1> QED
  BY <1>1, <1>2, <1>3, AllSetUp

LEMMA ReadingSetsUp ==
  ASSUME Inv, SetUpInv, NEW i \in Instances, ReadBooking(i) \/ ReadCandidate(i)
  PROVE  SetUpInv'
<1>1. UNCHANGED <<rows, del>> /\ req[i].step \in Provisioning
  BY DEF ReadBooking, ReadCandidate, At, Provisioning
<1>2. Grows /\ \A l \in Links : LinkSound(l)'
  BY <1>1, RowsRest
<1>3. CASE ReadCandidate(i)
  <2>1. PICK step \in {"account", "idle"} : Go(i, step) /\ (step = "account" => candidate[req[i].link] = "live")
    BY <1>3 DEF ReadCandidate
  <2>2. candidate' = candidate /\ receipts' = receipts
    BY <1>3 DEF ReadCandidate, rows
  <2> QED
    BY <1>1, <1>2, <2>1, <2>2, FurtherSetUp DEF Provisioning
<1>4. CASE ReadBooking(i) /\ Go(i, "insert") /\ UNCHANGED receipts
  BY <1>1, <1>2, <1>4, FurtherSetUp DEF Provisioning
<1>5. CASE ReadBooking(i) /\ Continue(i, booking[req[i].link])
  <2>1. booking' = booking
    BY <1>1 DEF rows
  <2>2. Continue(i, booking'[req[i].link])
    BY <1>5, <2>1
  <2> QED
    BY <1>1, <1>2, <2>2, ContinueSetsUp
<1> QED
  BY <1>3, <1>4, <1>5 DEF ReadBooking

LEMMA ClaimSetsUp ==
  ASSUME Inv, SetUpInv, NEW i \in Instances, ClaimLink(i)
  PROVE  SetUpInv'
<1>1. PICK l \in Links, f \in Forms :
        /\ req[i].step = "claim" /\ UNCHANGED <<candidate, account, exam, del, receipts>>
        /\ l = req[i].link /\ f = req[i].form /\ f # Nobody
  BY Carries DEF ClaimLink, At
<1>2. CASE ~Commits(l, f)
  <2>1. Go(i, "idle") /\ UNCHANGED booking
    BY <1>1, <1>2 DEF ClaimLink
  <2>2. Grows /\ \A x \in Links : LinkSound(x)'
    BY <1>1, <2>1, RowsRest DEF rows
  <2>3. (\A j \in Instances \ {i} : req'[j] = req[j]) /\ OfBooking(i)'
    BY <2>1, RequestGoes, IdleSetUp
  <2>4. OfDeletion(i)' /\ ReceiptsAreTrue'
    BY <1>1, <2>2, DeletionsSetUp, ReceiptsSetUp
  <2> QED
    BY <1>1, <2>2, <2>3, <2>4, AllSetUp
<1>3. CASE Commits(l, f)
  <2>1. Go(i, "candidate") /\ booking' = [booking EXCEPT ![l] = [booking[l] EXCEPT !.status = "booked", !.form = f, !.plan = TRUE]]
    BY <1>1, <1>3 DEF ClaimLink
  <2>2. booking[l] \in Bookings /\ booking[l].status = "pending" /\ booking[l].form = Nobody
    BY <1>1, <1>3 DEF Commits, Inv, TypeOK, RowsSound, Unused
  <2>3. /\ booking'[l].form = f /\ booking'[l].linked = booking[l].linked
        /\ \A x \in Links \ {l} : booking'[x] = booking[x]
    BY <1>1, <2>1, <2>2 DEF Inv, TypeOK, Bookings
  <2>4. Grows
    BY <1>1, <2>2, <2>3 DEF Grows, Booked, SetUpInv, LinkSound
  <2>5. LinkSound(l)
    BY <1>1 DEF SetUpInv
  <2>6. ~booking[l].linked /\ exam[l] = "none"
    BY <2>2, <2>5 DEF LinkSound
  <2>7. LinkSound(l)'
    BY <1>1, <2>3, <2>5, <2>6 DEF LinkSound
  <2>8. \A x \in Links : LinkSound(x)'
    BY <1>1, <2>3, <2>4, <2>7, LinksSetUp
  <2>9. (\A j \in Instances \ {i} : req'[j] = req[j]) /\ req'[i].step = "candidate" /\ req'[i].link = l /\ req'[i].form = f
    BY <1>1, <2>1, RequestGoes
  <2>10. OfBooking(i)'
    <3>1. "candidate" \notin Purging
      BY PurgeSteps DEF Purging, PurgeOrder
    <3> QED
      BY <2>3, <2>9, <3>1 DEF OfBooking
  <2>11. OfDeletion(i)' /\ ReceiptsAreTrue'
    BY <1>1, <2>4, DeletionsSetUp, ReceiptsSetUp
  <2> QED
    BY <1>1, <2>4, <2>8, <2>9, <2>10, <2>11, AllSetUp
<1> QED
  BY <1>2, <1>3

\* One table gains what was missing.
LEMMA InsertsSetUp ==
  ASSUME Inv, SetUpInv, NEW i \in Instances, InsertCandidate(i) \/ InsertAccount(i) \/ InsertExam(i)
  PROVE  SetUpInv'
<1>1. req[i].step \in Provisioning /\ UNCHANGED <<booking, del, receipts>>
  BY DEF InsertCandidate, InsertAccount, InsertExam, At, Provisioning
<1>2. PICK l \in Links, e \in Emails : l = req[i].link /\ e = EmailOf[req[i].form] /\ req[i].form # Nobody
  BY <1>1, Carries
<1>3. LinkSound(l) /\ OfBooking(i)
  BY <1>2 DEF SetUpInv
<1>4. CASE InsertCandidate(i)
  <2>1. /\ candidate' = [candidate EXCEPT ![l] = IF candidate[l] = "none" THEN "live" ELSE candidate[l]]
        /\ Go(i, "link") /\ UNCHANGED <<account, exam>>
    BY <1>2, <1>4 DEF InsertCandidate
  <2>2. candidate'[l] = "live" /\ \A x \in Links \ {l} : candidate'[x] = candidate[x]
    BY <1>2, <1>3, <2>1 DEF LinkSound, Inv, TypeOK
  <2>3. Grows
    BY <1>1, <1>2, <2>1, <2>2 DEF Grows, Booked
  <2>4. LinkSound(l)'
    BY <1>1, <1>3, <2>1, <2>2 DEF LinkSound, SetUp, Booked
  <2>5. \A x \in Links : LinkSound(x)'
    BY <1>1, <1>2, <2>1, <2>2, <2>3, <2>4, LinksSetUp
  <2> QED
    BY <1>1, <1>2, <2>1, <2>3, <2>5, FurtherSetUp DEF Provisioning
<1>5. CASE InsertAccount(i)
  <2>1. PICK a : /\ a = IF account[e] = NoAccount THEN [owner |-> l, active |-> TRUE] ELSE account[e]
                 /\ account' = [account EXCEPT ![e] = a]
                 /\ Go(i, IF a = [owner |-> l, active |-> TRUE] THEN "exam" ELSE "idle")
    BY <1>2, <1>5 DEF InsertAccount
  <2>2. UNCHANGED <<candidate, exam>> /\ req[i].step = "account"
    BY <1>2, <1>5 DEF InsertAccount, At
  <2>3. account'[e] = a /\ \A x \in Emails \ {e} : account'[x] = account[x]
    BY <1>2, <2>1 DEF Inv, TypeOK
  <2>4. Grows
    BY <1>1, <2>1, <2>2, <2>3 DEF Grows, Booked
  <2>5. LinkSound(l)'
    <3>1. Booked(l) => EmailOf[booking[l].form] \in Emails
      BY <1>2 DEF Inv, TypeOK, RowsSound, Bookings
    <3>2. Booked(l) /\ booking[l].linked => SetUp(l)'
      BY <1>1, <1>2, <1>3, <2>2, <2>4, <3>1, AccountsDiffer DEF LinkSound, SetUp, Grows
    <3> QED
      BY <1>1, <1>3, <2>2, <3>2 DEF LinkSound, Booked
  <2>6. \A x \in Links : LinkSound(x)'
    BY <1>1, <1>2, <2>2, <2>4, <2>5, LinksSetUp
  <2>7. candidate'[l] = "live"
    BY <1>2, <1>3, <2>2 DEF OfBooking
  <2> DEFINE step == IF a = [owner |-> l, active |-> TRUE] THEN "exam" ELSE "idle"
  <2>8. step \in Provisioning \cup {"idle"} /\ Go(i, step) /\ step # "finish" /\ step # "account"
    BY <2>1 DEF Provisioning
  <2>9. step = "exam" => account'[e] = [owner |-> l, active |-> TRUE]
    BY <2>3
  <2> HIDE DEF step
  <2> QED
    BY <1>1, <1>2, <2>4, <2>6, <2>7, <2>8, <2>9, FurtherSetUp
<1>6. CASE InsertExam(i)
  <2>1. /\ exam' = [exam EXCEPT ![l] = IF exam[l] = "none" THEN "open" ELSE exam[l]]
        /\ Go(i, "finish") /\ UNCHANGED <<candidate, account>> /\ req[i].step = "exam"
    BY <1>2, <1>6 DEF InsertExam, At
  <2>2. /\ exam'[l] = IF exam[l] = "none" THEN "open" ELSE exam[l]
        /\ \A x \in Links \ {l} : exam'[x] = exam[x]
    BY <1>2, <2>1 DEF Inv, TypeOK
  <2>3. Grows
    BY <1>1, <1>2, <2>1, <2>2 DEF Grows, Booked
  <2>4. booking[l].form # Nobody
    BY <1>1, <1>2, <1>3 DEF OfBooking
  <2>5. LinkSound(l)'
    BY <1>1, <1>3, <2>1, <2>2, <2>4 DEF LinkSound, SetUp, Booked
  <2>6. \A x \in Links : LinkSound(x)'
    BY <1>1, <1>2, <2>1, <2>2, <2>3, <2>5, LinksSetUp
  <2>7. candidate'[l] = "live" /\ account'[e] = [owner |-> l, active |-> TRUE] /\ exam'[l] # "none"
    BY <1>2, <1>3, <2>1, <2>2 DEF OfBooking
  <2> QED
    BY <1>1, <1>2, <2>1, <2>3, <2>6, <2>7, FurtherSetUp DEF Provisioning
<1> QED
  BY <1>4, <1>5, <1>6

\* One row changes and keeps its form.
LEMMA RowSetUp ==
  ASSUME Inv, SetUpInv, NEW l \in Links, NEW b, booking' = [booking EXCEPT ![l] = b],
         UNCHANGED <<candidate, account>>, b.form = booking[l].form \/ booking[l].form = Nobody,
         b.status = "booked" => Booked(l), booking[l].linked => b.linked,
         b.linked => booking[l].linked \/ (booking[l].form # Nobody /\ (b.status = "booked" => SetUp(l))),
         \/ exam' = exam
         \/ \E x \in {"none", "submitted"} : exam' = [exam EXCEPT ![l] = x] /\ (x = "none" => b.status # "booked")
         \/ exam' = [exam EXCEPT ![l] = "cancelled"] /\ b.status # "booked",
         exam[l] = "none" => exam'[l] = "none"
  PROVE  Grows /\ \A x \in Links : LinkSound(x)'
<1>1. booking'[l] = b /\ \A x \in Links \ {l} : booking'[x] = booking[x]
  BY DEF Inv, TypeOK
<1>2. \A x \in Links \ {l} : exam'[x] = exam[x]
  BY DEF Inv, TypeOK
<1>3. exam'[l] = exam[l] \/ exam'[l] = "submitted" \/ b.status # "booked"
  BY DEF Inv, TypeOK
<1>4. exam'[l] # "none" => exam'[l] = exam[l] \/ (exam[l] # "none" /\ (exam'[l] = "cancelled" => b.status # "booked"))
  BY DEF Inv, TypeOK
<1>5. LinkSound(l) /\ (Booked(l) => booking[l].form # Nobody)
  BY DEF SetUpInv, Inv, RowsSound
<1>6. Grows
  BY <1>1, <1>2, <1>3 DEF Grows, Booked
<1>7. b.status = "booked" /\ b.linked => SetUp(l)'
  BY <1>1, <1>3, <1>5 DEF LinkSound, SetUp, Booked
<1>8. LinkSound(l)'
  BY <1>1, <1>4, <1>5, <1>7 DEF LinkSound, Booked
<1>9. \A x \in Links : LinkSound(x)'
  BY <1>1, <1>2, <1>6, <1>8, LinksSetUp
<1> QED
  BY <1>6, <1>9

LEMMA LinkingSetsUp ==
  ASSUME Inv, SetUpInv, NEW i \in Instances, LinkCandidate(i) \/ FinishBooking(i)
  PROVE  SetUpInv'
<1>1. req[i].step \in Provisioning /\ UNCHANGED <<candidate, account, exam, del>>
  BY DEF LinkCandidate, FinishBooking, At, Provisioning
<1>2. PICK l \in Links : l = req[i].link /\ req[i].form # Nobody
  BY <1>1, Carries
<1>3. booking[l] \in Bookings /\ OfBooking(i) /\ LinkSound(l) /\ booking[l].form = req[i].form
  BY <1>1, <1>2 DEF Inv, TypeOK, SetUpInv, OfBooking
<1>4. Continue(i, booking'[req[i].link])
  BY <1>2 DEF LinkCandidate, FinishBooking
<1>5. Grows /\ \A x \in Links : LinkSound(x)'
  <2>1. CASE UNCHANGED booking
    BY <1>1, <2>1, RowsRest DEF rows
  <2>2. CASE LinkCandidate(i) /\ Booked(l)
    <3> DEFINE b == [booking[l] EXCEPT !.cand = TRUE]
    <3>1. booking' = [booking EXCEPT ![l] = b]
      BY <1>2, <1>3, <2>2 DEF LinkCandidate, Inv, TypeOK
    <3>2. b.form = booking[l].form /\ b.status = booking[l].status /\ b.linked = booking[l].linked
      BY <1>3 DEF Bookings
    <3> HIDE DEF b
    <3> QED
      BY <1>1, <2>2, <3>1, <3>2, RowSetUp DEF Booked
  <2>3. CASE FinishBooking(i) /\ Booked(l)
    <3> DEFINE b == [booking[l] EXCEPT !.linked = TRUE, !.plan = FALSE]
    <3>1. booking' = [booking EXCEPT ![l] = b] /\ req[i].step = "finish"
      BY <1>2, <2>3 DEF FinishBooking, At, Finished, Booked
    <3>2. b.form = booking[l].form /\ b.status = booking[l].status /\ b.linked
      BY <1>3 DEF Bookings
    <3>3. exam[l] \in {"open", "submitted"}
      BY <1>2, <1>3, <2>3, <3>1 DEF OfBooking, LinkSound, Inv, TypeOK
    <3>4. SetUp(l)
      BY <1>2, <1>3, <3>1, <3>3 DEF SetUp, OfBooking
    <3> HIDE DEF b
    <3> QED
      BY <1>1, <1>2, <1>3, <2>3, <3>1, <3>2, <3>4, RowSetUp DEF Booked
  <2>4. ~Booked(l) => UNCHANGED booking
    BY <1>2 DEF LinkCandidate, FinishBooking, Finished, Booked, Inv, TypeOK
  <2> QED
    BY <2>1, <2>2, <2>3, <2>4
<1> QED
  BY <1>1, <1>4, <1>5, ContinueSetsUp

\* A request that sets nothing up ends or goes on to close the exam.
LEMMA UndoingSetsUp ==
  ASSUME Inv, SetUpInv, Grows, NEW i \in Instances, NEW step \in {"idle", "close"}, Go(i, step),
         UNCHANGED <<del, receipts>>, \A l \in Links : LinkSound(l)'
  PROVE  SetUpInv'
<1>1. (\A j \in Instances \ {i} : req'[j] = req[j]) /\ OfBooking(i)'
  BY RequestGoes, IdleSetUp
<1>2. OfDeletion(i)' /\ ReceiptsAreTrue'
  BY DeletionsSetUp, ReceiptsSetUp
<1> QED
  BY <1>1, <1>2, AllSetUp

LEMMA CancellingSetsUp ==
  ASSUME Inv, SetUpInv, NEW i \in Instances, CancelBooking(i) \/ CloseExam(i)
  PROVE  SetUpInv'
<1>1. PICK l \in Links : l = req[i].link /\ UNCHANGED <<candidate, account, del, receipts>>
  BY Carries DEF CancelBooking, CloseExam, At
<1>2. booking[l] \in Bookings
  BY DEF Inv, TypeOK
<1>3. CASE CancelBooking(i)
  <2>1. booking' = [booking EXCEPT ![l] = Cancelled(booking[l])] /\ exam' = exam
    BY <1>1, <1>3 DEF CancelBooking
  <2>2. /\ Cancelled(booking[l]).form = booking[l].form /\ Cancelled(booking[l]).linked = booking[l].linked
        /\ Cancelled(booking[l]).status = "booked" => Booked(l)
    BY <1>2 DEF Cancelled, Bookings, Booked
  <2>3. Grows /\ \A x \in Links : LinkSound(x)'
    BY <1>1, <2>1, <2>2, RowSetUp
  <2>4. PICK step \in {"idle", "close"} : Go(i, step)
    BY <1>3 DEF CancelBooking
  <2> QED
    BY <1>1, <2>3, <2>4, UndoingSetsUp
<1>4. CASE CloseExam(i)
  <2>1. Go(i, "idle") /\ UNCHANGED booking
        /\ exam' = [exam EXCEPT ![l] = IF Booked(l) THEN exam[l] ELSE Expired(l)]
    BY <1>1, <1>4 DEF CloseExam
  <2>2. booking' = [booking EXCEPT ![l] = booking[l]]
    BY <2>1 DEF Inv, TypeOK
  <2>3. exam' = exam \/ (exam[l] = "open" /\ ~Booked(l) /\ exam' = [exam EXCEPT ![l] = "cancelled"])
    BY <2>1 DEF Expired, Inv, TypeOK
  <2>4. Grows /\ \A x \in Links : LinkSound(x)'
    BY <1>1, <2>2, <2>3, RowSetUp DEF Booked
  <2> QED
    BY <1>1, <2>1, <2>4, UndoingSetsUp
<1> QED
  BY <1>3, <1>4

\* No request moves.
LEMMA RequestsRest ==
  ASSUME Inv, SetUpInv, Grows, UNCHANGED <<req, del, receipts>>, \A l \in Links : LinkSound(l)'
  PROVE  SetUpInv'
<1>1. \A j \in Instances : OfBooking(j)' /\ OfDeletion(j)'
  BY OthersSetUp, DeletionsSetUp
<1>2. ReceiptsAreTrue'
  BY DEF SetUpInv, ReceiptsAreTrue, Grows, Inv, TypeOK
<1> QED
  BY <1>1, <1>2 DEF SetUpInv

LEMMA LinksAndExamsSetUp ==
  ASSUME Inv, SetUpInv, NEW l \in Links, CreateLink(l) \/ LinkLapses(l) \/ ExamCloses(l)
  PROVE  SetUpInv'
<1>1. booking[l] \in Bookings /\ UNCHANGED <<candidate, account, req, del, receipts>>
  BY DEF Inv, TypeOK, CreateLink, LinkLapses, ExamCloses
<1>2. CASE ExamCloses(l)
  <2>1. booking' = [booking EXCEPT ![l] = booking[l]]
    BY <1>2 DEF ExamCloses, Inv, TypeOK
  <2>2. \/ exam' = [exam EXCEPT ![l] = "submitted"]
        \/ exam' = [exam EXCEPT ![l] = "cancelled"] /\ ~Booked(l)
    BY <1>2 DEF ExamCloses, Expired
  <2>3. exam[l] # "none"
    BY <1>2 DEF ExamCloses
  <2>4. Grows /\ \A x \in Links : LinkSound(x)'
    BY <1>1, <2>1, <2>2, <2>3, RowSetUp DEF Booked
  <2> QED
    BY <1>1, <2>4, RequestsRest
<1>3. CASE CreateLink(l) \/ LinkLapses(l)
  <2>1. PICK t \in {"pending", "lapsed"} : booking' = [booking EXCEPT ![l] = [booking[l] EXCEPT !.status = t]]
    BY <1>3 DEF CreateLink, LinkLapses
  <2> DEFINE b == [booking[l] EXCEPT !.status = t]
  <2>2. b.form = booking[l].form /\ b.linked = booking[l].linked /\ b.status # "booked"
    BY <1>1 DEF Bookings
  <2>3. exam' = exam /\ booking' = [booking EXCEPT ![l] = b]
    BY <1>3, <2>1 DEF CreateLink, LinkLapses
  <2> HIDE DEF b
  <2>4. Grows /\ \A x \in Links : LinkSound(x)'
    BY <1>1, <2>2, <2>3, RowSetUp
  <2> QED
    BY <1>1, <2>4, RequestsRest
<1> QED
  BY <1>2, <1>3

LEMMA FailingSetsUp ==
  ASSUME Inv, SetUpInv, NEW i \in Instances, Fail(i)
  PROVE  SetUpInv'
<1>1. Grows /\ \A l \in Links : LinkSound(l)'
  BY RowsRest DEF Fail
<1>2. receipts' = receipts
  BY DEF Fail
<1>3. ReceiptsAreTrue'
  BY <1>1, <1>2, ReceiptsSetUp
<1>4. CASE req' = [req EXCEPT ![i] = NoRequest] /\ UNCHANGED del
  <2>1. req'[i] = NoRequest /\ \A j \in Instances \ {i} : req'[j] = req[j]
    BY <1>4 DEF Inv, TypeOK
  <2>2. OfBooking(i)'
    BY <2>1, IdleSetUp DEF NoRequest
  <2> QED
    BY <1>1, <1>3, <1>4, <2>1, <2>2, DeletionsSetUp, AllSetUp
<1>5. CASE del' = [del EXCEPT ![i] = NoDeletion] /\ UNCHANGED req
  <2>1. del'[i] = NoDeletion /\ \A j \in Instances \ {i} : del'[j] = del[j]
    BY <1>5 DEF Inv, TypeOK
  <2>2. OfDeletion(i)'
    BY <2>1 DEF OfDeletion, NoDeletion
  <2> QED
    BY <1>1, <1>3, <1>5, <2>1, <2>2, OthersSetUp, AllSetUp
<1> QED
  BY <1>4, <1>5 DEF Fail

LEMMA DeletingSetsUp ==
  ASSUME Inv, SetUpInv, NEW i \in Instances,
         (\E l \in Links : DeleteExam(i, l)) \/ UnbookExam(i) \/ RemoveExam(i)
  PROVE  SetUpInv'
<1>1. UNCHANGED <<candidate, account, req, receipts>>
  BY DEF DeleteExam, UnbookExam, RemoveExam, rows
<1>2. \A j \in Instances \ {i} : del'[j] = del[j]
  BY DEF DeleteExam, UnbookExam, RemoveExam, Inv, TypeOK
<1>3. OfDeletion(i) /\ (del[i].step # "idle" => del[i].link \in Links)
  BY DEF SetUpInv, Inv, Working
<1>4. SUFFICES Grows /\ (\A l \in Links : LinkSound(l)') /\ OfDeletion(i)'
  BY <1>1, <1>2, ReceiptsSetUp, OthersSetUp, AllSetUp
<1>5. CASE \E l \in Links : DeleteExam(i, l)
  <2>1. PICK l \in Links : DeleteExam(i, l)
    BY <1>5
  <2>2. Grows /\ \A x \in Links : LinkSound(x)'
    BY <2>1, RowsRest DEF DeleteExam
  <2>3. booking[l].form # Nobody /\ booking' = booking /\ del'[i] = [step |-> "unbook", link |-> l]
    BY <2>1 DEF DeleteExam, SetUpInv, LinkSound, rows, Inv, TypeOK
  <2>4. OfDeletion(i)'
    BY <2>3 DEF OfDeletion
  <2> QED
    BY <2>2, <2>4
<1>6. CASE UnbookExam(i)
  <2>1. PICK l \in Links : /\ l = del[i].link /\ booking' = [booking EXCEPT ![l] = Unbooked(booking[l])]
                           /\ del' = [del EXCEPT ![i].step = "remove"] /\ exam' = exam /\ del[i].step = "unbook"
    BY <1>3, <1>6 DEF UnbookExam
  <2>2. booking[l] \in Bookings
    BY DEF Inv, TypeOK
  <2>3. /\ Unbooked(booking[l]).form = booking[l].form /\ Unbooked(booking[l]).linked = booking[l].linked
        /\ Unbooked(booking[l]).status # "booked"
    BY <2>2 DEF Unbooked, Bookings
  <2>4. Grows /\ \A x \in Links : LinkSound(x)'
    BY <1>1, <2>1, <2>3, RowSetUp
  <2>5. del'[i].step = "remove" /\ del'[i].link = l
    BY <2>1 DEF Inv, TypeOK
  <2>6. booking'[l] = Unbooked(booking[l]) /\ booking[l].form # Nobody
    BY <1>3, <2>1 DEF OfDeletion, Inv, TypeOK
  <2> QED
    BY <2>3, <2>4, <2>5, <2>6 DEF OfDeletion, Booked
<1>7. CASE RemoveExam(i)
  <2>1. PICK l \in Links : /\ l = del[i].link /\ del[i].step = "remove" /\ exam' = [exam EXCEPT ![l] = "none"]
                           /\ del' = [del EXCEPT ![i] = NoDeletion] /\ booking' = booking
    BY <1>3, <1>7 DEF RemoveExam
  <2>2. booking[l].status # "booked" /\ booking' = [booking EXCEPT ![l] = booking[l]] /\ exam'[l] = "none"
    BY <1>3, <2>1 DEF OfDeletion, Booked, Inv, TypeOK
  <2>3. Grows /\ \A x \in Links : LinkSound(x)'
    BY <1>1, <2>1, <2>2, RowSetUp
  <2>4. del'[i] = NoDeletion
    BY <2>1 DEF Inv, TypeOK
  <2> QED
    BY <2>3, <2>4 DEF OfDeletion, NoDeletion
<1> QED
  BY <1>5, <1>6, <1>7

LEMMA SetUpKeeps == Inv /\ SetUpInv /\ "purge" \notin Ops /\ [Next]_vars => SetUpInv'
<1> SUFFICES ASSUME Inv, SetUpInv, "purge" \notin Ops, [Next]_vars PROVE SetUpInv'
  OBVIOUS
<1>1. CASE UNCHANGED vars
  BY <1>1, RowsRest, RequestsRest DEF vars, rows
<1>2. ASSUME NEW i \in Instances PROVE ~PurgeStep(i)
  <2> SUFFICES ASSUME PurgeStep(i) PROVE FALSE
    OBVIOUS
  <2>1. PICK n \in DOMAIN PurgeOrder : At(i, PurgeOrder[n])
    BY DEF PurgeStep
  <2>2. req[i].step \in Purging
    BY <2>1 DEF At, Purging
  <2> QED
    BY <2>2 DEF SetUpInv, OfBooking
<1>3. ASSUME NEW i \in Instances, NEW l \in Links PROVE ~PurgePerson(i, l)
  BY DEF PurgePerson
<1>4. CASE \E i \in Instances : Provision(i)
  BY <1>4, ClaimSetsUp, ReadingSetsUp, InsertsSetUp, LinkingSetsUp DEF Provision
<1> QED
  BY <1>1, <1>2, <1>3, <1>4, StartsSetUp, CancellingSetsUp, LinksAndExamsSetUp, FailingSetsUp, DeletingSetsUp
     DEF Next

LEMMA SetUpStarts == Init => SetUpInv
<1> SUFFICES ASSUME Init PROVE SetUpInv
  OBVIOUS
<1>1. \A l \in Links : LinkSound(l)
  BY DEF Init, LinkSound, NoLink, Booked
<1>2. \A i \in Instances : OfBooking(i) /\ OfDeletion(i)
  <2>1. "idle" \notin Purging
    BY PurgeSteps DEF Purging, PurgeOrder
  <2> QED
    BY <2>1 DEF Init, OfBooking, OfDeletion, NoRequest, NoDeletion, Provisioning
<1> QED
  BY <1>1, <1>2 DEF SetUpInv, Init, ReceiptsAreTrue

\* A booked row that says it is set up has its candidate, its own working account and
\* an exam that was not withdrawn, on any number of instances, wherever requests stop
\* (bookings.mjs:108-137).  Deleting the person breaks it on purpose.
THEOREM SetUpMeansComplete ==
  ASSUME "purge" \notin Ops
  PROVE  Spec => []SetUpIsComplete
<1>1. SetUpInv => SetUpIsComplete
  BY DEF SetUpInv, LinkSound, SetUp, SetUpIsComplete
<1> QED
  BY <1>1, InitInv, NextInv, SetUpStarts, SetUpKeeps, PTL DEF Spec

\* Who was told that a slot is booked is the one the link was booked for, and the slot was
\* set up, on any number of instances (bookings.mjs:134-137, 236-256, 286-288).
THEOREM ReceiptsStand ==
  ASSUME "purge" \notin Ops
  PROVE  Spec => []ReceiptsAreTrue
<1>1. SetUpInv => ReceiptsAreTrue
  BY DEF SetUpInv
<1> QED
  BY <1>1, InitInv, NextInv, SetUpStarts, SetUpKeeps, PTL DEF Spec

----------------------------------------------------------------------------
(* One server, which runs one booking request or person deletion at a time *)

OneRequest == \A i, j \in Instances : i = j

\* What keeps an address for the link that is being booked with it.
KeepsAddress(i) ==
  /\ req[i].step = "claim" => account[EmailOf[req[i].form]] = NoAccount
  /\ req[i].step \in Provisioning => AddressFree(req[i].link, EmailOf[req[i].form])

\* How far a person deletion has come with link l, given what it listed.
Removes(i) ==
  /\ req[i].step \in {"link", "account", "exam"} => candidate[req[i].link] # "none"
  /\ req[i].step \in Purging =>
       /\ exam[req[i].link] # "none" => "exam" \in req[i].found
       /\ \A e \in Emails : account[e].owner = req[i].link => "account" \in req[i].found
       /\ booking[req[i].link].status # "gone" => "booking" \in req[i].found
  /\ req[i].step \in {"accounts", "bookings", "profile"} => exam[req[i].link] = "none"
  /\ req[i].step \in {"bookings", "profile"} => \A e \in Emails : account[e].owner # req[i].link
  /\ req[i].step = "profile" => ~booking[req[i].link].cand

GoneIsBare == \A l \in Links : booking[l].status = "gone" => ~booking[l].cand

AloneInv ==
  /\ NotStranded /\ NoOrphans /\ GoneIsBare
  /\ \A i \in Instances : KeepsAddress(i) /\ Removes(i)

\* No link is newly booked, and no account newly made.
BooksNone == \A l \in Links : Booked(l)' => Booked(l) /\ booking'[l].form = booking[l].form
MakesNone ==
  \A e \in Emails : \/ account'[e] = account[e] \/ account'[e] = NoAccount
                    \/ account'[e].owner = account[e].owner /\ account[e].owner # Nobody

LEMMA StaysUnstranded ==
  ASSUME Inv, AloneInv, BooksNone, MakesNone
  PROVE  /\ NotStranded' /\ \A l \in Links, e \in Emails : AddressFree(l, e) => AddressFree(l, e)'
         /\ \A e \in Emails : account[e] = NoAccount => account'[e] = NoAccount
<1>1. \A l \in Links : Booked(l) => EmailOf[booking[l].form] \in Emails
  BY DEF Inv, TypeOK, RowsSound, Bookings
<1>2. \A e \in Emails : account'[e].owner \in {account[e].owner, Nobody}
  <2>1. NoAccount.owner = Nobody
    BY DEF NoAccount
  <2>2. ASSUME NEW e \in Emails PROVE account'[e].owner = account[e].owner \/ account'[e].owner = Nobody
    <3>1. account'[e] = account[e] \/ account'[e] = NoAccount \/ account'[e].owner = account[e].owner
      BY DEF MakesNone
    <3> QED
      BY <2>1, <3>1
  <2> QED
    BY <2>2
<1>3. NotStranded'
  BY <1>1, <1>2 DEF AloneInv, NotStranded, BooksNone
<1>4. ASSUME NEW e \in Emails, account[e] = NoAccount PROVE account'[e] = NoAccount
  <2>1. account[e].owner = Nobody
    BY <1>4 DEF NoAccount
  <2> QED
    BY <1>4, <2>1 DEF MakesNone
<1> QED
  BY <1>3, <1>4 DEF AddressFree, BooksNone

\* Nothing is added for a link without a candidate.
AddsNone ==
  \A l \in Links : candidate'[l] = "none" =>
    /\ candidate[l] = "none"
    /\ exam'[l] \in {exam[l], "none"}
    /\ \A e \in Emails : account'[e].owner = l => account[e].owner = l
    /\ booking'[l].cand => booking[l].cand

LEMMA StaysWithoutOrphans ==
  ASSUME AloneInv, AddsNone
  PROVE  NoOrphans'
  BY DEF AloneInv, NoOrphans, AddsNone

LEMMA AloneKeeps ==
  ASSUME OneRequest, NEW i \in Instances, NotStranded', NoOrphans', GoneIsBare', KeepsAddress(i)', Removes(i)'
  PROVE  AloneInv'
  BY DEF AloneInv, OneRequest

\* The request of an instance while others act on the rows.
LEMMA AroundIt ==
  ASSUME Inv, AloneInv, OneRequest, UNCHANGED <<req, candidate, account>>, BooksNone,
         \A l \in Links : exam[l] = "none" => exam'[l] = "none",
         \A l \in Links : /\ booking'[l].cand = booking[l].cand
                          /\ booking'[l].status = "gone" <=> booking[l].status = "gone"
  PROVE  AloneInv'
<1>1. MakesNone /\ AddsNone
  BY DEF MakesNone, AddsNone, AloneInv, NoOrphans
<1>2. NotStranded' /\ NoOrphans' /\ GoneIsBare'
  BY <1>1, StaysUnstranded, StaysWithoutOrphans DEF AloneInv, GoneIsBare
<1>3. ASSUME NEW i \in Instances PROVE KeepsAddress(i)' /\ Removes(i)'
  <2>1. KeepsAddress(i) /\ Removes(i) /\ (req[i].step # "idle" => req[i].link \in Links)
    BY DEF AloneInv, Inv, Working
  <2>2. /\ req[i].step \in Purging => req[i].step # "idle"
        /\ req[i].step \in {"link", "account", "exam", "accounts", "bookings", "profile"} => req[i].step # "idle"
    BY PurgeSteps DEF Purging, PurgeOrder
  <2>3. req[i].step \in Provisioning => req[i].link \in Links /\ EmailOf[req[i].form] \in Emails
    BY Carries
  <2>4. KeepsAddress(i)'
    BY <1>1, <2>1, <2>3, StaysUnstranded DEF KeepsAddress
  <2>5. Removes(i)'
    BY <2>1, <2>2 DEF Removes
  <2> QED
    BY <2>4, <2>5
<1> QED
  BY <1>2, <1>3 DEF AloneInv

LEMMA AroundKeeps ==
  ASSUME Inv, AloneInv, OneRequest,
         \/ \E l \in Links : CreateLink(l) \/ LinkLapses(l) \/ ExamCloses(l)
         \/ \E i \in Instances : \/ \E l \in Links : DeleteExam(i, l)
                                 \/ UnbookExam(i) \/ RemoveExam(i)
                                 \/ Fail(i) /\ UNCHANGED req
  PROVE  AloneInv'
<1>1. ASSUME NEW l \in Links, CreateLink(l) \/ LinkLapses(l) PROVE AloneInv'
  <2>1. PICK t \in {"pending", "lapsed"} : booking' = [booking EXCEPT ![l] = [booking[l] EXCEPT !.status = t]]
    BY <1>1 DEF CreateLink, LinkLapses
  <2>2. booking \in [Links -> Bookings] /\ booking[l] \in Bookings /\ booking[l].status # "gone"
    BY <1>1 DEF Inv, TypeOK, CreateLink, LinkLapses, NoLink
  <2>3. /\ booking'[l].cand = booking[l].cand /\ booking'[l].status = t
        /\ \A x \in Links \ {l} : booking'[x] = booking[x]
    BY <2>1, <2>2 DEF Bookings
  <2>4. BooksNone
    BY <2>3 DEF BooksNone, Booked
  <2>5. \A x \in Links : booking'[x].cand = booking[x].cand
                         /\ (booking'[x].status = "gone" <=> booking[x].status = "gone")
    BY <2>2, <2>3
  <2>6. UNCHANGED <<req, candidate, account, exam>>
    BY <1>1 DEF CreateLink, LinkLapses
  <2> QED
    BY <2>4, <2>5, <2>6, AroundIt
<1>2. ASSUME NEW l \in Links, ExamCloses(l) PROVE AloneInv'
  BY <1>2, AroundIt DEF ExamCloses, BooksNone, Booked, Inv, TypeOK
<1>3. ASSUME NEW i \in Instances, NEW l \in Links, DeleteExam(i, l) PROVE AloneInv'
  BY <1>3, AroundIt DEF DeleteExam, rows, BooksNone, Booked
<1>4. ASSUME NEW i \in Instances, Fail(i), UNCHANGED req PROVE AloneInv'
  BY <1>4, AroundIt DEF Fail, rows, BooksNone, Booked
<1>5. ASSUME NEW i \in Instances, RemoveExam(i) PROVE AloneInv'
  <2>1. \A l \in Links : exam[l] = "none" => exam'[l] = "none"
    BY <1>5 DEF RemoveExam, Inv, TypeOK
  <2> QED
    BY <1>5, <2>1, AroundIt DEF RemoveExam, BooksNone, Booked
<1>6. ASSUME NEW i \in Instances, UnbookExam(i) PROVE AloneInv'
  <2>1. PICK l \in Links : booking' = [booking EXCEPT ![l] = Unbooked(booking[l])]
    BY <1>6 DEF UnbookExam, Inv, Working
  <2>2. booking \in [Links -> Bookings] /\ booking[l] \in Bookings
    BY DEF Inv, TypeOK
  <2>3. /\ Unbooked(booking[l]).cand = booking[l].cand /\ Unbooked(booking[l]).status # "booked"
        /\ Unbooked(booking[l]).status = "gone" <=> booking[l].status = "gone"
    BY <2>2 DEF Unbooked, Bookings
  <2>4. BooksNone
    BY <2>1, <2>2, <2>3 DEF BooksNone, Booked
  <2>5. \A x \in Links : booking'[x].cand = booking[x].cand
                         /\ (booking'[x].status = "gone" <=> booking[x].status = "gone")
    BY <2>1, <2>2, <2>3
  <2> QED
    BY <1>6, <2>4, <2>5, AroundIt DEF UnbookExam
<1> QED
  BY <1>1, <1>2, <1>3, <1>4, <1>5, <1>6

\* A request that begins.
LEMMA BeginAlone ==
  ASSUME Inv, AloneInv, OneRequest, NEW i \in Instances, NEW step, NEW l \in Links, NEW f, NEW found,
         Begin(i, step, l, f, found), step \in {"claim", "candidate", "cancel", "flag"},
         step = "claim" => account[EmailOf[f]] = NoAccount,
         step = "candidate" => AddressFree(l, EmailOf[f]),
         step = "flag" => /\ exam[l] # "none" => "exam" \in found
                          /\ \A e \in Emails : account[e].owner = l => "account" \in found
                          /\ booking[l].status # "gone" => "booking" \in found
  PROVE  AloneInv'
<1>1. UNCHANGED <<booking, candidate, account, exam>>
  BY DEF Begin, rows
<1>2. req'[i].step = step /\ req'[i].link = l /\ req'[i].form = f /\ req'[i].found = found
  BY DEF Begin, Inv, TypeOK
<1>3. NotStranded' /\ NoOrphans' /\ GoneIsBare'
  BY <1>1 DEF AloneInv, NotStranded, NoOrphans, GoneIsBare, Booked
<1>4. {"claim", "candidate", "cancel"} \cap Purging = {}
  BY PurgeSteps DEF Purging, PurgeOrder
<1>5. KeepsAddress(i)'
  BY <1>1, <1>2 DEF KeepsAddress, AddressFree, Booked, Provisioning
<1>6. Removes(i)'
  BY <1>1, <1>2, <1>4 DEF Removes
<1> QED
  BY <1>3, <1>5, <1>6, AloneKeeps

LEMMA StartsAlone ==
  ASSUME Inv, AloneInv, OneRequest, NEW i \in Instances,
         \/ \E f \in Forms : SubmitForm(i, f)
         \/ \E l \in Links : RepairLink(i, l) \/ CancelLink(i, l) \/ PurgePerson(i, l)
  PROVE  AloneInv'
<1>1. ASSUME NEW l \in Links, Booked(l) PROVE AddressFree(l, EmailOf[booking[l].form])
  BY <1>1 DEF AddressFree, Inv, OneBookingPerEmail
<1>2. ASSUME NEW f \in Forms, SubmitForm(i, f) PROVE AloneInv'
  <2>1. LinkOf[f] \in Links
    OBVIOUS
  <2>2. CASE Replays(f) /\ Begin(i, "candidate", LinkOf[f], f, {})
    BY <1>1, <2>1, <2>2, BeginAlone DEF Replays
  <2>3. CASE Acceptable(f) /\ Begin(i, "claim", LinkOf[f], f, {})
    BY <2>1, <2>3, BeginAlone DEF Acceptable
  <2> QED
    BY <1>2, <2>2, <2>3 DEF SubmitForm
<1>3. ASSUME NEW l \in Links, RepairLink(i, l) \/ CancelLink(i, l) PROVE AloneInv'
  BY <1>1, <1>3, BeginAlone DEF RepairLink, CancelLink
<1>4. ASSUME NEW l \in Links, PurgePerson(i, l) PROVE AloneInv'
  <2> DEFINE found == {p \in Parts : \/ p = "exam" /\ exam[l] # "none"
                                     \/ p = "account" /\ \E e \in Emails : account[e].owner = l
                                     \/ p = "booking" /\ booking[l].status # "gone"}
  <2>1. Begin(i, "flag", l, Nobody, found)
    BY <1>4 DEF PurgePerson
  <2>2. /\ exam[l] # "none" => "exam" \in found
        /\ \A e \in Emails : account[e].owner = l => "account" \in found
        /\ booking[l].status # "gone" => "booking" \in found
    BY DEF Parts
  <2> HIDE DEF found
  <2> QED
    BY <2>1, <2>2, BeginAlone
<1> QED
  BY <1>2, <1>3, <1>4

\* A booking request goes on or ends, and books and makes nothing.
LEMMA GoesAlone ==
  ASSUME Inv, AloneInv, OneRequest, NEW i \in Instances, NEW step \in Provisioning \cup {"idle", "close"}, Go(i, step),
         req[i].step \in Provisioning \/ step \in {"idle", "close"},
         BooksNone, MakesNone, AddsNone, GoneIsBare',
         step \in {"link", "account", "exam"} => candidate'[req[i].link] # "none"
  PROVE  AloneInv'
<1>1. /\ req'[i].step = step
      /\ step # "idle" => req'[i].link = req[i].link /\ req'[i].form = req[i].form
  BY RequestGoes
<1>2. NotStranded' /\ NoOrphans' /\ \A l \in Links, e \in Emails : AddressFree(l, e) => AddressFree(l, e)'
  BY StaysUnstranded, StaysWithoutOrphans
<1>3. step \notin Purging
  BY PurgeSteps DEF Purging, PurgeOrder, Provisioning
<1>4. Removes(i)'
  BY <1>1, <1>3 DEF Removes, Provisioning
<1>5. KeepsAddress(i)'
  <2>1. CASE step \in Provisioning
    <3>1. req[i].step \in Provisioning /\ req[i].link \in Links /\ EmailOf[req[i].form] \in Emails
      BY <2>1, Carries DEF Provisioning
    <3>2. AddressFree(req[i].link, EmailOf[req[i].form])
      BY <3>1 DEF AloneInv, KeepsAddress
    <3>3. step # "idle" /\ step # "claim"
      BY <2>1 DEF Provisioning
    <3>4. AddressFree(req[i].link, EmailOf[req[i].form])'
      BY <1>1, <1>2, <3>1, <3>2, <3>3 DEF AddressFree
    <3> QED
      BY <1>1, <3>3, <3>4 DEF KeepsAddress
  <2>2. CASE step \notin Provisioning
    BY <1>1, <2>2 DEF KeepsAddress, Provisioning
  <2> QED
    BY <2>1, <2>2
<1> QED
  BY <1>2, <1>4, <1>5, AloneKeeps

LEMMA ReadsAlone ==
  ASSUME Inv, AloneInv, OneRequest, NEW i \in Instances, ReadBooking(i) \/ ReadCandidate(i) \/ CloseExam(i)
  PROVE  AloneInv'
<1>1. UNCHANGED <<booking, candidate, account>>
  BY DEF ReadBooking, ReadCandidate, CloseExam, rows
<1>2. \A l \in Links : exam[l] = "none" => exam'[l] = "none"
  BY DEF ReadBooking, ReadCandidate, CloseExam, Expired, rows, Inv, TypeOK
<1>3. BooksNone /\ MakesNone /\ AddsNone /\ GoneIsBare'
  BY <1>1, <1>2 DEF BooksNone, MakesNone, AddsNone, AloneInv, NoOrphans, GoneIsBare, Booked
<1>4. \E step \in {"insert", "start", "idle", "account"} :
        /\ Go(i, step) /\ (req[i].step \in Provisioning \/ step = "idle")
        /\ step = "account" => candidate[req[i].link] = "live"
  BY DEF ReadBooking, ReadCandidate, CloseExam, Continue, At, Provisioning
<1> QED
  BY <1>1, <1>3, <1>4, GoesAlone DEF Provisioning

LEMMA RowsAlone ==
  ASSUME Inv, AloneInv, OneRequest, NEW i \in Instances, LinkCandidate(i) \/ FinishBooking(i) \/ CancelBooking(i)
  PROVE  AloneInv'
<1>1. UNCHANGED <<candidate, account, exam>> /\ MakesNone
  BY DEF LinkCandidate, FinishBooking, CancelBooking, MakesNone
<1>2. PICK l \in Links : l = req[i].link
  BY Carries DEF LinkCandidate, FinishBooking, CancelBooking, At
<1>3. booking \in [Links -> Bookings] /\ booking[l] \in Bookings
  BY DEF Inv, TypeOK
<1>4. PICK b : /\ booking' = [booking EXCEPT ![l] = b] /\ b.form = booking[l].form
               /\ b.status = "booked" => Booked(l)
               /\ b.status = "gone" => booking[l].status = "gone" /\ b.cand = booking[l].cand
               /\ b.cand => booking[l].cand \/ candidate[l] # "none"
  <2>1. CASE LinkCandidate(i) /\ Booked(l)
    <3>1. booking' = [booking EXCEPT ![l] = [booking[l] EXCEPT !.cand = TRUE]]
      BY <1>2, <1>3, <2>1 DEF LinkCandidate
    <3>2. candidate[l] # "none"
      BY <1>2, <2>1 DEF LinkCandidate, At, AloneInv, Removes
    <3> QED
      BY <1>3, <2>1, <3>1, <3>2 DEF Bookings, Booked
  <2>2. CASE LinkCandidate(i) /\ ~Booked(l)
    <3>1. booking' = [booking EXCEPT ![l] = booking[l]]
      BY <1>2, <1>3, <2>2 DEF LinkCandidate
    <3> QED
      BY <3>1 DEF Booked
  <2>3. CASE FinishBooking(i)
    <3>1. booking' = [booking EXCEPT ![l] = Finished(booking[l])]
      BY <1>2, <1>3, <2>3 DEF FinishBooking
    <3>2. /\ Finished(booking[l]).form = booking[l].form /\ Finished(booking[l]).status = booking[l].status
          /\ Finished(booking[l]).cand = booking[l].cand
      BY <1>3 DEF Finished, Bookings
    <3> QED
      BY <3>1, <3>2 DEF Booked
  <2>4. CASE CancelBooking(i)
    <3>1. booking' = [booking EXCEPT ![l] = Cancelled(booking[l])]
      BY <1>2, <1>3, <2>4 DEF CancelBooking
    <3>2. /\ Cancelled(booking[l]).form = booking[l].form /\ Cancelled(booking[l]).cand = booking[l].cand
          /\ Cancelled(booking[l]).status # "booked"
          /\ Cancelled(booking[l]).status = "gone" => booking[l].status = "gone"
      BY <1>3 DEF Cancelled, Bookings
    <3> QED
      BY <3>1, <3>2
  <2> QED
    BY <2>1, <2>2, <2>3, <2>4
<1>5. booking'[l] = b /\ \A x \in Links \ {l} : booking'[x] = booking[x]
  BY <1>3, <1>4
<1>6. BooksNone
  BY <1>4, <1>5 DEF BooksNone, Booked
<1>7. GoneIsBare'
  BY <1>4, <1>5 DEF AloneInv, GoneIsBare
<1>8. AddsNone
  BY <1>1, <1>4, <1>5 DEF AddsNone
<1>9. PICK step \in {"start", "idle", "close"} : Go(i, step) /\ (step = "start" => req[i].step \in Provisioning)
  BY DEF LinkCandidate, FinishBooking, CancelBooking, Continue, At, Provisioning
<1> QED
  BY <1>1, <1>6, <1>7, <1>8, <1>9, GoesAlone DEF Provisioning

LEMMA InsertsAlone ==
  ASSUME Inv, AloneInv, OneRequest, NEW i \in Instances, InsertCandidate(i) \/ InsertExam(i)
  PROVE  AloneInv'
<1>1. UNCHANGED <<booking, account>> /\ req[i].step \in Provisioning
  BY DEF InsertCandidate, InsertExam, At, Provisioning
<1>2. PICK l \in Links : l = req[i].link
  BY <1>1, Carries
<1>3. BooksNone /\ MakesNone /\ GoneIsBare'
  BY <1>1 DEF BooksNone, MakesNone, AloneInv, GoneIsBare, Booked
<1>4. CASE InsertCandidate(i)
  <2>1. candidate'[l] # "none" /\ (\A x \in Links \ {l} : candidate'[x] = candidate[x]) /\ exam' = exam
    BY <1>2, <1>4 DEF InsertCandidate, Inv, TypeOK
  <2>2. AddsNone
    BY <1>1, <2>1 DEF AddsNone
  <2>3. Go(i, "link")
    BY <1>4 DEF InsertCandidate
  <2> QED
    BY <1>1, <1>2, <1>3, <2>1, <2>2, <2>3, GoesAlone DEF Provisioning
<1>5. CASE InsertExam(i)
  <2>1. candidate' = candidate /\ (\A x \in Links \ {l} : exam'[x] = exam[x])
    BY <1>2, <1>5 DEF InsertExam, Inv, TypeOK
  <2>2. candidate[l] # "none"
    BY <1>2, <1>5 DEF InsertExam, At, AloneInv, Removes
  <2>3. AddsNone
    BY <1>1, <2>1, <2>2 DEF AddsNone
  <2>4. Go(i, "finish")
    BY <1>5 DEF InsertExam
  <2> QED
    BY <1>1, <1>3, <2>3, <2>4, GoesAlone DEF Provisioning
<1> QED
  BY <1>4, <1>5

LEMMA ClaimsAlone ==
  ASSUME Inv, AloneInv, OneRequest, NEW i \in Instances, ClaimLink(i)
  PROVE  AloneInv'
<1>1. PICK l \in Links, f \in Forms : l = req[i].link /\ f = req[i].form /\ EmailOf[f] \in Emails
  BY Carries DEF ClaimLink, At
<1>2. UNCHANGED <<candidate, account, exam>>
  BY DEF ClaimLink
<1>3. booking \in [Links -> Bookings] /\ booking[l] \in Bookings
  BY DEF Inv, TypeOK
<1>4. CASE ~Commits(l, f)
  <2>1. booking' = booking /\ Go(i, "idle")
    BY <1>1, <1>4 DEF ClaimLink
  <2>2. BooksNone /\ MakesNone /\ AddsNone /\ GoneIsBare'
    BY <1>2, <2>1 DEF BooksNone, MakesNone, AddsNone, AloneInv, GoneIsBare, Booked
  <2> QED
    BY <2>1, <2>2, GoesAlone
<1>5. CASE Commits(l, f)
  <2>1. booking' = [booking EXCEPT ![l] = Claimed(l, f)] /\ Go(i, "candidate")
    BY <1>1, <1>5 DEF ClaimLink, Claimed
  <2>2. /\ Claimed(l, f).form = f /\ Claimed(l, f).cand = booking[l].cand /\ Claimed(l, f).status = "booked"
    BY <1>3 DEF Claimed, Bookings
  <2>3. /\ booking'[l].form = f /\ booking'[l].cand = booking[l].cand /\ booking'[l].status = "booked"
        /\ \A x \in Links \ {l} : booking'[x] = booking[x]
    BY <1>3, <2>1, <2>2
  <2>4. account[EmailOf[f]].owner = Nobody
    BY <1>1 DEF ClaimLink, At, AloneInv, KeepsAddress, NoAccount
  <2>5. NotStranded'
    BY <1>2, <2>3, <2>4 DEF AloneInv, NotStranded, Booked
  <2>6. NoOrphans' /\ GoneIsBare'
    BY <1>2, <2>3 DEF AloneInv, NoOrphans, GoneIsBare
  <2>7. req'[i].step = "candidate" /\ req'[i].link = l /\ req'[i].form = f
    BY <1>1, <2>1, RequestGoes DEF Steps, Provisioning
  <2>8. AddressFree(l, EmailOf[f])'
    BY <1>5, <2>3 DEF Commits, AddressFree, Booked
  <2>9. KeepsAddress(i)'
    BY <2>7, <2>8 DEF KeepsAddress, AddressFree
  <2>10. "candidate" \notin Purging
    BY PurgeSteps DEF Purging, PurgeOrder
  <2>11. Removes(i)'
    BY <2>7, <2>10 DEF Removes
  <2> QED
    BY <2>5, <2>6, <2>9, <2>11, AloneKeeps
<1> QED
  BY <1>4, <1>5

LEMMA AccountAlone ==
  ASSUME Inv, AloneInv, OneRequest, NEW i \in Instances, InsertAccount(i)
  PROVE  AloneInv'
<1>1. PICK l \in Links, f \in Forms : l = req[i].link /\ f = req[i].form
  BY Carries DEF InsertAccount, At, Provisioning
<1>2. PICK e \in Emails : e = EmailOf[f]
  OBVIOUS
<1>3. UNCHANGED <<booking, candidate, exam>> /\ req[i].step = "account"
  BY DEF InsertAccount, At
<1>4. AddressFree(l, e) /\ candidate[l] # "none"
  BY <1>1, <1>2, <1>3 DEF AloneInv, KeepsAddress, Removes, Provisioning
<1>5. PICK a : /\ account' = [account EXCEPT ![e] = a]
               /\ a = account[e] \/ a = [owner |-> l, active |-> TRUE]
  BY <1>1, <1>2 DEF InsertAccount
<1>6. /\ account'[e] = account[e] \/ account'[e].owner = l
      /\ \A d \in Emails \ {e} : account'[d] = account[d]
  BY <1>5 DEF Inv, TypeOK
<1>7. \A x \in Links : Booked(x) => EmailOf[booking[x].form] \in Emails
  BY DEF Inv, TypeOK, RowsSound, Bookings
<1>8. NotStranded'
  BY <1>3, <1>4, <1>6, <1>7 DEF AloneInv, NotStranded, AddressFree, Booked
<1>9. NoOrphans' /\ GoneIsBare'
  BY <1>3, <1>4, <1>6 DEF AloneInv, NoOrphans, GoneIsBare
<1>10. PICK step \in {"exam", "idle"} : Go(i, step)
  BY DEF InsertAccount
<1>11. /\ req'[i].step = step
       /\ step # "idle" => req'[i].link = req[i].link /\ req'[i].form = req[i].form
  BY <1>10, RequestGoes DEF Steps, Provisioning
<1>12. KeepsAddress(i)'
  BY <1>1, <1>2, <1>3, <1>4, <1>11 DEF KeepsAddress, AddressFree, Booked, Provisioning
<1>13. {"exam", "idle"} \cap Purging = {}
  BY PurgeSteps DEF Purging, PurgeOrder
<1>14. Removes(i)'
  BY <1>1, <1>3, <1>4, <1>11, <1>13 DEF Removes
<1> QED
  BY <1>8, <1>9, <1>12, <1>14, AloneKeeps

\* The steps of a person deletion, one by one.
LEMMA PurgeCases ==
  ASSUME Inv, NEW i \in Instances, PurgeStep(i), NEW l \in Links, l = req[i].link
  PROVE  \/ /\ At(i, "flag") /\ Go(i, "suspend") /\ UNCHANGED <<account, exam, booking>>
            /\ candidate' = candidate \/ (candidate[l] # "none" /\ candidate' = [candidate EXCEPT ![l] = "deleting"])
         \/ /\ At(i, "suspend") /\ Go(i, "papers") /\ UNCHANGED <<candidate, exam, booking>>
            /\ \A e \in Emails : \/ account'[e] = account[e]
                                 \/ account[e].owner = l /\ account'[e] = [account[e] EXCEPT !.active = FALSE]
         \/ /\ At(i, "papers") /\ Go(i, "accounts") /\ UNCHANGED <<candidate, account, booking>>
            /\ exam' = IF "exam" \in req[i].found THEN [exam EXCEPT ![l] = "none"] ELSE exam
         \/ /\ At(i, "accounts") /\ Go(i, "bookings") /\ UNCHANGED <<candidate, exam, booking>>
            /\ \A e \in Emails : \/ account'[e] = account[e] /\ (account[e].owner # l \/ "account" \notin req[i].found)
                                 \/ account'[e] = NoAccount
         \/ /\ At(i, "bookings") /\ Go(i, "profile") /\ UNCHANGED <<candidate, account, exam>>
            /\ booking' = IF "booking" \in req[i].found THEN [booking EXCEPT ![l] = Gone] ELSE booking
         \/ /\ At(i, "profile") /\ Go(i, "idle") /\ UNCHANGED <<account, exam, booking>>
            /\ candidate' = [candidate EXCEPT ![l] = "none"]
<1>1. PICK n \in 1..6 :
        LET step == PurgeOrder[n]
            Listed(p) == p \in req[i].found
        IN /\ At(i, step)
           /\ Go(i, AfterPurge(n))
           /\ candidate' = CASE step = "flag" /\ candidate[l] # "none" -> [candidate EXCEPT ![l] = "deleting"]
                             [] step = "profile" -> [candidate EXCEPT ![l] = "none"]
                             [] OTHER -> candidate
           /\ account' = CASE step = "suspend" /\ Listed("account") ->
                                [e \in Emails |-> IF Owned(l, account[e]) THEN [account[e] EXCEPT !.active = FALSE]
                                                  ELSE account[e]]
                           [] step = "accounts" /\ Listed("account") ->
                                [e \in Emails |-> IF Owned(l, account[e]) THEN NoAccount ELSE account[e]]
                           [] OTHER -> account
           /\ exam' = IF step = "papers" /\ Listed("exam") THEN [exam EXCEPT ![l] = "none"] ELSE exam
           /\ booking' = IF step = "bookings" /\ Listed("booking")
                         THEN [booking EXCEPT ![l] = [NoLink EXCEPT !.status = "gone"]] ELSE booking
  BY PurgeSteps DEF PurgeStep
<1>2. \A m \in 1..6 : AfterPurge(m) = IF m = 6 THEN "idle" ELSE PurgeOrder[m + 1]
  BY PurgeSteps DEF AfterPurge
<1>3. CASE n = 1
  <2>1. PurgeOrder[n] = "flag" /\ AfterPurge(n) = "suspend"
    BY <1>2, <1>3 DEF PurgeOrder
  <2> QED
    BY <1>1, <2>1
<1>4. CASE n = 2
  <2>1. PurgeOrder[n] = "suspend" /\ AfterPurge(n) = "papers"
    BY <1>2, <1>4 DEF PurgeOrder
  <2> QED
    BY <1>1, <2>1 DEF Owned
<1>5. CASE n = 3
  <2>1. PurgeOrder[n] = "papers" /\ AfterPurge(n) = "accounts"
    BY <1>2, <1>5 DEF PurgeOrder
  <2> QED
    BY <1>1, <2>1
<1>6. CASE n = 4
  <2>1. PurgeOrder[n] = "accounts" /\ AfterPurge(n) = "bookings"
    BY <1>2, <1>6 DEF PurgeOrder
  <2> QED
    BY <1>1, <2>1 DEF Owned
<1>7. CASE n = 5
  <2>1. PurgeOrder[n] = "bookings" /\ AfterPurge(n) = "profile"
    BY <1>2, <1>7 DEF PurgeOrder
  <2> QED
    BY <1>1, <2>1 DEF Gone
<1>8. CASE n = 6
  <2>1. PurgeOrder[n] = "profile" /\ AfterPurge(n) = "idle"
    BY <1>2, <1>8 DEF PurgeOrder
  <2> QED
    BY <1>1, <2>1
<1> QED
  BY <1>3, <1>4, <1>5, <1>6, <1>7, <1>8

LEMMA PurgesAlone ==
  ASSUME Inv, AloneInv, OneRequest, NEW i \in Instances, PurgeStep(i)
  PROVE  AloneInv'
<1>1. req[i].step \in Purging /\ req[i].step # "idle"
  BY PurgeSteps DEF PurgeStep, At, Purging, PurgeOrder
<1>2. PICK l \in Links : l = req[i].link
  BY <1>1, Carries
<1>3. /\ candidate \in [Links -> {"none", "live", "deleting"}] /\ booking \in [Links -> Bookings]
      /\ exam \in [Links -> {"none", "open", "submitted", "cancelled"}]
      /\ \A e \in Emails : account[e] \in Accounts
  BY DEF Inv, TypeOK
<1>4. /\ exam[l] # "none" => "exam" \in req[i].found
      /\ \A e \in Emails : account[e].owner = l => "account" \in req[i].found
      /\ booking[l].status # "gone" => "booking" \in req[i].found
      /\ req[i].step \in {"accounts", "bookings", "profile"} => exam[l] = "none"
      /\ req[i].step \in {"bookings", "profile"} => \A e \in Emails : account[e].owner # l
      /\ req[i].step = "profile" => ~booking[l].cand
  BY <1>1, <1>2 DEF AloneInv, Removes
<1>5. Gone.status = "gone" /\ Gone.cand = FALSE /\ NoAccount.owner = Nobody /\ l # Nobody
  BY DEF Gone, NoLink, NoAccount
<1>6. ASSUME NEW e \in Emails, account[e].owner = l
      PROVE  [account[e] EXCEPT !.active = FALSE].owner = l
  BY <1>3, <1>6 DEF Accounts
<1>7. CASE At(i, "flag") /\ Go(i, "suspend") /\ UNCHANGED <<account, exam, booking>>
           /\ (candidate' = candidate \/ (candidate[l] # "none" /\ candidate' = [candidate EXCEPT ![l] = "deleting"]))
  <2>1. \A x \in Links : candidate'[x] = "none" => candidate[x] = "none"
    BY <1>3, <1>7
  <2>2. NotStranded' /\ NoOrphans' /\ GoneIsBare'
    BY <1>7, <2>1 DEF AloneInv, NotStranded, NoOrphans, GoneIsBare, Booked
  <2>3. req'[i].step = "suspend" /\ req'[i].link = l /\ req'[i].found = req[i].found
    BY <1>2, <1>7, RequestGoes DEF Steps, Purging
  <2>4. KeepsAddress(i)' /\ Removes(i)'
    BY <1>4, <1>7, <2>3 DEF KeepsAddress, Removes, Provisioning
  <2> QED
    BY <2>2, <2>4, AloneKeeps
<1>8. CASE At(i, "suspend") /\ Go(i, "papers") /\ UNCHANGED <<candidate, exam, booking>>
           /\ \A e \in Emails : \/ account'[e] = account[e]
                                \/ account[e].owner = l /\ account'[e] = [account[e] EXCEPT !.active = FALSE]
  <2>1. \A e \in Emails : account'[e].owner = account[e].owner
    BY <1>6, <1>8
  <2>2. NotStranded'
    <3>1. \A x \in Links : Booked(x) => EmailOf[booking[x].form] \in Emails
      BY DEF Inv, TypeOK, RowsSound, Bookings
    <3> QED
      BY <1>8, <2>1, <3>1 DEF AloneInv, NotStranded, Booked
  <2>3. NoOrphans' /\ GoneIsBare'
    BY <1>8, <2>1 DEF AloneInv, NoOrphans, GoneIsBare
  <2>4. req'[i].step = "papers" /\ req'[i].link = l /\ req'[i].found = req[i].found
    BY <1>2, <1>8, RequestGoes
  <2>5. KeepsAddress(i)' /\ Removes(i)'
    BY <1>4, <1>8, <2>1, <2>4 DEF KeepsAddress, Removes, Provisioning
  <2> QED
    BY <2>2, <2>3, <2>5, AloneKeeps
<1>9. CASE At(i, "papers") /\ Go(i, "accounts") /\ UNCHANGED <<candidate, account, booking>>
           /\ exam' = IF "exam" \in req[i].found THEN [exam EXCEPT ![l] = "none"] ELSE exam
  <2>1. exam'[l] = "none" /\ \A x \in Links : exam[x] = "none" => exam'[x] = "none"
    BY <1>3, <1>4, <1>9
  <2>2. NotStranded' /\ NoOrphans' /\ GoneIsBare'
    BY <1>9, <2>1 DEF AloneInv, NotStranded, NoOrphans, GoneIsBare, Booked
  <2>3. req'[i].step = "accounts" /\ req'[i].link = l /\ req'[i].found = req[i].found
    BY <1>2, <1>9, RequestGoes
  <2>4. KeepsAddress(i)' /\ Removes(i)'
    BY <1>4, <1>9, <2>1, <2>3 DEF KeepsAddress, Removes, Provisioning
  <2> QED
    BY <2>2, <2>4, AloneKeeps
<1>10. CASE At(i, "accounts") /\ Go(i, "bookings") /\ UNCHANGED <<candidate, exam, booking>>
            /\ \A e \in Emails : \/ account'[e] = account[e] /\ (account[e].owner # l \/ "account" \notin req[i].found)
                                 \/ account'[e] = NoAccount
  <2>1. \A e \in Emails : account'[e].owner # l /\ account'[e].owner \in {account[e].owner, Nobody}
    BY <1>4, <1>5, <1>10
  <2>2. NotStranded'
    <3>1. \A x \in Links : Booked(x) => EmailOf[booking[x].form] \in Emails
      BY DEF Inv, TypeOK, RowsSound, Bookings
    <3> QED
      BY <1>10, <2>1, <3>1 DEF AloneInv, NotStranded, Booked
  <2>3. NoOrphans' /\ GoneIsBare'
    BY <1>10, <2>1 DEF AloneInv, NoOrphans, GoneIsBare
  <2>4. req'[i].step = "bookings" /\ req'[i].link = l /\ req'[i].found = req[i].found
    BY <1>2, <1>10, RequestGoes
  <2>5. KeepsAddress(i)' /\ Removes(i)'
    BY <1>4, <1>10, <2>1, <2>4 DEF At, KeepsAddress, Removes, Provisioning
  <2> QED
    BY <2>2, <2>3, <2>5, AloneKeeps
<1>11. CASE At(i, "bookings") /\ Go(i, "profile") /\ UNCHANGED <<candidate, account, exam>>
            /\ booking' = IF "booking" \in req[i].found THEN [booking EXCEPT ![l] = Gone] ELSE booking
  <2>1. (booking'[l] = booking[l] \/ booking'[l] = Gone) /\ \A x \in Links \ {l} : booking'[x] = booking[x]
    BY <1>3, <1>11
  <2>2. /\ ~booking'[l].cand
        /\ \A x \in Links : booking'[x].status = "booked" => booking'[x] = booking[x]
    <3>1. booking'[l] = Gone \/ booking[l].status = "gone"
      BY <1>3, <1>4, <1>11
    <3>2. ~booking'[l].cand
      BY <1>5, <2>1, <3>1 DEF AloneInv, GoneIsBare
    <3> QED
      BY <1>5, <2>1, <3>2
  <2>3. NotStranded'
    BY <1>11, <2>2 DEF AloneInv, NotStranded, Booked
  <2>4. NoOrphans' /\ GoneIsBare'
    BY <1>11, <2>1, <2>2 DEF AloneInv, NoOrphans, GoneIsBare
  <2>5. req'[i].step = "profile" /\ req'[i].link = l /\ req'[i].found = req[i].found
    BY <1>2, <1>11, RequestGoes
  <2>6. booking'[l].status # "gone" => "booking" \in req[i].found
    BY <1>4, <1>5, <2>1
  <2>7. KeepsAddress(i)' /\ Removes(i)'
    BY <1>4, <1>11, <2>2, <2>5, <2>6 DEF At, KeepsAddress, Removes, Provisioning
  <2> QED
    BY <2>3, <2>4, <2>7, AloneKeeps
<1>12. CASE At(i, "profile") /\ Go(i, "idle") /\ UNCHANGED <<account, exam, booking>>
            /\ candidate' = [candidate EXCEPT ![l] = "none"]
  <2>1. \A x \in Links \ {l} : candidate'[x] = candidate[x]
    BY <1>3, <1>12
  <2>2. NotStranded' /\ GoneIsBare'
    BY <1>12 DEF AloneInv, NotStranded, GoneIsBare, Booked
  <2>3. NoOrphans'
    BY <1>4, <1>12, <2>1 DEF AloneInv, NoOrphans, At
  <2>4. req'[i].step = "idle"
    BY <1>12, RequestGoes
  <2>5. "idle" \notin Purging
    BY PurgeSteps DEF Purging, PurgeOrder
  <2>6. KeepsAddress(i)' /\ Removes(i)'
    BY <2>4, <2>5 DEF KeepsAddress, Removes, Provisioning
  <2> QED
    BY <2>2, <2>3, <2>6, AloneKeeps
<1> QED
  BY <1>2, <1>7, <1>8, <1>9, <1>10, <1>11, <1>12, PurgeCases

LEMMA StopsAlone ==
  ASSUME Inv, AloneInv, OneRequest, NEW i \in Instances, Fail(i)
  PROVE  AloneInv'
<1>1. CASE UNCHANGED req
  BY <1>1, AroundKeeps
<1>2. CASE req' = [req EXCEPT ![i] = NoRequest]
  <2>1. req'[i].step = "idle" /\ UNCHANGED <<booking, candidate, account, exam>>
    BY <1>2 DEF Fail, rows, NoRequest, Inv, TypeOK
  <2>2. NotStranded' /\ NoOrphans' /\ GoneIsBare'
    BY <2>1 DEF AloneInv, NotStranded, NoOrphans, GoneIsBare, Booked
  <2>3. "idle" \notin Purging
    BY PurgeSteps DEF Purging, PurgeOrder
  <2>4. KeepsAddress(i)' /\ Removes(i)'
    BY <2>1, <2>3 DEF KeepsAddress, Removes, Provisioning
  <2> QED
    BY <2>2, <2>4, AloneKeeps
<1> QED
  BY <1>1, <1>2 DEF Fail

LEMMA AloneStays == Inv /\ AloneInv /\ OneRequest /\ [Next]_vars => AloneInv'
<1> SUFFICES ASSUME Inv, AloneInv, OneRequest, [Next]_vars PROVE AloneInv'
  OBVIOUS
<1>1. CASE UNCHANGED vars
  BY <1>1, AroundIt DEF vars, rows, BooksNone, Booked
<1>2. CASE \E i \in Instances : Provision(i)
  BY <1>2, ClaimsAlone, ReadsAlone, InsertsAlone, RowsAlone, AccountAlone DEF Provision
<1> QED
  BY <1>1, <1>2, AroundKeeps, StartsAlone, ReadsAlone, RowsAlone, PurgesAlone, StopsAlone DEF Next

LEMMA AloneStarts == Init => AloneInv
<1> SUFFICES ASSUME Init PROVE AloneInv
  OBVIOUS
<1>1. "idle" \notin Purging
  BY PurgeSteps DEF Purging, PurgeOrder
<1>2. \A i \in Instances : KeepsAddress(i) /\ Removes(i)
  BY <1>1 DEF Init, NoRequest, KeepsAddress, Removes, Provisioning
<1> QED
  BY <1>2 DEF Init, AloneInv, NotStranded, NoOrphans, GoneIsBare, NoLink, NoAccount, Booked

\* On one server, whatever is cancelled, deleted and booked again, and wherever a
\* request stops, a booked link can always be set up: its address carries its own
\* account or none (bookings.mjs:257-266).
THEOREM NobodyStranded ==
  ASSUME OneRequest
  PROVE  Spec => []NotStranded
<1>1. AloneInv => NotStranded
  BY DEF AloneInv
<1> QED
  BY <1>1, InitInv, NextInv, AloneStarts, AloneStays, PTL DEF Spec

\* On one server a person deletion that stops anywhere, exams being deleted beside it,
\* leaves nothing that points at a profile which is gone (person-purge.mjs:93-110).
THEOREM NothingOrphaned ==
  ASSUME OneRequest
  PROVE  Spec => []NoOrphans
<1>1. AloneInv => NoOrphans
  BY DEF AloneInv
<1> QED
  BY <1>1, InitInv, NextInv, AloneStarts, AloneStays, PTL DEF Spec
=============================================================================
