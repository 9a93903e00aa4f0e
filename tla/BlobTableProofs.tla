-------------------------- MODULE BlobTableProofs --------------------------
(***************************************************************************)
(* Proofs about BlobTable, for every set of calls, rows and instances and  *)
(* every number of attempts, on a store that yields ETags.                 *)
(***************************************************************************)
EXTENDS BlobTable, TLAPS

USE CallAssumption, BlobAssumption

LEMMA ApplyType ==
  ASSUME NEW rows \in Tables, NEW c \in Calls
  PROVE  Apply(c, rows) \in Tables
<1>1. rows[Target[c]] \cup {c} \in SUBSET Calls
  BY DEF Tables
<1> QED
  BY <1>1 DEF Apply, Tables

LEMMA TablesFact == EmptyTable \in Tables /\ NoPut \in Puts
  BY DEF EmptyTable, Tables, NoPut, Puts

LEMMA InitIInv == Init => IInv
<1> SUFFICES ASSUME Init PROVE IInv
  OBVIOUS
<1>1. TypeOK
  BY TablesFact DEF Init, TypeOK
<1>2. CallsInv /\ LockInv /\ SnapshotInv /\ AttemptInv
  BY DEF Init, CallsInv, LockInv, SnapshotInv, AttemptInv, NoPut, Landed
<1>3. LandedInv /\ ClaimedOnce /\ ConflictMeansContention
  BY DEF Init, LandedInv, ClaimedOnce, ConflictMeansContention, NoPut, Landed, Claims
<1> QED
  BY <1>1, <1>2, <1>3 DEF IInv

\* The lock passes on when the call that holds it returns.
LEMMA ReturnFacts ==
  ASSUME TypeOK, NEW c \in Calls, HasLock(c), NEW answer \in {"ok", "refused", "conflict", "failed"},
         Return(c, answer)
  PROVE  /\ chain' \in [Instances -> Seq(Calls)]
         /\ step' \in [Calls -> {"idle", "read", "sent", "over"}]
         /\ reply' \in [Calls -> {"none", "waiting", "ok", "refused", "conflict", "failed"}]
         /\ step'[c] = "over" /\ reply'[c] = answer
         /\ \A d \in Calls \ {c} : step'[d] = step[d] /\ reply'[d] = reply[d]
         /\ \A d \in Calls : Home[d] # Home[c] => chain'[Home[d]] = chain[Home[d]]
<1>1. chain \in [Instances -> Seq(Calls)] /\ Home[c] \in Instances
  BY DEF TypeOK
<1>2. Tail(chain[Home[c]]) \in Seq(Calls)
  BY <1>1 DEF HasLock
<1> QED
  BY <1>1, <1>2 DEF Return, Leave, TypeOK

LEMMA ReturnKeepsLocks ==
  ASSUME TypeOK, LockInv, NEW c \in Calls, HasLock(c),
         NEW answer \in {"ok", "refused", "conflict", "failed"}, Return(c, answer)
  PROVE  LockInv'
<1> SUFFICES ASSUME NEW d \in Calls, step'[d] = "sent" PROVE HasLock(d)'
  BY DEF LockInv
<1>1. d # c /\ step[d] = "sent"
  BY ReturnFacts
<1>2. HasLock(d)
  BY <1>1 DEF LockInv
<1>3. Home[d] # Home[c]
  BY <1>1, <1>2 DEF HasLock
<1> QED
  BY <1>2, <1>3, ReturnFacts DEF HasLock

\* A step that writes neither the blob nor a PUT, and raises no attempt, keeps
\* what the invariant says of the stored rows.
LEMMA SameStoreKeepsIInv ==
  ASSUME IInv, TypeOK', CallsInv', LockInv', UNCHANGED <<blob, attempt, put, since>>,
         \A c \in Calls :
           /\ step'[c] = "idle" => step[c] = "idle"
           /\ step'[c] \in {"read", "sent"} => step'[c] = step[c] \/ (step'[c] = "read" /\ attempt[c] = 1)
           /\ reply'[c] = "conflict" => reply[c] = "conflict" \/ blob.etag >= since[c] + MaxAttempts
  PROVE  IInv'
<1>1. SnapshotInv' /\ LandedInv' /\ ClaimedOnce'
  BY DEF IInv, SnapshotInv, LandedInv, ClaimedOnce, Landed, Unremoved
<1>2. AttemptInv' /\ ConflictMeansContention'
  BY DEF IInv, AttemptInv, ConflictMeansContention
<1> QED
  BY <1>1, <1>2 DEF IInv

LEMMA CallKeepsIInv ==
  ASSUME IInv, NEW c \in Calls, Call(c)
  PROVE  IInv'
<1>0. TypeOK /\ c \in Calls /\ Home[c] \in Instances /\ chain[Home[c]] \in Seq(Calls)
  BY DEF IInv, TypeOK
<1>1. TypeOK'
  <2>1. Append(chain[Home[c]], c) \in Seq(Calls)
    BY <1>0
  <2> QED
    BY <1>0, <2>1 DEF Call, TypeOK
<1>2. attempt[c] = 1
  BY <1>0 DEF Call, IInv, AttemptInv
<1>3. CallsInv'
  BY <1>0 DEF Call, IInv, CallsInv, TypeOK, Landed
<1>4. LockInv'
  <2> SUFFICES ASSUME NEW d \in Calls, step'[d] = "sent" PROVE HasLock(d)'
    BY DEF LockInv
  <2>1. step[d] = "sent" /\ HasLock(d)
    BY <1>0 DEF Call, IInv, LockInv, TypeOK
  <2>2. chain[Home[d]] \in Seq(Calls) /\ chain[Home[d]] # <<>>
    BY <2>1 DEF HasLock, IInv, TypeOK
  <2>3. Head(Append(chain[Home[d]], c)) = Head(chain[Home[d]]) /\ Append(chain[Home[d]], c) # <<>>
    BY <2>2
  <2> QED
    BY <1>0, <2>1, <2>3 DEF Call, HasLock, TypeOK
<1> QED
  BY <1>0, <1>1, <1>2, <1>3, <1>4, SameStoreKeepsIInv DEF Call, TypeOK

\* A call that returns without a word to the store.
LEMMA ReturnKeepsIInv ==
  ASSUME IInv, NEW c \in Calls, HasLock(c), step[c] \in {"read", "sent"},
         NEW answer \in {"ok", "refused", "conflict", "failed"}, Return(c, answer),
         UNCHANGED <<blob, attempt, put, since>>,
         answer = "ok" => Landed(c),
         answer \in {"refused", "conflict"} => put[c].state \in {"none", "rejected"},
         answer = "conflict" => blob.etag >= since[c] + MaxAttempts
  PROVE  IInv'
<1>1. TypeOK'
  BY ReturnFacts DEF IInv, TypeOK
<1>2. CallsInv'
  <2>1. \A d \in Calls : put'[d] = put[d] /\ (Landed(d)' <=> Landed(d))
    BY DEF Landed
  <2>2. reply[c] = "waiting" /\ put[c].state \in {"none", "flying", "landed", "rejected"}
    BY DEF IInv, CallsInv, TypeOK, Puts
  <2>3. /\ step'[c] = "over" /\ reply'[c] = answer
        /\ \A d \in Calls \ {c} : step'[d] = step[d] /\ reply'[d] = reply[d]
    BY ReturnFacts DEF IInv
  <2>4. ASSUME NEW d \in Calls, d # c
        PROVE  /\ reply'[d] = "none" <=> step'[d] = "idle"
               /\ reply'[d] = "waiting" <=> step'[d] \in {"read", "sent"}
               /\ step'[d] = "sent" => put'[d].state # "none"
               /\ put'[d].state = "flying" => step'[d] = "sent" \/ reply'[d] = "failed"
               /\ Landed(d)' => step'[d] = "sent" \/ reply'[d] \in {"ok", "failed"}
               /\ reply'[d] = "ok" => Landed(d)'
    BY <2>1, <2>3, <2>4 DEF IInv, CallsInv
  <2> QED
    BY <2>1, <2>2, <2>3, <2>4 DEF CallsInv, Landed
<1>3. LockInv'
  BY ReturnKeepsLocks DEF IInv
<1>4. \A d \in Calls :
        /\ step'[d] = "idle" => step[d] = "idle"
        /\ step'[d] \in {"read", "sent"} => step'[d] = step[d]
        /\ reply'[d] = "conflict" => reply[d] = "conflict" \/ blob.etag >= since[d] + MaxAttempts
  BY ReturnFacts DEF IInv
<1> QED
  BY <1>1, <1>2, <1>3, <1>4, SameStoreKeepsIInv

\* What a call has landed, or not, does not change when another one sends.
LEMMA SendKeepsIInv ==
  ASSUME IInv, NEW c \in Calls, Read(c), Writes(c, blob.rows)
  PROVE  IInv'
<1> DEFINE new == [state |-> "flying", etag |-> blob.etag, rows |-> Apply(c, blob.rows)]
<1>0. TypeOK /\ CallsInv /\ step[c] = "read" /\ HasLock(c)
  BY DEF IInv, Read
<1>1. /\ put' = [put EXCEPT ![c] = new] /\ step' = [step EXCEPT ![c] = "sent"]
      /\ UNCHANGED <<blob, attempt, chain, reply>>
      /\ since' = IF attempt[c] = 1 THEN [since EXCEPT ![c] = blob.etag] ELSE since
  BY DEF Read
<1>2. new \in Puts /\ blob.etag \in Nat
  BY <1>0, ApplyType DEF TypeOK, Puts
<1>3. TypeOK'
  BY <1>0, <1>1, <1>2 DEF TypeOK
<1>4. /\ put'[c] = new /\ step'[c] = "sent"
      /\ \A d \in Calls \ {c} : put'[d] = put[d] /\ step'[d] = step[d] /\ since'[d] = since[d]
  BY <1>0, <1>1 DEF TypeOK
<1>5. ~Landed(c) /\ reply[c] = "waiting"
  BY <1>0 DEF CallsInv
<1>6. \A d \in Calls : Landed(d)' <=> Landed(d)
  BY <1>4, <1>5 DEF Landed
<1>7. CallsInv'
  BY <1>0, <1>1, <1>4, <1>5, <1>6 DEF CallsInv
<1>8. LockInv'
  BY <1>0, <1>1, <1>4 DEF IInv, LockInv, HasLock
<1>9. SnapshotInv'
  BY <1>1, <1>2, <1>4 DEF IInv, SnapshotInv
<1>10. AttemptInv' /\ ConflictMeansContention'
  <2>1. attempt[c] \in Nat /\ since[c] \in Nat /\ since'[c] = IF attempt[c] = 1 THEN blob.etag ELSE since[c]
    BY <1>0, <1>1 DEF TypeOK
  <2>2. blob.etag >= since'[c] + attempt[c] - 1
    BY <1>0, <1>2, <2>1 DEF IInv, AttemptInv
  <2>3. AttemptInv'
    BY <1>1, <1>4, <2>2 DEF IInv, AttemptInv
  <2>4. ConflictMeansContention'
    BY <1>1, <1>4, <1>5 DEF IInv, ConflictMeansContention
  <2> QED
    BY <2>3, <2>4
<1>11. LandedInv' /\ ClaimedOnce'
  BY <1>1, <1>6 DEF IInv, LandedInv, ClaimedOnce, Unremoved, Claims
<1> QED
  BY <1>3, <1>7, <1>8, <1>9, <1>10, <1>11 DEF IInv

LEMMA RetryKeepsIInv ==
  ASSUME IInv, NEW c \in Calls, Rejected(c), ~LastAttempt(attempt[c])
  PROVE  IInv'
<1>0. TypeOK /\ CallsInv /\ step[c] = "sent" /\ put[c].state = "rejected"
  BY DEF IInv, Rejected
<1>1. /\ attempt' = [attempt EXCEPT ![c] = attempt[c] + 1] /\ step' = [step EXCEPT ![c] = "read"]
      /\ UNCHANGED <<chain, reply, blob, put, since>>
  BY DEF Rejected
<1>2. attempt[c] + 1 \in 1..MaxAttempts /\ attempt[c] \in Nat
  BY <1>0 DEF LastAttempt, TypeOK
<1>3. TypeOK'
  BY <1>0, <1>1, <1>2 DEF TypeOK
<1>4. /\ step'[c] = "read" /\ attempt'[c] = attempt[c] + 1
      /\ \A d \in Calls \ {c} : step'[d] = step[d] /\ attempt'[d] = attempt[d]
  BY <1>0, <1>1 DEF TypeOK
<1>5. CallsInv' /\ LockInv'
  BY <1>0, <1>1, <1>4 DEF IInv, CallsInv, LockInv, HasLock, Landed
<1>6. AttemptInv'
  <2>1. blob.etag \in Nat /\ since[c] \in Nat /\ put[c].etag \in Nat
    BY <1>0 DEF TypeOK, Puts
  <2>2. blob.etag >= since[c] + attempt'[c] - 1
    BY <1>0, <1>2, <1>4, <2>1 DEF IInv, AttemptInv
  <2> QED
    BY <1>1, <1>2, <1>4, <2>2 DEF IInv, AttemptInv
<1>7. SnapshotInv' /\ LandedInv' /\ ClaimedOnce' /\ ConflictMeansContention'
  BY <1>1 DEF IInv, SnapshotInv, LandedInv, ClaimedOnce, ConflictMeansContention, Landed, Unremoved
<1> QED
  BY <1>3, <1>5, <1>6, <1>7 DEF IInv

LEMMA CrashKeepsIInv ==
  ASSUME IInv, NEW i \in Instances, Crash(i)
  PROVE  IInv'
<1>1. /\ UNCHANGED <<blob, attempt, put, since>> /\ chain' = [chain EXCEPT ![i] = <<>>]
      /\ \A c \in Calls : /\ reply'[c] = IF c \in Waiting(i) THEN "failed" ELSE reply[c]
                          /\ step'[c] = IF c \in Waiting(i) THEN "over" ELSE step[c]
  BY DEF Crash
<1>2. TypeOK'
  BY <1>1 DEF Crash, IInv, TypeOK
<1>3. CallsInv'
  BY <1>1 DEF IInv, CallsInv, Landed, Waiting
<1>4. LockInv'
  <2> SUFFICES ASSUME NEW c \in Calls, step'[c] = "sent" PROVE HasLock(c)'
    BY DEF LockInv
  <2>1. step[c] = "sent" /\ c \notin Waiting(i)
    BY <1>1
  <2>2. Home[c] # i
    BY <2>1 DEF Waiting, IInv, CallsInv
  <2> QED
    BY <1>1, <2>1, <2>2 DEF IInv, LockInv, HasLock, TypeOK
<1> QED
  BY <1>1, <1>2, <1>3, <1>4, SameStoreKeepsIInv

----------------------------------------------------------------------------
(* A PUT lands *)

\* On a store with ETags what lands is what its call makes of the stored rows.
LEMMA LandFacts ==
  ASSUME Versioned, IInv, NEW c \in Calls, Land(c), Matches(put[c])
  PROVE  /\ ~Landed(c) /\ Landed(c)' /\ Writes(c, blob.rows)
         /\ blob'.rows = Apply(c, blob.rows) /\ blob'.etag = blob.etag + 1
         /\ \A d \in Calls \ {c} : put'[d] = put[d] /\ (Landed(d)' <=> Landed(d))
<1>1. put[c].state = "flying" /\ put[c].etag = blob.etag /\ put \in [Calls -> Puts]
  BY DEF Land, Matches, IInv, TypeOK
<1>2. Writes(c, blob.rows) /\ put[c].rows = Apply(c, blob.rows)
  BY <1>1 DEF IInv, SnapshotInv
<1>3. /\ blob' = [rows |-> put[c].rows, etag |-> blob.etag + 1]
      /\ put' = [put EXCEPT ![c].state = "landed"]
  BY DEF Land
<1>4. put'[c].state = "landed" /\ \A d \in Calls \ {c} : put'[d] = put[d]
  BY <1>1, <1>3 DEF Puts
<1> QED
  BY <1>1, <1>2, <1>3, <1>4 DEF Landed

LEMMA LandKeepsIInv ==
  ASSUME Versioned, IInv, NEW c \in Calls, Land(c)
  PROVE  IInv'
<1>0. /\ TypeOK /\ put[c].state = "flying" /\ put \in [Calls -> Puts] /\ blob.etag \in Nat
      /\ blob.rows \in Tables
      /\ UNCHANGED <<chain, step, attempt, reply, since>>
  BY DEF Land, IInv, TypeOK
<1>1. \A d \in Calls : put[d].etag \in Nat /\ put'[d].etag = put[d].etag
  BY <1>0 DEF Land, Puts
<1>2. \A d \in Calls \ {c} : put'[d] = put[d]
  BY <1>0 DEF Land
<1>3. put'[c].state \in {"landed", "rejected"} /\ put' \in [Calls -> Puts]
  <2>1. PICK s \in {"landed", "rejected"} : put' = [put EXCEPT ![c].state = s]
    BY DEF Land
  <2>2. [put[c] EXCEPT !.state = s] \in Puts
    BY <1>0 DEF Puts
  <2>3. put'[c] = [put[c] EXCEPT !.state = s] /\ [put[c] EXCEPT !.state = s].state = s
    BY <1>0, <2>1 DEF Puts
  <2>4. put' \in [Calls -> Puts]
    BY <1>0, <2>1, <2>2
  <2> QED
    BY <2>3, <2>4
<1>4. LockInv'
  BY <1>0 DEF IInv, LockInv, HasLock
<1>5. CallsInv'
  BY <1>0, <1>2, <1>3 DEF IInv, CallsInv, Landed
<1>6. CASE ~Matches(put[c])
  <2>1. UNCHANGED blob /\ put'[c].state = "rejected" /\ put[c].etag # blob.etag
    BY <1>0, <1>6 DEF Land, Matches, Puts
  <2>2. \A d \in Calls : Landed(d)' <=> Landed(d)
    BY <1>0, <1>2, <2>1 DEF Landed
  <2>3. TypeOK'
    BY <1>0, <1>3, <2>1 DEF TypeOK
  <2>4. blob.etag > put[c].etag
    BY <1>0, <1>1, <2>1 DEF IInv, SnapshotInv
  <2>5. SnapshotInv' /\ AttemptInv'
    BY <1>0, <1>1, <1>2, <2>1, <2>4 DEF IInv, SnapshotInv, AttemptInv
  <2>6. LandedInv' /\ ClaimedOnce' /\ ConflictMeansContention'
    BY <1>0, <2>1, <2>2 DEF IInv, LandedInv, ClaimedOnce, ConflictMeansContention, Unremoved, Claims
  <2> QED
    BY <1>4, <1>5, <2>3, <2>5, <2>6 DEF IInv
<1>7. CASE Matches(put[c])
  <2>1. /\ ~Landed(c) /\ Landed(c)' /\ Writes(c, blob.rows)
        /\ blob'.rows = Apply(c, blob.rows) /\ blob'.etag = blob.etag + 1
        /\ \A d \in Calls \ {c} : put'[d] = put[d] /\ (Landed(d)' <=> Landed(d))
    BY <1>7, LandFacts
  <2>2. TypeOK'
    <3>1. blob' \in [rows: Tables, etag: Nat]
      <4>1. put[c].rows \in Tables
        BY <1>0 DEF Puts
      <4> QED
        BY <1>0, <1>7, <4>1 DEF Land
    <3> QED
      BY <1>0, <1>3, <3>1 DEF TypeOK
  <2>3. SnapshotInv'
    BY <1>0, <1>1, <1>2, <1>3, <2>1 DEF IInv, SnapshotInv
  <2>4. AttemptInv' /\ ConflictMeansContention'
    <3>1. \A d \in Calls : since[d] \in Nat /\ attempt[d] \in Nat
      BY <1>0 DEF TypeOK
    <3>2. put'[c].state = "landed"
      BY <2>1 DEF Landed
    <3> QED
      BY <1>0, <1>1, <1>2, <2>1, <3>1, <3>2 DEF IInv, AttemptInv, ConflictMeansContention
  <2>5. \A d \in Calls : Unremoved(d)' => Unremoved(d)
    BY <2>1 DEF Unremoved
  <2>6. \A id \in Ids : blob'.rows[id] =
          IF id # Target[c] THEN blob.rows[id]
          ELSE IF Kind[c] = "remove" THEN {} ELSE blob.rows[id] \cup {c}
    BY <1>0, <2>1 DEF Apply, Tables
  <2>7. LandedInv'
    <3> SUFFICES ASSUME NEW d \in Calls, Landed(d)', Kind[d] # "remove", Unremoved(d)'
                 PROVE  d \in blob'.rows[Target[d]]
      BY DEF LandedInv
    <3>1. ~(Kind[c] = "remove" /\ Target[c] = Target[d])
      BY <2>1 DEF Unremoved
    <3>2. CASE d = c
      BY <2>6, <3>1, <3>2
    <3>3. CASE d # c
      <4>1. d \in blob.rows[Target[d]]
        BY <2>1, <2>5, <3>3 DEF IInv, LandedInv
      <4> QED
        BY <2>6, <3>1, <4>1
    <3> QED
      BY <3>2, <3>3
  <2>8. ClaimedOnce'
    <3>1. ASSUME NEW d \in Claims, d # c, c \in Claims, Target[c] = Target[d], Landed(d)', Unremoved(d)'
          PROVE  FALSE
      <4>1. d \in blob.rows[Target[c]] /\ Kind[c] = "claim"
        BY <2>1, <2>5, <3>1 DEF IInv, LandedInv, Claims
      <4>2. blob.rows[Target[c]] \cap Claims = {}
        BY <2>1, <4>1 DEF Writes
      <4> QED
        BY <3>1, <4>1, <4>2
    <3>2. ASSUME NEW d \in Claims, NEW e \in Claims, Target[d] = Target[e], Landed(d)', Landed(e)',
                 Unremoved(d)'
          PROVE  d = e
      <4>1. Unremoved(e)'
        BY <3>2 DEF Unremoved
      <4>2. CASE d # c /\ e # c
        BY <2>1, <2>5, <3>2, <4>2 DEF IInv, ClaimedOnce, Claims
      <4> QED
        BY <3>1, <3>2, <4>1, <4>2
    <3> QED
      BY <3>2 DEF ClaimedOnce
  <2> QED
    BY <1>4, <1>5, <2>2, <2>3, <2>4, <2>7, <2>8 DEF IInv
<1> QED
  BY <1>6, <1>7


----------------------------------------------------------------------------
(* Every step *)

LEMMA NextKeepsIInv ==
  ASSUME Versioned, IInv, [Next]_vars
  PROVE  IInv'
<1>1. ASSUME NEW c \in Calls, Call(c) PROVE IInv'
  BY <1>1, CallKeepsIInv
<1>2. ASSUME NEW c \in Calls, Read(c) PROVE IInv'
  <2>1. CASE Writes(c, blob.rows)
    BY <1>2, <2>1, SendKeepsIInv
  <2>2. CASE ~Writes(c, blob.rows)
    <3>1. /\ step[c] = "read" /\ HasLock(c) /\ Return(c, "refused")
          /\ UNCHANGED <<blob, attempt, put, since>>
      BY <1>2, <2>2 DEF Read
    <3>2. put[c].state \in {"none", "rejected"}
      BY <3>1 DEF IInv, CallsInv, TypeOK, Puts, Landed
    <3> QED
      BY <3>1, <3>2, ReturnKeepsIInv
  <2> QED
    BY <2>1, <2>2
<1>3. ASSUME NEW c \in Calls, FailedRead(c) \/ LoseResponse(c) PROVE IInv'
  <2>1. /\ HasLock(c) /\ step[c] \in {"read", "sent"} /\ Return(c, "failed")
        /\ UNCHANGED <<blob, attempt, put, since>>
    BY <1>3 DEF FailedRead, LoseResponse, IInv, LockInv
  <2> QED
    BY <2>1, ReturnKeepsIInv
<1>4. ASSUME NEW c \in Calls, Acknowledge(c) PROVE IInv'
  <2>1. /\ HasLock(c) /\ step[c] = "sent" /\ Return(c, "ok") /\ Landed(c)
        /\ UNCHANGED <<blob, attempt, put, since>>
    BY <1>4 DEF Acknowledge, IInv, LockInv, Landed
  <2> QED
    BY <2>1, ReturnKeepsIInv
<1>5. ASSUME NEW c \in Calls, Rejected(c) PROVE IInv'
  <2>1. CASE LastAttempt(attempt[c])
    <3>1. /\ HasLock(c) /\ step[c] = "sent" /\ Return(c, "conflict") /\ put[c].state = "rejected"
          /\ UNCHANGED <<blob, attempt, put, since>>
      BY <1>5, <2>1 DEF Rejected, IInv, LockInv
    <3>2. /\ blob.etag \in Nat /\ since[c] \in Nat /\ put[c].etag \in Nat
          /\ attempt[c] \in 1..MaxAttempts /\ attempt[c] >= MaxAttempts
      BY <2>1 DEF IInv, TypeOK, Puts, LastAttempt
    <3>3. blob.etag >= since[c] + MaxAttempts
      BY <3>1, <3>2 DEF IInv, AttemptInv
    <3> QED
      BY <3>1, <3>3, ReturnKeepsIInv
  <2>2. CASE ~LastAttempt(attempt[c])
    BY <1>5, <2>2, RetryKeepsIInv
  <2> QED
    BY <2>1, <2>2
<1>6. CASE UNCHANGED vars
  BY <1>6 DEF vars, IInv, TypeOK, CallsInv, LockInv, HasLock, SnapshotInv, AttemptInv, LandedInv,
              ClaimedOnce, ConflictMeansContention, Landed, Unremoved
<1>7. ASSUME NEW c \in Calls, Land(c) PROVE IInv'
  BY <1>7, LandKeepsIInv
<1>8. ASSUME NEW i \in Instances, Crash(i) PROVE IInv'
  BY <1>8, CrashKeepsIInv
<1> QED
  BY <1>1, <1>2, <1>3, <1>4, <1>5, <1>6, <1>7, <1>8 DEF Next, Progress

----------------------------------------------------------------------------
(* The blob table implements the atomic table *)

LEMMA SameDecisions ==
  /\ Table!EmptyTable = EmptyTable
  /\ \A c, rows : (Table!Writes(c, rows) <=> Writes(c, rows)) /\ Table!Apply(c, rows) = Apply(c, rows)
<1>1. Table!Claims = Claims
  BY DEF Table!Claims, Claims
<1> QED
  BY <1>1 DEF Table!EmptyTable, EmptyTable, Table!Writes, Writes, Table!Apply, Apply

LEMMA NextIsTableNext ==
  ASSUME Versioned, IInv, [Next]_vars
  PROVE  [Table!Next]_(Table!vars)
<1> DEFINE effect == [c \in Calls |-> Landed(c)]
<1>0. reply \in [Calls -> {"none", "waiting", "ok", "refused", "conflict", "failed"}]
  BY DEF IInv, TypeOK
<1>1. ASSUME UNCHANGED <<blob, put>> PROVE UNCHANGED <<blob.rows, effect>>
  BY <1>1 DEF Landed
<1>2. ASSUME NEW c \in Calls, Call(c) PROVE Table!Invoke(c)
  BY <1>1, <1>2 DEF Call, Table!Invoke, IInv, CallsInv
<1>3. ASSUME NEW c \in Calls, Read(c) PROVE [Table!Next]_(Table!vars)
  <2>1. CASE Writes(c, blob.rows)
    <3>1. ~Landed(c)
      BY <1>3 DEF Read, IInv, CallsInv
    <3>2. put' = [put EXCEPT ![c] = [state |-> "flying", etag |-> blob.etag, rows |-> Apply(c, blob.rows)]]
          /\ UNCHANGED <<blob, reply>>
      BY <1>3, <2>1 DEF Read
    <3>3. \A d \in Calls : Landed(d)' <=> Landed(d)
      BY <3>1, <3>2 DEF Landed, IInv, TypeOK
    <3>4. effect' = effect
      BY <3>3 DEF Landed
    <3> QED
      BY <3>2, <3>4 DEF Table!vars
  <2>2. CASE ~Writes(c, blob.rows)
    <3>1. Table!Refuse(c)
      BY <1>1, <1>3, <2>2, SameDecisions DEF Read, Return, Table!Refuse, IInv, CallsInv, TypeOK
    <3> QED
      BY <3>1 DEF Table!Next
  <2> QED
    BY <2>1, <2>2
<1>4. ASSUME NEW c \in Calls, Land(c) PROVE [Table!Next]_(Table!vars)
  <2>1. CASE Matches(put[c])
    <3>1. /\ ~Landed(c) /\ Landed(c)' /\ Writes(c, blob.rows) /\ blob'.rows = Apply(c, blob.rows)
          /\ \A d \in Calls \ {c} : Landed(d)' <=> Landed(d)
      BY <1>4, <2>1, LandFacts
    <3>2. effect' = [effect EXCEPT ![c] = TRUE]
      BY <3>1 DEF Landed
    <3>3. reply[c] \in {"waiting", "failed"} /\ reply' = reply
      BY <1>4 DEF Land, IInv, CallsInv
    <3>4. Table!TakeEffect(c)
      BY <3>1, <3>2, <3>3, SameDecisions DEF Table!TakeEffect
    <3> QED
      BY <3>4 DEF Table!Next
  <2>2. CASE ~Matches(put[c])
    <3>1. put[c].state = "flying" /\ put' = [put EXCEPT ![c].state = "rejected"] /\ UNCHANGED <<blob, reply>>
      BY <1>4, <2>2 DEF Land
    <3>2. \A d \in Calls : Landed(d)' <=> Landed(d)
      BY <3>1 DEF Landed, IInv, TypeOK, Puts
    <3>3. effect' = effect
      BY <3>2 DEF Landed
    <3> QED
      BY <3>1, <3>3 DEF Table!vars
  <2> QED
    BY <2>1, <2>2
<1>5. ASSUME NEW c \in Calls, Acknowledge(c) PROVE Table!Confirm(c)
  BY <1>1, <1>5 DEF Acknowledge, Return, Table!Confirm, Landed, IInv, CallsInv
<1>6. ASSUME NEW c \in Calls, Rejected(c) PROVE [Table!Next]_(Table!vars)
  <2>1. CASE LastAttempt(attempt[c])
    <3>1. Table!GiveUp(c)
      BY <1>1, <1>6, <2>1 DEF Rejected, Return, Table!GiveUp, Landed, IInv, CallsInv
    <3> QED
      BY <3>1 DEF Table!Next
  <2>2. CASE ~LastAttempt(attempt[c])
    BY <1>1, <1>6, <2>2 DEF Rejected, Table!vars
  <2> QED
    BY <2>1, <2>2
<1>7. ASSUME NEW c \in Calls, FailedRead(c) \/ LoseResponse(c) PROVE [Table!Next]_(Table!vars)
  <2>1. reply[c] = "waiting" /\ Return(c, "failed") /\ UNCHANGED <<blob, put>>
    BY <1>7 DEF FailedRead, LoseResponse, IInv, CallsInv
  <2>2. reply' = [d \in Calls |-> IF d \in {c} THEN "failed" ELSE reply[d]]
    BY <1>0, <2>1 DEF Return
  <2>3. Table!Fail({c})
    BY <1>1, <2>1, <2>2 DEF Table!Fail
  <2> QED
    BY <2>3 DEF Table!Next
<1>8. ASSUME NEW i \in Instances, Crash(i) PROVE [Table!Next]_(Table!vars)
  <2>1. Table!Fail(Waiting(i)) /\ Waiting(i) \in SUBSET Calls
    BY <1>1, <1>8 DEF Crash, Waiting, Table!Fail
  <2> QED
    BY <2>1 DEF Table!Next
<1>9. CASE UNCHANGED vars
  BY <1>1, <1>9 DEF vars, Table!vars
<1> QED
  BY <1>2, <1>3, <1>4, <1>5, <1>6, <1>7, <1>8, <1>9 DEF Next, Progress, Table!Next

\* The inductive invariant holds of every reachable state of a store with ETags.
THEOREM Inductive == Versioned => (Spec => []IInv)
<1> SUFFICES ASSUME Versioned PROVE Spec => []IInv
  OBVIOUS
<1>1. Init => IInv
  BY InitIInv
<1>2. IInv /\ [Next]_vars => IInv'
  BY NextKeepsIInv
<1> QED
  BY <1>1, <1>2, PTL DEF Spec

\* On a store with ETags no instance's write-back undoes a write that was
\* acknowledged (casWrite, mutate).
THEOREM WritesKept == Versioned => (Spec => []NoAcknowledgedWriteLost)
<1> SUFFICES ASSUME Versioned PROVE Spec => []NoAcknowledgedWriteLost
  OBVIOUS
<1>1. IInv => NoAcknowledgedWriteLost
  BY DEF IInv, LandedInv, CallsInv, NoAcknowledgedWriteLost
<1> QED
  BY <1>1, Inductive, PTL

\* Of the claims on a row one at most takes effect (changeRow).
THEOREM OneClaim == Versioned => (Spec => []ClaimedOnce)
<1> SUFFICES ASSUME Versioned PROVE Spec => []ClaimedOnce
  OBVIOUS
<1>1. IInv => ClaimedOnce
  BY DEF IInv
<1> QED
  BY <1>1, Inductive, PTL

\* STORE_CONFLICT is answered after MaxAttempts writes of others only (mutate).
THEOREM ConflictsAreReal == Versioned => (Spec => []ConflictMeansContention)
<1> SUFFICES ASSUME Versioned PROVE Spec => []ConflictMeansContention
  OBVIOUS
<1>1. IInv => ConflictMeansContention
  BY DEF IInv
<1> QED
  BY <1>1, Inductive, PTL

\* A store with ETags is an atomic table, whatever calls are made, from however
\* many instances, with lost responses, late PUTs and dying instances.
THEOREM TableImplemented == Versioned => (Spec => ImplementsAtomicTable)
<1> SUFFICES ASSUME Versioned PROVE Spec => ImplementsAtomicTable
  OBVIOUS
<1>1. Init => Table!Init
  <2> SUFFICES ASSUME Init PROVE Table!Init
    OBVIOUS
  <2>1. \A c \in Calls : put[c].state = "none"
    BY DEF Init, NoPut
  <2>2. [c \in Calls |-> Landed(c)] = [c \in Calls |-> FALSE]
    BY <2>1, Zenon DEF Landed
  <2> QED
    BY <2>2, SameDecisions DEF Init, Table!Init
<1>2. IInv /\ [Next]_vars => [Table!Next]_(Table!vars)
  BY NextIsTableNext
<1> QED
  BY <1>1, <1>2, Inductive, PTL DEF Spec, Table!Spec, ImplementsAtomicTable

=============================================================================
