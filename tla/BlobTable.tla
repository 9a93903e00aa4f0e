----------------------------- MODULE BlobTable -----------------------------
(***************************************************************************)
(* A table of the Netlify Blobs store (storage/netlify-blobs.mjs): one     *)
(* blob holds all its rows, every mutation reads it, edits the copy and    *)
(* writes it back on condition that its ETag is still the one read.  The   *)
(* mutations of one function instance wait for each other in a promise     *)
(* chain; those of different instances meet at the ETag only.  A PUT that  *)
(* was sent lands at its own time, even when the sender has given it up or *)
(* is dead.                                                                *)
(***************************************************************************)
EXTENDS TableRows, Naturals, Sequences

CONSTANTS
  Instances,     \* function instances
  Home,          \* Home[c]: the instance call c is made in
  MaxAttempts,   \* MAX_CAS_ATTEMPTS
  Versioned,     \* does the store yield ETags?
  Faults         \* may a storage call fail, and an instance die?

ASSUME BlobAssumption ==
  /\ Home \in [Calls -> Instances]
  /\ MaxAttempts \in Nat \ {0}
  /\ Versioned \in BOOLEAN /\ Faults \in BOOLEAN

VARIABLES
  blob,      \* the stored rows and their ETag (the number of writes; 0: no blob yet)
  chain,     \* chain[i]: the calls of instance i that hold or await the table's lock
  step,      \* step[c]: where call c is
  attempt,   \* attempt[c]: its current attempt
  put,       \* put[c]: its last conditional write, and what became of it
  reply,     \* reply[c]: what its caller was told
  since      \* history: the ETag call c read before its first write

vars == <<blob, chain, step, attempt, put, reply, since>>

Puts == [state: {"none", "flying", "landed", "rejected"}, etag: Nat, rows: Tables]
NoPut == [state |-> "none", etag |-> 0, rows |-> EmptyTable]

Init ==
  /\ blob = [rows |-> EmptyTable, etag |-> 0]
  /\ chain = [i \in Instances |-> <<>>]
  /\ step = [c \in Calls |-> "idle"]
  /\ attempt = [c \in Calls |-> 1]
  /\ put = [c \in Calls |-> NoPut]
  /\ reply = [c \in Calls |-> "none"]
  /\ since = [c \in Calls |-> 0]

----------------------------------------------------------------------------
(* withLock: a call waits for the calls before it, however they end *)

Call(c) ==
  /\ step[c] = "idle"
  /\ step' = [step EXCEPT ![c] = "read"]
  /\ chain' = [chain EXCEPT ![Home[c]] = Append(@, c)]
  /\ reply' = [reply EXCEPT ![c] = "waiting"]
  /\ UNCHANGED <<blob, attempt, put, since>>

HasLock(c) == chain[Home[c]] # <<>> /\ Head(chain[Home[c]]) = c

\* Faulty variant of Leave: a failed call keeps the calls behind it waiting.
FaultyLeave(c, answer) ==
  IF answer = "failed" THEN chain ELSE [chain EXCEPT ![Home[c]] = Tail(@)]

Leave(c, answer) == [chain EXCEPT ![Home[c]] = Tail(@)]

Return(c, answer) ==
  /\ reply' = [reply EXCEPT ![c] = answer]
  /\ step' = [step EXCEPT ![c] = "over"]
  /\ chain' = Leave(c, answer)

----------------------------------------------------------------------------
(* mutate *)

\* Read the blob and its ETag, run the decision on the copy, and send the write
\* or return.
Read(c) ==
  /\ step[c] = "read" /\ HasLock(c)
  /\ IF Writes(c, blob.rows)
     THEN /\ put' = [put EXCEPT ![c] = [state |-> "flying", etag |-> blob.etag,
                                         rows |-> Apply(c, blob.rows)]]
          /\ step' = [step EXCEPT ![c] = "sent"]
          /\ since' = IF attempt[c] = 1 THEN [since EXCEPT ![c] = blob.etag] ELSE since
          /\ UNCHANGED <<chain, reply>>
     ELSE Return(c, "refused") /\ UNCHANGED <<put, since>>
  /\ UNCHANGED <<blob, attempt>>

\* A read that fails throws (it never reads as an empty table).
FailedRead(c) ==
  /\ Faults
  /\ step[c] = "read" /\ HasLock(c)
  /\ Return(c, "failed")
  /\ UNCHANGED <<blob, attempt, put, since>>

\* Faulty variants of Matches: no condition at all; none for a blob not there yet.
FaultyUnconditional(p) == TRUE
FaultyFirstWrite(p) == ~Versioned \/ p.etag = 0 \/ p.etag = blob.etag

\* onlyIfMatch / onlyIfNew; a store without ETags writes unconditionally.
Matches(p) == ~Versioned \/ p.etag = blob.etag

\* The store carries out a PUT that was sent.
Land(c) ==
  /\ put[c].state = "flying"
  /\ IF Matches(put[c])
     THEN /\ blob' = [rows |-> put[c].rows, etag |-> blob.etag + 1]
          /\ put' = [put EXCEPT ![c].state = "landed"]
     ELSE /\ put' = [put EXCEPT ![c].state = "rejected"]
          /\ UNCHANGED blob
  /\ UNCHANGED <<chain, step, attempt, reply, since>>

Acknowledge(c) ==
  /\ step[c] = "sent" /\ put[c].state = "landed"
  /\ Return(c, "ok")
  /\ UNCHANGED <<blob, attempt, put, since>>

LastAttempt(n) == n >= MaxAttempts

\* `modified: false`: read again after a pause, or give up with STORE_CONFLICT.
Rejected(c) ==
  /\ step[c] = "sent" /\ put[c].state = "rejected"
  /\ IF LastAttempt(attempt[c])
     THEN Return(c, "conflict") /\ UNCHANGED attempt
     ELSE /\ attempt' = [attempt EXCEPT ![c] = @ + 1]
          /\ step' = [step EXCEPT ![c] = "read"]
          /\ UNCHANGED <<chain, reply>>
  /\ UNCHANGED <<blob, put, since>>

\* The sender gets an error instead of the response, whatever became of the PUT.
LoseResponse(c) ==
  /\ Faults
  /\ step[c] = "sent"
  /\ Return(c, "failed")
  /\ UNCHANGED <<blob, attempt, put, since>>

\* The instance dies with all its calls; what they sent may still land.
Waiting(i) == {c \in Calls : Home[c] = i /\ reply[c] = "waiting"}

Crash(i) ==
  /\ Faults
  /\ Waiting(i) # {}
  /\ reply' = [c \in Calls |-> IF c \in Waiting(i) THEN "failed" ELSE reply[c]]
  /\ step' = [c \in Calls |-> IF c \in Waiting(i) THEN "over" ELSE step[c]]
  /\ chain' = [chain EXCEPT ![i] = <<>>]
  /\ UNCHANGED <<blob, attempt, put, since>>

Progress(c) == Read(c) \/ Land(c) \/ Acknowledge(c) \/ Rejected(c)

Next ==
  \/ \E c \in Calls : Call(c) \/ Progress(c) \/ FailedRead(c) \/ LoseResponse(c)
  \/ \E i \in Instances : Crash(i)

Spec == Init /\ [][Next]_vars

\* A call that was made is worked on: the event loop runs, the store answers.
FairSpec == Spec /\ \A c \in Calls : WF_vars(Progress(c))

----------------------------------------------------------------------------
(* Properties *)

TypeOK ==
  /\ blob \in [rows: Tables, etag: Nat]
  /\ chain \in [Instances -> Seq(Calls)]
  /\ step \in [Calls -> {"idle", "read", "sent", "over"}]
  /\ attempt \in [Calls -> 1..MaxAttempts]
  /\ put \in [Calls -> Puts]
  /\ reply \in [Calls -> {"none", "waiting", "ok", "refused", "conflict", "failed"}]
  /\ since \in [Calls -> Nat]

Landed(c) == put[c].state = "landed"

\* No removal of the row c works on has landed.
Unremoved(c) == \A d \in Calls : Kind[d] = "remove" /\ Target[d] = Target[c] => ~Landed(d)

\* A write that was acknowledged stays in its row until a removal of that row
\* lands, whatever the other instances write back from copies they read before.
NoAcknowledgedWriteLost ==
  \A c \in Calls :
    reply[c] = "ok" /\ Kind[c] # "remove" /\ Unremoved(c) => c \in blob.rows[Target[c]]

\* Of several claims on one row one at most succeeds (two instances cannot both
\* advance the same cursor, lock the same answer or take the same recovery link).
ClaimedOnce ==
  \A c, d \in Claims :
    Target[c] = Target[d] /\ Landed(c) /\ Landed(d) /\ Unremoved(c) => c = d

\* A call gives up only when the table was rewritten MaxAttempts times since the
\* read before its first write: a 503 means contention, never a single unlucky write.
ConflictMeansContention ==
  \A c \in Calls : reply[c] = "conflict" => blob.etag >= since[c] + MaxAttempts

\* The inductive invariant behind them, of a store with ETags.  Where a call is
\* and what its caller knows go together.
CallsInv ==
  \A c \in Calls :
    /\ reply[c] = "none" <=> step[c] = "idle"
    /\ reply[c] = "waiting" <=> step[c] \in {"read", "sent"}
    /\ step[c] = "sent" => put[c].state # "none"
    /\ put[c].state = "flying" => step[c] = "sent" \/ reply[c] = "failed"
    /\ Landed(c) => step[c] = "sent" \/ reply[c] \in {"ok", "failed"}
    /\ reply[c] = "ok" => Landed(c)

\* A call that has sent its write holds the lock of the table in its instance.
LockInv == \A c \in Calls : step[c] = "sent" => HasLock(c)

\* A PUT whose ETag still matches carries what its call makes of the stored rows.
SnapshotInv ==
  \A c \in Calls : put[c].state = "flying" =>
    /\ put[c].etag <= blob.etag
    /\ put[c].etag = blob.etag => Writes(c, blob.rows) /\ put[c].rows = Apply(c, blob.rows)

\* Each attempt but the first follows a write of another call.
AttemptInv ==
  \A c \in Calls :
    /\ step[c] = "idle" => attempt[c] = 1
    /\ step[c] = "read" /\ attempt[c] # 1 => blob.etag >= since[c] + attempt[c] - 1
    /\ step[c] = "sent" => /\ put[c].etag >= since[c] + attempt[c] - 1
                           /\ put[c].state = "rejected" => blob.etag > put[c].etag

\* What landed is stored, acknowledged or not.
LandedInv ==
  \A c \in Calls :
    Landed(c) /\ Kind[c] # "remove" /\ Unremoved(c) => c \in blob.rows[Target[c]]

IInv ==
  /\ TypeOK /\ CallsInv /\ LockInv /\ SnapshotInv /\ AttemptInv /\ LandedInv
  /\ ClaimedOnce /\ ConflictMeansContention

Table == INSTANCE AtomicTable WITH
  table <- blob.rows, effect <- [c \in Calls |-> Landed(c)]

\* The blob table implements the atomic table.
ImplementsAtomicTable == Table!Spec

\* Every call is answered, even behind calls that fail.
EveryCallAnswered ==
  \A c \in Calls : reply[c] = "waiting" ~> reply[c] \notin {"none", "waiting"}
=============================================================================
