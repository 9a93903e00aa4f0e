----------------------------- MODULE ShardMove -----------------------------
(***************************************************************************)
(* The responses of one assessment, kept in a shard object of their own    *)
(* (storage/row-tables.mjs, createShardTable), while an earlier version of *)
(* the server had them in the one object of the whole table.  Every access *)
(* first folds what is left of the old object into the shard, then drops   *)
(* it there; shard writes are conditional on the ETag that was read.  An   *)
(* instance of the earlier version may go on writing into the old object.  *)
(*                                                                         *)
(* A row is the time of its last write (its stamp), 0 if there is none; a  *)
(* copy in the old object has the time of its insert for an id.            *)
(***************************************************************************)
EXTENDS Naturals

CONSTANTS
  Callers,       \* requests at work on the shard: one mutation or listing each
  ShardRows,     \* the rows of the shard
  DropFails,     \* may the removal of the old copies fail?
  MaxStamp       \* bound: the last time

ASSUME ShardAssumption ==
  /\ ShardRows # {} /\ DropFails \in BOOLEAN
  /\ MaxStamp \in Nat \ {0}

VARIABLES
  old,        \* the rows of the shard in the whole-table object
  ids,        \* ids[r]: the id of row r in the old object, 0 if it is not there
  shard,      \* the shard object
  drained,    \* drained[c]: c's instance saw the old object empty less than a minute ago
  call,       \* call[c]: what caller c is doing
  now,        \* the time of the last write
  latest,     \* history: latest[r], the stamp of the last write of r, 0 if it was a removal
  overtaken   \* history: the rows whose last write went into an old copy about to be dropped

shardVars == <<old, ids, shard, drained, call, now, latest, overtaken>>

NoRows == [r \in ShardRows |-> 0]
Stamps == [ShardRows -> 0..MaxStamp]
Idle == [step |-> "idle", kind |-> "list", row |-> CHOOSE r \in ShardRows : TRUE,
         rows |-> NoRows, fresh |-> FALSE, seen |-> NoRows, seenIds |-> NoRows]

\* The old version stored rows; the shard does not exist yet.
ShardInit ==
  /\ old \in {s \in Stamps : \A r \in ShardRows : s[r] <= 1}
  /\ now = 1
  /\ shard = NoRows
  /\ drained = [c \in Callers |-> FALSE]
  /\ call = [c \in Callers |-> Idle]
  /\ ids = old /\ latest = old /\ overtaken = {}

\* A write of the shard makes every ETag read before it stale.
Goes(c, d) == call' = [call EXCEPT ![c] = d]
Rewrites(c, d, rows) ==
  /\ shard' = rows
  /\ call' = [x \in Callers |-> IF x = c THEN d ELSE [call[x] EXCEPT !.fresh = FALSE]]

ShardCall(c, kind, r) ==
  /\ call[c].step = "idle"
  /\ Goes(c, [Idle EXCEPT !.step = "read", !.kind = kind, !.row = r])
  /\ UNCHANGED <<old, ids, shard, drained, now, latest, overtaken>>

ReadShard(c) ==
  /\ call[c].step = "read"
  /\ Goes(c, [call[c] EXCEPT !.step = "legacy", !.rows = shard, !.fresh = TRUE])
  /\ UNCHANGED <<old, ids, shard, drained, now, latest, overtaken>>

\* The old object is not read again for a minute after it was seen empty.
DrainedNow == old = NoRows

ReadOld(c) ==
  /\ call[c].step = "legacy"
  /\ LET seen == IF drained[c] THEN NoRows ELSE old
     IN Goes(c, [call[c] EXCEPT !.step = IF seen = NoRows THEN "decide" ELSE "fold",
                                !.seen = seen, !.seenIds = IF drained[c] THEN NoRows ELSE ids])
  /\ drained' = [drained EXCEPT ![c] = @ \/ DrainedNow]
  /\ UNCHANGED <<old, ids, shard, now, latest, overtaken>>

MinutePasses(c) ==
  /\ drained[c]
  /\ drained' = [drained EXCEPT ![c] = FALSE]
  /\ UNCHANGED <<old, ids, shard, call, now, latest, overtaken>>

\* Faulty variant: the old copy wins.
FaultyFolded(rows, seen) == [r \in ShardRows |-> IF seen[r] # 0 THEN seen[r] ELSE rows[r]]

\* Of two copies of a row the one written last stays.
Folded(rows, seen) == [r \in ShardRows |-> IF seen[r] > rows[r] THEN seen[r] ELSE rows[r]]

\* What was read before the fold is not used again.
Forgets(c) == Goes(c, [call[c] EXCEPT !.step = "reread", !.rows = NoRows, !.seen = NoRows, !.seenIds = NoRows])

Fold(c) ==
  /\ call[c].step = "fold"
  /\ IF call[c].fresh
     THEN Rewrites(c, [call[c] EXCEPT !.step = "drop", !.rows = NoRows], Folded(call[c].rows, call[c].seen))
     ELSE Forgets(c) /\ UNCHANGED shard
  /\ UNCHANGED <<old, ids, drained, now, latest, overtaken>>

\* Caller c has read the copy of r that is in the old object, and will drop it.
WillDrop(c, r) == ids[r] # 0 /\ call[c].seenIds[r] = ids[r]

\* The old copies are dropped by id, whatever they hold by now; a failure is logged only.
Drop(c) ==
  /\ call[c].step = "drop"
  /\ \/ /\ old' = [r \in ShardRows |-> IF WillDrop(c, r) THEN 0 ELSE old[r]]
        /\ ids' = [r \in ShardRows |-> IF WillDrop(c, r) THEN 0 ELSE ids[r]]
     \/ DropFails /\ UNCHANGED <<old, ids>>
  /\ Forgets(c)
  /\ UNCHANGED <<shard, drained, now, latest, overtaken>>

Reread(c) ==
  /\ call[c].step = "reread"
  /\ Goes(c, [call[c] EXCEPT !.step = "decide", !.rows = shard, !.fresh = TRUE])
  /\ UNCHANGED <<old, ids, shard, drained, now, latest, overtaken>>

\* changeRow inserts or replaces; an insert of a row that exists throws, an
\* update or removal of one that does not returns; a listing only reads.
Changes(kind, stamp) ==
  \/ kind = "change"
  \/ kind = "insert" /\ stamp = 0
  \/ kind \in {"update", "remove"} /\ stamp # 0

Return(c) ==
  /\ call[c].step = "decide" /\ ~Changes(call[c].kind, call[c].rows[call[c].row])
  /\ Goes(c, Idle)
  /\ UNCHANGED <<old, ids, shard, drained, now, latest, overtaken>>

WriteShard(c) ==
  LET r == call[c].row stamp == IF call[c].kind = "remove" THEN 0 ELSE now + 1 IN
  /\ call[c].step = "decide" /\ Changes(call[c].kind, call[c].rows[r])
  /\ call[c].fresh /\ stamp <= MaxStamp
  /\ Rewrites(c, Idle, [call[c].rows EXCEPT ![r] = stamp])
  /\ now' = IF stamp = 0 THEN now ELSE stamp
  /\ latest' = [latest EXCEPT ![r] = stamp]
  /\ overtaken' = overtaken \ {r}
  /\ UNCHANGED <<old, ids, drained>>

\* A refused write starts over; after MAX_CAS_ATTEMPTS of them the call gives up.
Refused(c) ==
  /\ call[c].step = "decide" /\ Changes(call[c].kind, call[c].rows[call[c].row])
  /\ ~call[c].fresh
  /\ \/ Goes(c, [call[c] EXCEPT !.step = "read"])
     \/ Goes(c, Idle)
  /\ UNCHANGED <<old, ids, shard, drained, now, latest, overtaken>>

\* A storage call fails, or the instance dies; what was written stays.
ShardFail(c) ==
  /\ call[c].step # "idle"
  /\ Goes(c, Idle)
  /\ UNCHANGED <<old, ids, shard, drained, now, latest, overtaken>>

(***************************************************************************)
(* The earlier version knows the old object alone: it updates the row it   *)
(* finds there, inserts one under a new id where there is none, or removes *)
(* it.                                                                     *)
(***************************************************************************)
OldWrite(r) ==
  /\ now < MaxStamp
  /\ now' = now + 1
  /\ old' = [old EXCEPT ![r] = now']
  /\ ids' = [ids EXCEPT ![r] = IF old[r] = 0 THEN now' ELSE @]
  /\ latest' = [latest EXCEPT ![r] = now']
  /\ overtaken' = IF \E c \in Callers : WillDrop(c, r) THEN overtaken \cup {r} ELSE overtaken \ {r}
  /\ UNCHANGED <<shard, drained, call>>

OldRemove(r) ==
  /\ old[r] # 0
  /\ old' = [old EXCEPT ![r] = 0] /\ ids' = [ids EXCEPT ![r] = 0]
  /\ latest' = [latest EXCEPT ![r] = 0]
  /\ overtaken' = overtaken \ {r}
  /\ UNCHANGED <<shard, drained, call, now>>

ShardNext ==
  \/ \E r \in ShardRows : OldWrite(r) \/ OldRemove(r)
  \/ \E c \in Callers :
    \/ ShardCall(c, "list", Idle.row)
    \/ \E kind \in {"change", "insert", "update", "remove"}, r \in ShardRows : ShardCall(c, kind, r)
    \/ ReadShard(c) \/ ReadOld(c) \/ MinutePasses(c) \/ Fold(c) \/ Drop(c) \/ Reread(c)
    \/ Return(c) \/ WriteShard(c) \/ Refused(c) \/ ShardFail(c)

ShardSpec == ShardInit /\ [][ShardNext]_shardVars

----------------------------------------------------------------------------
(* Properties *)

\* Whatever moves, fails or races, and although the earlier version may write on:
\* the last version of every answer is in the shard or still in the old object, and
\* is the newest of the two (row-tables.mjs:266-314).  The one exception is a write of
\* the earlier version into a copy that a request has read and not dropped yet: the
\* drop is by id and takes the write with it, unread.
NoAnswerLost ==
  \A r \in ShardRows \ overtaken : latest[r] # 0 => latest[r] = Folded(shard, old)[r]

----------------------------------------------------------------------------
(* Why NoAnswerLost holds: the parts of its inductive invariant *)

ShardSteps == {"idle", "read", "legacy", "fold", "drop", "reread", "decide"}
ShardCalls ==
  [step : ShardSteps, kind : {"list", "change", "insert", "update", "remove"}, row : ShardRows,
   rows : [ShardRows -> Nat], fresh : BOOLEAN, seen : [ShardRows -> Nat],
   seenIds : [ShardRows -> Nat]]

ShardTypeOK ==
  /\ old \in [ShardRows -> Nat] /\ shard \in [ShardRows -> Nat] /\ latest \in [ShardRows -> Nat]
  /\ call \in [Callers -> ShardCalls] /\ drained \in [Callers -> BOOLEAN]
  /\ now \in Nat /\ ids \in [ShardRows -> Nat] /\ overtaken \subseteq ShardRows

\* Nothing is younger than the last write.
StampsPast ==
  \A r \in ShardRows :
    /\ old[r] <= now /\ shard[r] <= now /\ latest[r] <= now /\ ids[r] <= now
    /\ \A c \in Callers : call[c].seen[r] <= now /\ call[c].seenIds[r] <= now
    /\ latest[r] # 0 =>
         /\ old[r] <= latest[r] /\ shard[r] <= latest[r]
         /\ \A c \in Callers : call[c].seen[r] <= latest[r]

\* An ETag that still holds means that the rows read with it do; a caller that has just
\* folded reads again before it decides.
FreshIsCurrent ==
  \A c \in Callers : call[c].fresh /\ call[c].step \notin {"drop", "reread"} => call[c].rows = shard

\* The copy of r that c has read is in the old object as it was read, or r is overtaken,
\* or removed, or written later into the shard.
SeenWasOld ==
  \A c \in Callers : \A r \in ShardRows \ overtaken :
    WillDrop(c, r) /\ latest[r] # 0 => old[r] = call[c].seen[r] \/ old[r] <= shard[r]

\* What is about to be dropped has been folded in.
FoldedBeforeDrop ==
  \A c \in Callers : \A r \in ShardRows \ overtaken :
    call[c].step = "drop" /\ WillDrop(c, r) /\ latest[r] # 0 => call[c].seen[r] <= shard[r]

ShardInv ==
  ShardTypeOK /\ StampsPast /\ FreshIsCurrent /\ SeenWasOld /\ FoldedBeforeDrop /\ NoAnswerLost

=============================================================================
