---------------------------- MODULE StorageProofs -----------------------------
(***************************************************************************)
(* Proofs about the ways rows are stored.  ShardMove: every set of callers *)
(* and rows, any number of writes, and whether or not the removal of the   *)
(* old copies may fail.  DetachedColumns: any number of workers and        *)
(* instances.  FileStore: processes that take turns lose nothing, for any  *)
(* number of processes and rows.                                           *)
(***************************************************************************)
EXTENDS ShardMove, DetachedColumns, FileStore, TLAPS

USE ShardAssumption

\* What a request knows of the old object: the conditions on its own record in ShardInv.
Remembers(d) ==
  /\ \A r \in ShardRows :
       /\ d.seen[r] <= now /\ d.seenIds[r] <= now
       /\ latest[r] # 0 => d.seen[r] <= latest[r]
  /\ \A r \in ShardRows \ overtaken :
       ids[r] # 0 /\ d.seenIds[r] = ids[r] /\ latest[r] # 0 => old[r] = d.seen[r] \/ old[r] <= shard[r]

LEMMA IdleType ==
  /\ Idle \in ShardCalls /\ Idle.step = "idle" /\ ~Idle.fresh
  /\ Idle.seen = NoRows /\ Idle.seenIds = NoRows
  /\ NoRows \in [ShardRows -> Nat] /\ \A r \in ShardRows : NoRows[r] = 0
<1>1. (CHOOSE r \in ShardRows : TRUE) \in ShardRows
  BY ShardAssumption
<1>2. NoRows \in [ShardRows -> Nat] /\ \A r \in ShardRows : NoRows[r] = 0
  BY DEF NoRows
<1> QED
  BY <1>1, <1>2 DEF Idle, ShardCalls, ShardSteps

LEMMA FoldedType ==
  ASSUME NEW rows \in [ShardRows -> Nat], NEW view \in [ShardRows -> Nat]
  PROVE  /\ Folded(rows, view) \in [ShardRows -> Nat]
         /\ \A r \in ShardRows : Folded(rows, view)[r] = IF view[r] > rows[r] THEN view[r] ELSE rows[r]
  BY DEF Folded

LEMMA ShardTypes ==
  ASSUME ShardTypeOK
  PROVE  /\ old \in [ShardRows -> Nat] /\ shard \in [ShardRows -> Nat] /\ latest \in [ShardRows -> Nat]
         /\ ids \in [ShardRows -> Nat] /\ now \in Nat /\ call \in [Callers -> ShardCalls]
         /\ \A x \in Callers, r \in ShardRows : call[x].seen[r] \in Nat /\ call[x].seenIds[r] \in Nat
         /\ \A r \in ShardRows : /\ old[r] \in Nat /\ shard[r] \in Nat /\ latest[r] \in Nat
                                 /\ ids[r] \in Nat
BY DEF ShardTypeOK, ShardCalls

LEMMA InitShardInv == ShardInit => ShardInv
<1> SUFFICES ASSUME ShardInit PROVE ShardInv
  OBVIOUS
<1>1. /\ old \in [ShardRows -> 0..MaxStamp] /\ (\A r \in ShardRows : old[r] <= 1)
      /\ ids = old /\ latest = old /\ now = 1 /\ overtaken = {}
  BY DEF ShardInit, Stamps
<1>2. call = [c \in Callers |-> Idle]
  BY DEF ShardInit
<1>3. shard = NoRows /\ NoRows \in [ShardRows -> Nat] /\ \A r \in ShardRows : NoRows[r] = 0
  BY DEF ShardInit, NoRows
<1>4. ShardTypeOK
  BY <1>1, <1>3, IdleType DEF ShardInit, ShardTypeOK
<1>5. StampsPast /\ FreshIsCurrent /\ SeenWasOld /\ FoldedBeforeDrop
  BY <1>1, <1>2, <1>3, IdleType DEF StampsPast, FreshIsCurrent, SeenWasOld, FoldedBeforeDrop, WillDrop
<1>6. NoAnswerLost
  BY <1>1, <1>3 DEF NoAnswerLost, Folded
<1> QED
  BY <1>4, <1>5, <1>6 DEF ShardInv

(***************************************************************************)
(* A step that changes neither the objects nor the history: only the       *)
(* caller's own record must still be right.                                *)
(***************************************************************************)
LEMMA QuietStep ==
  ASSUME ShardInv, NEW c \in Callers, NEW d \in ShardCalls,
         call' = [call EXCEPT ![c] = d], UNCHANGED <<old, ids, shard, now, latest, overtaken>>,
         drained' \in [Callers -> BOOLEAN],
         Remembers(d),
         d.fresh /\ d.step \notin {"drop", "reread"} => d.rows = shard,
         d.step # "drop"
  PROVE  ShardInv'
<1>1. \A x \in Callers : call'[x] = IF x = c THEN d ELSE call[x]
  BY DEF ShardInv, ShardTypeOK
<1>2. ShardTypeOK'
  BY DEF ShardInv, ShardTypeOK
<1>3. StampsPast'
  BY <1>1 DEF ShardInv, StampsPast, Remembers
<1>4. FreshIsCurrent'
  BY <1>1 DEF ShardInv, FreshIsCurrent
<1>5. SeenWasOld'
  BY <1>1 DEF ShardInv, SeenWasOld, Remembers, WillDrop
<1>6. FoldedBeforeDrop'
  BY <1>1 DEF ShardInv, FoldedBeforeDrop, WillDrop
<1>7. NoAnswerLost'
  BY DEF ShardInv, NoAnswerLost
<1> QED
  BY <1>2, <1>3, <1>4, <1>5, <1>6, <1>7 DEF ShardInv

\* What holds of a request now holds of a record that remembers the same, or nothing.
LEMMA SameMemory ==
  ASSUME ShardInv, NEW c \in Callers, NEW d,
         \/ d.seen = call[c].seen /\ d.seenIds = call[c].seenIds
         \/ d.seen = NoRows /\ d.seenIds = NoRows
  PROVE  Remembers(d)
<1>1. CASE d.seen = call[c].seen /\ d.seenIds = call[c].seenIds
  BY <1>1 DEF ShardInv, StampsPast, SeenWasOld, WillDrop, Remembers
<1>2. CASE d.seen = NoRows /\ d.seenIds = NoRows
  <2>1. \A r \in ShardRows : d.seen[r] = 0 /\ d.seenIds[r] = 0
    BY <1>2, IdleType
  <2>2. now \in Nat /\ latest \in [ShardRows -> Nat]
    BY DEF ShardInv, ShardTypeOK
  <2> QED
    BY <2>1, <2>2 DEF Remembers
<1> QED
  BY <1>1, <1>2

\* A caller that is done, or has failed, holds nothing.
LEMMA IdleStep ==
  ASSUME ShardInv, NEW c \in Callers, Goes(c, Idle),
         UNCHANGED <<old, ids, shard, drained, now, latest, overtaken>>
  PROVE  ShardInv'
<1>1. Remembers(Idle)
  BY SameMemory, IdleType
<1>2. drained' \in [Callers -> BOOLEAN]
  BY DEF ShardInv, ShardTypeOK
<1>3. call' = [call EXCEPT ![c] = Idle]
  BY DEF Goes
<1>4. Idle \in ShardCalls /\ Idle.step # "drop" /\ ~Idle.fresh
  BY IdleType
<1> QED
  BY <1>1, <1>2, <1>3, <1>4, QuietStep

LEMMA CallStep ==
  ASSUME ShardInv, NEW c \in Callers, NEW kind \in {"list", "change", "insert", "update", "remove"},
         NEW r \in ShardRows, ShardCall(c, kind, r)
  PROVE  ShardInv'
<1> DEFINE d == [Idle EXCEPT !.step = "read", !.kind = kind, !.row = r]
<1>1. d \in ShardCalls /\ d.step = "read" /\ ~d.fresh /\ d.seen = NoRows /\ d.seenIds = NoRows
  BY IdleType DEF ShardCalls, ShardSteps
<1>2. call' = [call EXCEPT ![c] = d] /\ UNCHANGED <<old, ids, shard, drained, now, latest, overtaken>>
  BY DEF ShardCall, Goes
<1>3. drained' \in [Callers -> BOOLEAN]
  BY <1>2 DEF ShardInv, ShardTypeOK
<1>4. d.step # "drop"
  BY <1>1
<1> HIDE DEF d
<1>5. Remembers(d)
  BY <1>1, SameMemory
<1> QED
  BY <1>1, <1>2, <1>3, <1>4, <1>5, QuietStep

LEMMA ReadShardStep ==
  ASSUME ShardInv, NEW c \in Callers, ReadShard(c) \/ Reread(c)
  PROVE  ShardInv'
<1> DEFINE d == [call[c] EXCEPT !.step = IF ReadShard(c) THEN "legacy" ELSE "decide", !.rows = shard, !.fresh = TRUE]
<1>1. call[c] \in ShardCalls /\ shard \in [ShardRows -> Nat]
  BY DEF ShardInv, ShardTypeOK
<1>2. d \in ShardCalls /\ d.step \in {"legacy", "decide"} /\ d.rows = shard
      /\ d.seen = call[c].seen /\ d.seenIds = call[c].seenIds
  BY <1>1 DEF ShardCalls, ShardSteps
<1>3. call' = [call EXCEPT ![c] = d] /\ UNCHANGED <<old, ids, shard, drained, now, latest, overtaken>>
  BY DEF ReadShard, Reread, Goes
<1>4. drained' \in [Callers -> BOOLEAN]
  BY <1>3 DEF ShardInv, ShardTypeOK
<1> HIDE DEF d
<1>5. Remembers(d)
  BY <1>2, SameMemory
<1> QED
  BY <1>2, <1>3, <1>4, <1>5, QuietStep

LEMMA ReadOldStep ==
  ASSUME ShardInv, NEW c \in Callers, ReadOld(c)
  PROVE  ShardInv'
<1> DEFINE view == IF drained[c] THEN NoRows ELSE old
           names == IF drained[c] THEN NoRows ELSE ids
           d == [call[c] EXCEPT !.step = IF view = NoRows THEN "decide" ELSE "fold",
                                !.seen = view, !.seenIds = names]
<1>1. call[c] \in ShardCalls /\ old \in [ShardRows -> Nat] /\ latest \in [ShardRows -> Nat]
      /\ shard \in [ShardRows -> Nat] /\ ids \in [ShardRows -> Nat] /\ now \in Nat
  BY DEF ShardInv, ShardTypeOK
<1>2. view \in [ShardRows -> Nat] /\ names \in [ShardRows -> Nat]
  BY <1>1, IdleType
<1>3. d \in ShardCalls /\ d.step \in {"decide", "fold"} /\ d.seen = view /\ d.seenIds = names
      /\ d.rows = call[c].rows /\ d.fresh = call[c].fresh
  BY <1>1, <1>2 DEF ShardCalls, ShardSteps
<1>4. call' = [call EXCEPT ![c] = d] /\ UNCHANGED <<old, ids, shard, now, latest, overtaken>>
  BY DEF ReadOld, Goes
<1>5. drained' \in [Callers -> BOOLEAN]
  BY DEF ReadOld, ShardInv, ShardTypeOK, DrainedNow
<1>6. d.fresh => d.rows = shard
  BY <1>3 DEF ReadOld, ShardInv, FreshIsCurrent
<1>7. Remembers(d)
  <2>1. CASE drained[c]
    BY <2>1, <1>3, SameMemory
  <2>2. CASE ~drained[c]
    <3>1. d.seen = old /\ d.seenIds = ids
      BY <2>2, <1>3
    <3> QED
      BY <3>1 DEF Remembers, ShardInv, StampsPast
  <2> QED
    BY <2>1, <2>2
<1> HIDE DEF d, view, names
<1> QED
  BY <1>3, <1>4, <1>5, <1>6, <1>7, QuietStep

LEMMA MinuteStep ==
  ASSUME ShardInv, NEW c \in Callers, MinutePasses(c)
  PROVE  ShardInv'
<1>1. drained' \in [Callers -> BOOLEAN] /\ UNCHANGED <<old, ids, shard, call, now, latest, overtaken>>
  BY DEF MinutePasses, ShardInv, ShardTypeOK
<1> QED
  BY <1>1 DEF ShardInv, ShardTypeOK, StampsPast, FreshIsCurrent, SeenWasOld, FoldedBeforeDrop, NoAnswerLost, WillDrop

\* A refused write starts over with what it had seen, and reads everything again.
LEMMA RefusedStep ==
  ASSUME ShardInv, NEW c \in Callers, Refused(c)
  PROVE  ShardInv'
<1>1. CASE Goes(c, Idle)
  BY <1>1, IdleStep DEF Refused
<1>2. CASE Goes(c, [call[c] EXCEPT !.step = "read"])
  <2> DEFINE d == [call[c] EXCEPT !.step = "read"]
  <2>1. call[c] \in ShardCalls
    BY DEF ShardInv, ShardTypeOK
  <2>2. d \in ShardCalls /\ d.step = "read" /\ d.fresh = call[c].fresh /\ ~d.fresh
        /\ d.seen = call[c].seen /\ d.seenIds = call[c].seenIds
    BY <2>1 DEF ShardCalls, ShardSteps, Refused
  <2>3. call' = [call EXCEPT ![c] = d] /\ UNCHANGED <<old, ids, shard, drained, now, latest, overtaken>>
    BY <1>2 DEF Refused, Goes
  <2>4. drained' \in [Callers -> BOOLEAN]
    BY <2>3 DEF ShardInv, ShardTypeOK
  <2>5. d.step # "drop"
    BY <2>2
  <2> HIDE DEF d
  <2>6. Remembers(d)
    BY <2>2, SameMemory
  <2> QED
    BY <2>2, <2>3, <2>4, <2>5, <2>6, QuietStep
<1> QED
  BY <1>1, <1>2 DEF Refused

\* A caller that forgets what it had seen of the old object, and must read the shard again.
LEMMA ForgetStep ==
  ASSUME ShardInv, NEW c \in Callers, Forgets(c),
         UNCHANGED <<old, ids, shard, drained, now, latest, overtaken>>
  PROVE  ShardInv'
<1> DEFINE d == [call[c] EXCEPT !.step = "reread", !.rows = NoRows, !.seen = NoRows, !.seenIds = NoRows]
<1>1. call[c] \in ShardCalls
  BY DEF ShardInv, ShardTypeOK
<1>2. d \in ShardCalls /\ d.step = "reread" /\ d.seen = NoRows /\ d.seenIds = NoRows
  BY <1>1, IdleType DEF ShardCalls, ShardSteps
<1>3. call' = [call EXCEPT ![c] = d]
  BY DEF Forgets, Goes
<1>4. drained' \in [Callers -> BOOLEAN]
  BY DEF ShardInv, ShardTypeOK
<1>5. d.step # "drop" /\ ~(d.fresh /\ d.step \notin {"drop", "reread"})
  BY <1>2
<1> HIDE DEF d
<1>6. Remembers(d)
  BY <1>2, SameMemory
<1> QED
  BY <1>2, <1>3, <1>4, <1>5, <1>6, QuietStep

\* The fold: the rows read with an ETag that still holds are the shard, so nothing
\* newer is overwritten, and every copy that was seen is in the shard afterwards.
LEMMA FoldStep ==
  ASSUME ShardInv, NEW c \in Callers, Fold(c)
  PROVE  ShardInv'
<1>1. CASE ~call[c].fresh
  BY <1>1, ForgetStep DEF Fold
<1>2. CASE call[c].fresh
  <2> DEFINE d == [call[c] EXCEPT !.step = "drop", !.rows = NoRows]
             view == call[c].seen
  <2>1. /\ call \in [Callers -> ShardCalls] /\ view \in [ShardRows -> Nat] /\ now \in Nat
        /\ shard \in [ShardRows -> Nat] /\ old \in [ShardRows -> Nat] /\ latest \in [ShardRows -> Nat]
        /\ ids \in [ShardRows -> Nat]
    BY DEF ShardInv, ShardTypeOK, ShardCalls
  <2>2. call[c].rows = shard
    BY <1>2 DEF Fold, ShardInv, FreshIsCurrent
  <2>3. /\ shard' = Folded(shard, view) /\ UNCHANGED <<old, ids, drained, now, latest, overtaken>>
        /\ call' = [x \in Callers |-> IF x = c THEN d ELSE [call[x] EXCEPT !.fresh = FALSE]]
    BY <1>2, <2>2 DEF Fold, Rewrites
  <2>4. /\ shard' \in [ShardRows -> Nat]
        /\ \A r \in ShardRows : shard'[r] = IF view[r] > shard[r] THEN view[r] ELSE shard[r]
    BY <2>1, <2>3, FoldedType
  <2>5. d \in ShardCalls /\ d.step = "drop" /\ d.seen = view /\ d.seenIds = call[c].seenIds
    BY <2>1, IdleType DEF ShardCalls, ShardSteps
  <2>6. \A x \in Callers : x # c => /\ [call[x] EXCEPT !.fresh = FALSE] \in ShardCalls
                                   /\ call'[x].step = call[x].step /\ call'[x].seen = call[x].seen
                                   /\ call'[x].seenIds = call[x].seenIds
                                   /\ ~call'[x].fresh
    BY <2>1, <2>3 DEF ShardCalls
  <2>7. call'[c] = d
    BY <2>3
  <2> HIDE DEF d
  <2>8. \A x \in Callers : call'[x].seen = call[x].seen /\ call'[x].seenIds = call[x].seenIds
    BY <2>5, <2>6, <2>7
  <2>9. ShardTypeOK'
    BY <2>1, <2>3, <2>4, <2>5, <2>6 DEF ShardInv, ShardTypeOK
  <2>10. \A r \in ShardRows : /\ shard[r] <= shard'[r] /\ view[r] <= shard'[r]
                              /\ shard'[r] \in {shard[r], view[r]}
    BY <2>1, <2>4
  <2>11. \A x \in Callers, r \in ShardRows : WillDrop(x, r)' <=> WillDrop(x, r)
    BY <2>3, <2>8 DEF WillDrop
  <2>12. StampsPast'
    <3> SUFFICES ASSUME NEW r \in ShardRows
                 PROVE  shard'[r] <= now /\ (latest[r] # 0 => shard'[r] <= latest[r])
      BY <2>3, <2>8 DEF ShardInv, StampsPast
    <3> QED
      BY <2>10 DEF ShardInv, StampsPast
  <2>13. FreshIsCurrent'
    BY <2>5, <2>6, <2>7 DEF FreshIsCurrent
  <2>14. SeenWasOld'
    <3> SUFFICES ASSUME NEW x \in Callers, NEW r \in ShardRows \ overtaken, WillDrop(x, r), latest[r] # 0
                 PROVE  old[r] = call[x].seen[r] \/ old[r] <= shard'[r]
      BY <2>3, <2>8, <2>11 DEF SeenWasOld
    <3>1. old[r] = call[x].seen[r] \/ old[r] <= shard[r]
      BY DEF ShardInv, SeenWasOld
    <3> QED
      BY <3>1, <2>1, <2>4, <2>10
  <2>15. FoldedBeforeDrop'
    <3> SUFFICES ASSUME NEW x \in Callers, NEW r \in ShardRows \ overtaken,
                        call'[x].step = "drop", WillDrop(x, r), latest[r] # 0
                 PROVE  call[x].seen[r] <= shard'[r]
      BY <2>3, <2>8, <2>11 DEF FoldedBeforeDrop
    <3>1. CASE x = c
      BY <3>1, <2>10
    <3>2. CASE x # c
      <4>1. call[x].seen[r] <= shard[r]
        BY <3>2, <2>6 DEF ShardInv, FoldedBeforeDrop
      <4>2. call[x].seen[r] \in Nat
        BY <2>1 DEF ShardCalls
      <4> QED
        BY <4>1, <4>2, <2>1, <2>4, <2>10
    <3> QED
      BY <3>1, <3>2
  <2>16. NoAnswerLost'
    <3> SUFFICES ASSUME NEW r \in ShardRows \ overtaken, latest[r] # 0
                 PROVE  latest[r] = IF old[r] > shard'[r] THEN old[r] ELSE shard'[r]
      BY <2>3, <2>4, <2>1 DEF NoAnswerLost, Folded
    <3>1. latest[r] = IF old[r] > shard[r] THEN old[r] ELSE shard[r]
      BY <2>1 DEF ShardInv, NoAnswerLost, Folded
    <3>2. view[r] <= latest[r]
      BY DEF ShardInv, StampsPast
    <3> QED
      BY <3>1, <3>2, <2>1, <2>4
  <2> QED
    BY <2>9, <2>12, <2>13, <2>14, <2>15, <2>16 DEF ShardInv
<1> QED
  BY <1>1, <1>2

\* Only what has been folded in is dropped, or what the earlier version wrote over it since.
LEMMA DropStep ==
  ASSUME ShardInv, NEW c \in Callers, Drop(c)
  PROVE  ShardInv'
<1>1. CASE UNCHANGED <<old, ids>>
  BY <1>1, ForgetStep DEF Drop
<1>2. CASE /\ old' = [r \in ShardRows |-> IF WillDrop(c, r) THEN 0 ELSE old[r]]
           /\ ids' = [r \in ShardRows |-> IF WillDrop(c, r) THEN 0 ELSE ids[r]]
  <2> DEFINE d == [call[c] EXCEPT !.step = "reread", !.rows = NoRows, !.seen = NoRows, !.seenIds = NoRows]
  <2>1. /\ call \in [Callers -> ShardCalls] /\ now \in Nat
        /\ shard \in [ShardRows -> Nat] /\ old \in [ShardRows -> Nat] /\ latest \in [ShardRows -> Nat]
        /\ ids \in [ShardRows -> Nat]
    BY DEF ShardInv, ShardTypeOK
  <2>2. /\ UNCHANGED <<shard, drained, now, latest, overtaken>> /\ call' = [call EXCEPT ![c] = d]
        /\ call[c].step = "drop"
    BY DEF Drop, Forgets, Goes
  <2>3. d \in ShardCalls /\ d.step = "reread" /\ d.seen = NoRows /\ d.seenIds = NoRows
    BY <2>1, IdleType DEF ShardCalls, ShardSteps
  <2>4. \A x \in Callers : call'[x] = IF x = c THEN d ELSE call[x]
    BY <2>1, <2>2
  <2>5. /\ old' \in [ShardRows -> Nat] /\ ids' \in [ShardRows -> Nat]
        /\ \A r \in ShardRows : /\ old'[r] = IF WillDrop(c, r) THEN 0 ELSE old[r]
                                /\ ids'[r] = IF WillDrop(c, r) THEN 0 ELSE ids[r]
    BY <1>2, <2>1
  <2>6. \A r \in ShardRows : d.seen[r] = 0 /\ d.seenIds[r] = 0
    BY <2>3, IdleType
  <2>7. ShardTypeOK'
    BY <2>1, <2>2, <2>3, <2>5 DEF ShardInv, ShardTypeOK
  <2> HIDE DEF d
  <2>8. \A x \in Callers, r \in ShardRows : WillDrop(x, r)' =>
          /\ x # c /\ WillDrop(x, r) /\ call'[x] = call[x] /\ old'[r] = old[r]
    BY <2>4, <2>5, <2>6 DEF WillDrop
  <2>9. StampsPast'
    <3> SUFFICES ASSUME NEW r \in ShardRows
                 PROVE  /\ old'[r] <= now /\ ids'[r] <= now
                        /\ latest[r] # 0 => old'[r] <= latest[r]
                        /\ \A x \in Callers : /\ call'[x].seen[r] <= now /\ call'[x].seenIds[r] <= now
                                              /\ latest[r] # 0 => call'[x].seen[r] <= latest[r]
      BY <2>2 DEF ShardInv, StampsPast
    <3>1. old'[r] \in {0, old[r]} /\ ids'[r] \in {0, ids[r]} /\ latest[r] \in Nat
      BY <2>1, <2>5
    <3> QED
      BY <3>1, <2>1, <2>4, <2>6 DEF ShardInv, StampsPast
  <2>10. FreshIsCurrent'
    BY <2>2, <2>3, <2>4 DEF ShardInv, FreshIsCurrent
  <2>11. SeenWasOld'
    BY <2>2, <2>8 DEF ShardInv, SeenWasOld
  <2>12. FoldedBeforeDrop'
    BY <2>2, <2>8 DEF ShardInv, FoldedBeforeDrop
  <2>13. NoAnswerLost'
    <3> SUFFICES ASSUME NEW r \in ShardRows \ overtaken, latest[r] # 0
                 PROVE  latest[r] = IF old'[r] > shard[r] THEN old'[r] ELSE shard[r]
      BY <2>2, <2>1, <2>5 DEF NoAnswerLost, Folded
    <3>1. latest[r] = IF old[r] > shard[r] THEN old[r] ELSE shard[r]
      BY <2>1 DEF ShardInv, NoAnswerLost, Folded
    <3>2. WillDrop(c, r) => old[r] <= shard[r]
      <4> SUFFICES ASSUME WillDrop(c, r) PROVE old[r] <= shard[r]
        OBVIOUS
      <4>1. old[r] = call[c].seen[r] \/ old[r] <= shard[r]
        BY DEF ShardInv, SeenWasOld
      <4>2. call[c].seen[r] <= shard[r]
        BY <2>2 DEF ShardInv, FoldedBeforeDrop
      <4> QED
        BY <4>1, <4>2
    <3> QED
      BY <3>1, <3>2, <2>1, <2>5
  <2> QED
    BY <2>7, <2>9, <2>10, <2>11, <2>12, <2>13 DEF ShardInv
<1> QED
  BY <1>1, <1>2 DEF Drop

\* A write is younger than every copy anybody holds, so none can ever replace it.
LEMMA WriteShardStep ==
  ASSUME ShardInv, NEW c \in Callers, WriteShard(c)
  PROVE  ShardInv'
<1> DEFINE target == call[c].row
           stamp == IF call[c].kind = "remove" THEN 0 ELSE now + 1
<1>1. /\ call \in [Callers -> ShardCalls] /\ target \in ShardRows /\ now \in Nat /\ stamp \in Nat
      /\ shard \in [ShardRows -> Nat] /\ old \in [ShardRows -> Nat] /\ latest \in [ShardRows -> Nat]
      /\ ids \in [ShardRows -> Nat]
  BY DEF ShardInv, ShardTypeOK, ShardCalls
<1>2. call[c].rows = shard
  BY DEF WriteShard, ShardInv, FreshIsCurrent
<1>3. /\ shard' = [shard EXCEPT ![target] = stamp] /\ latest' = [latest EXCEPT ![target] = stamp]
      /\ call' = [x \in Callers |-> IF x = c THEN Idle ELSE [call[x] EXCEPT !.fresh = FALSE]]
      /\ now' = (IF stamp = 0 THEN now ELSE stamp) /\ UNCHANGED <<old, ids, drained>>
      /\ overtaken' = overtaken \ {target}
  BY <1>2 DEF WriteShard, Rewrites
<1>4. stamp = 0 \/ stamp = now + 1
  OBVIOUS
<1>5. now' \in Nat /\ now <= now' /\ stamp <= now' /\ (stamp # 0 => now < stamp)
  BY <1>1, <1>3, <1>4
<1>6. \A r \in ShardRows : /\ shard'[r] = IF r = target THEN stamp ELSE shard[r]
                           /\ latest'[r] = IF r = target THEN stamp ELSE latest[r]
  BY <1>1, <1>3
<1>7. call'[c] = Idle /\ \A r \in ShardRows : Idle.seen[r] = 0 /\ Idle.seenIds[r] = 0
  BY <1>3, IdleType
<1>8. \A x \in Callers : x # c => /\ [call[x] EXCEPT !.fresh = FALSE] \in ShardCalls
                                 /\ call'[x].step = call[x].step /\ call'[x].seen = call[x].seen
                                 /\ call'[x].seenIds = call[x].seenIds
                                 /\ ~call'[x].fresh
  BY <1>1, <1>3 DEF ShardCalls
<1>9. \A x \in Callers, r \in ShardRows : /\ call[x].seen[r] \in Nat /\ call[x].seen[r] <= now
                                          /\ call[x].seenIds[r] \in Nat /\ call[x].seenIds[r] <= now
  BY <1>1 DEF ShardInv, StampsPast, ShardCalls
<1>10. ShardTypeOK'
  BY <1>1, <1>3, <1>5, <1>8, IdleType DEF ShardInv, ShardTypeOK
<1> HIDE DEF target, stamp
<1>11. \A r \in ShardRows : old[r] \in Nat /\ old[r] <= now /\ shard[r] <= now /\ latest[r] <= now /\ ids[r] <= now
  BY <1>1 DEF ShardInv, StampsPast
<1>12. \A x \in Callers, r \in ShardRows : WillDrop(x, r)' => x # c /\ WillDrop(x, r)
  BY <1>3, <1>7, <1>8 DEF WillDrop
<1>13. \A r \in ShardRows : r \notin overtaken' => r = target \/ r \notin overtaken
  BY <1>3
<1>14. StampsPast'
  <2> SUFFICES ASSUME NEW r \in ShardRows
               PROVE  /\ old[r] <= now' /\ shard'[r] <= now' /\ latest'[r] <= now' /\ ids[r] <= now'
                      /\ latest'[r] # 0 => old[r] <= latest'[r] /\ shard'[r] <= latest'[r]
                      /\ \A x \in Callers : /\ call'[x].seen[r] <= now' /\ call'[x].seenIds[r] <= now'
                                            /\ latest'[r] # 0 => call'[x].seen[r] <= latest'[r]
    BY <1>3 DEF StampsPast
  <2>1. old[r] <= now' /\ shard'[r] <= now' /\ latest'[r] <= now' /\ ids[r] <= now'
    BY <1>1, <1>5, <1>6, <1>11
  <2>2. latest'[r] # 0 => old[r] <= latest'[r] /\ shard'[r] <= latest'[r]
    <3>1. CASE r = target
      BY <3>1, <1>1, <1>5, <1>6, <1>11
    <3>2. CASE r # target
      BY <3>2, <1>6 DEF ShardInv, StampsPast
    <3> QED
      BY <3>1, <3>2
  <2>3. ASSUME NEW x \in Callers
        PROVE  /\ call'[x].seen[r] <= now' /\ call'[x].seenIds[r] <= now'
               /\ latest'[r] # 0 => call'[x].seen[r] <= latest'[r]
    <3>1. CASE x = c
      <4>1. latest'[r] \in Nat
        BY <1>1, <1>6
      <4> QED
        BY <4>1, <3>1, <1>5, <1>7
    <3>2. CASE x # c
      <4>1. call'[x].seen[r] = call[x].seen[r] /\ call'[x].seenIds[r] = call[x].seenIds[r]
        BY <3>2, <1>8
      <4>2. latest[r] # 0 => call[x].seen[r] <= latest[r]
        BY DEF ShardInv, StampsPast
      <4> QED
        BY <4>1, <4>2, <1>1, <1>5, <1>6, <1>9
    <3> QED
      BY <3>1, <3>2
  <2> QED
    BY <2>1, <2>2, <2>3
<1>15. FreshIsCurrent'
  BY <1>7, <1>8, IdleType DEF FreshIsCurrent
<1>16. SeenWasOld'
  <2> SUFFICES ASSUME NEW x \in Callers, NEW r \in ShardRows, r \notin overtaken',
                      WillDrop(x, r)', latest'[r] # 0
               PROVE  old[r] = call'[x].seen[r] \/ old[r] <= shard'[r]
    BY <1>3 DEF SeenWasOld
  <2>1. CASE r = target
    BY <2>1, <1>1, <1>5, <1>6, <1>11
  <2>2. CASE r # target
    <3>1. x # c /\ WillDrop(x, r) /\ r \notin overtaken /\ latest[r] # 0 /\ shard'[r] = shard[r]
      BY <2>2, <1>6, <1>12, <1>13
    <3> QED
      BY <3>1, <1>8 DEF ShardInv, SeenWasOld
  <2> QED
    BY <2>1, <2>2
<1>17. FoldedBeforeDrop'
  <2> SUFFICES ASSUME NEW x \in Callers, NEW r \in ShardRows, r \notin overtaken',
                      call'[x].step = "drop", WillDrop(x, r)', latest'[r] # 0
               PROVE  call'[x].seen[r] <= shard'[r]
    BY DEF FoldedBeforeDrop
  <2>1. x # c /\ call'[x].seen = call[x].seen /\ call[x].step = "drop" /\ WillDrop(x, r)
    BY <1>8, <1>12
  <2>2. CASE r = target
    BY <2>1, <2>2, <1>1, <1>5, <1>6, <1>9
  <2>3. CASE r # target
    BY <2>1, <2>3, <1>6, <1>13 DEF ShardInv, FoldedBeforeDrop
  <2> QED
    BY <2>2, <2>3
<1>18. NoAnswerLost'
  <2> SUFFICES ASSUME NEW r \in ShardRows, r \notin overtaken', latest'[r] # 0
               PROVE  latest'[r] = IF old[r] > shard'[r] THEN old[r] ELSE shard'[r]
    BY <1>3 DEF NoAnswerLost, Folded
  <2>1. CASE r = target
    BY <2>1, <1>1, <1>5, <1>6, <1>11
  <2>2. CASE r # target
    BY <2>2, <1>6, <1>13 DEF ShardInv, NoAnswerLost, Folded
  <2> QED
    BY <2>1, <2>2
<1> QED
  BY <1>10, <1>14, <1>15, <1>16, <1>17, <1>18 DEF ShardInv

\* A write of the earlier version is the youngest copy there is; it overtakes whoever has
\* read the copy it replaces, and nobody has read one it inserts.
LEMMA OldWriteStep ==
  ASSUME ShardInv, NEW q \in ShardRows, OldWrite(q)
  PROVE  ShardInv'
<1>1. /\ call \in [Callers -> ShardCalls] /\ now \in Nat
      /\ shard \in [ShardRows -> Nat] /\ old \in [ShardRows -> Nat] /\ latest \in [ShardRows -> Nat]
      /\ ids \in [ShardRows -> Nat] /\ overtaken \subseteq ShardRows
  BY DEF ShardInv, ShardTypeOK
<1>2. now' = now + 1 /\ UNCHANGED <<shard, drained, call>>
  BY DEF OldWrite
<1>3. /\ old' = [old EXCEPT ![q] = now'] /\ latest' = [latest EXCEPT ![q] = now']
      /\ ids' = [ids EXCEPT ![q] = IF old[q] = 0 THEN now' ELSE @]
      /\ overtaken' = IF \E x \in Callers : WillDrop(x, q) THEN overtaken \cup {q} ELSE overtaken \ {q}
  BY DEF OldWrite
<1>4. now' \in Nat /\ now < now' /\ now' # 0
  BY <1>1, <1>2
<1>5. \A r \in ShardRows :
        /\ old'[r] = IF r = q THEN now' ELSE old[r]
        /\ latest'[r] = IF r = q THEN now' ELSE latest[r]
        /\ ids'[r] = IF r = q /\ old[q] = 0 THEN now' ELSE ids[r]
  BY <1>1, <1>3
<1>6. ShardTypeOK'
  BY <1>1, <1>2, <1>3, <1>4 DEF ShardInv, ShardTypeOK
<1>7. \A x \in Callers, r \in ShardRows : /\ call[x].seen[r] \in Nat /\ call[x].seen[r] <= now
                                          /\ call[x].seenIds[r] \in Nat /\ call[x].seenIds[r] <= now
  BY <1>1 DEF ShardInv, StampsPast, ShardCalls
<1>8. \A r \in ShardRows : /\ old[r] \in Nat /\ old[r] <= now /\ shard[r] \in Nat /\ shard[r] <= now
                           /\ latest[r] \in Nat /\ latest[r] <= now /\ ids[r] \in Nat /\ ids[r] <= now
  BY <1>1 DEF ShardInv, StampsPast
<1>9. \A x \in Callers, r \in ShardRows : WillDrop(x, r)' => WillDrop(x, r)
  <2> SUFFICES ASSUME NEW x \in Callers, NEW r \in ShardRows, ids'[r] # 0, call[x].seenIds[r] = ids'[r]
               PROVE  ids[r] # 0 /\ call[x].seenIds[r] = ids[r]
    BY <1>2 DEF WillDrop
  <2>1. ids'[r] # now'
    BY <1>1, <1>4, <1>7
  <2> QED
    BY <2>1, <1>5
<1>10. \A x \in Callers, r \in ShardRows : WillDrop(x, r)' /\ r \notin overtaken' => r # q
  BY <1>3, <1>9
<1>11. \A r \in ShardRows : r \notin overtaken' => r = q \/ r \notin overtaken
  BY <1>3
<1>12. StampsPast'
  <2> SUFFICES ASSUME NEW r \in ShardRows
               PROVE  /\ old'[r] <= now' /\ shard[r] <= now' /\ latest'[r] <= now' /\ ids'[r] <= now'
                      /\ latest'[r] # 0 => old'[r] <= latest'[r] /\ shard[r] <= latest'[r]
                      /\ \A x \in Callers : /\ call[x].seen[r] <= now' /\ call[x].seenIds[r] <= now'
                                            /\ latest'[r] # 0 => call[x].seen[r] <= latest'[r]
    BY <1>2 DEF StampsPast
  <2>1. old'[r] <= now' /\ shard[r] <= now' /\ latest'[r] <= now' /\ ids'[r] <= now'
    BY <1>1, <1>4, <1>5, <1>8
  <2>2. latest'[r] # 0 => old'[r] <= latest'[r] /\ shard[r] <= latest'[r]
    <3>1. CASE r = q
      BY <3>1, <1>1, <1>4, <1>5, <1>8
    <3>2. CASE r # q
      BY <3>2, <1>5 DEF ShardInv, StampsPast
    <3> QED
      BY <3>1, <3>2
  <2>3. ASSUME NEW x \in Callers
        PROVE  /\ call[x].seen[r] <= now' /\ call[x].seenIds[r] <= now'
               /\ latest'[r] # 0 => call[x].seen[r] <= latest'[r]
    <3>1. latest[r] # 0 => call[x].seen[r] <= latest[r]
      BY DEF ShardInv, StampsPast
    <3> QED
      BY <3>1, <1>1, <1>4, <1>5, <1>7
  <2> QED
    BY <2>1, <2>2, <2>3
<1>13. FreshIsCurrent'
  BY <1>2 DEF ShardInv, FreshIsCurrent
<1>14. SeenWasOld'
  BY <1>2, <1>5, <1>9, <1>10, <1>11 DEF ShardInv, SeenWasOld
<1>15. FoldedBeforeDrop'
  BY <1>2, <1>5, <1>9, <1>10, <1>11 DEF ShardInv, FoldedBeforeDrop
<1>16. NoAnswerLost'
  <2> SUFFICES ASSUME NEW r \in ShardRows, r \notin overtaken', latest'[r] # 0
               PROVE  latest'[r] = IF old'[r] > shard[r] THEN old'[r] ELSE shard[r]
    BY <1>2 DEF NoAnswerLost, Folded
  <2>1. CASE r = q
    BY <2>1, <1>1, <1>4, <1>5, <1>8
  <2>2. CASE r # q
    BY <2>2, <1>5, <1>11 DEF ShardInv, NoAnswerLost, Folded
  <2> QED
    BY <2>1, <2>2
<1> QED
  BY <1>6, <1>12, <1>13, <1>14, <1>15, <1>16 DEF ShardInv

LEMMA OldRemoveStep ==
  ASSUME ShardInv, NEW q \in ShardRows, OldRemove(q)
  PROVE  ShardInv'
<1>1. /\ call \in [Callers -> ShardCalls] /\ now \in Nat
      /\ shard \in [ShardRows -> Nat] /\ old \in [ShardRows -> Nat] /\ latest \in [ShardRows -> Nat]
      /\ ids \in [ShardRows -> Nat] /\ overtaken \subseteq ShardRows
  BY DEF ShardInv, ShardTypeOK
<1>2. /\ old' = [old EXCEPT ![q] = 0] /\ ids' = [ids EXCEPT ![q] = 0] /\ latest' = [latest EXCEPT ![q] = 0]
      /\ overtaken' = overtaken \ {q} /\ UNCHANGED <<shard, drained, call, now>>
  BY DEF OldRemove
<1>3. \A r \in ShardRows :
        /\ old'[r] = IF r = q THEN 0 ELSE old[r]
        /\ latest'[r] = IF r = q THEN 0 ELSE latest[r]
        /\ ids'[r] = IF r = q THEN 0 ELSE ids[r]
  BY <1>1, <1>2
<1>4. ShardTypeOK'
  BY <1>1, <1>2 DEF ShardInv, ShardTypeOK
<1>5. \A r \in ShardRows : r # q => old'[r] = old[r] /\ latest'[r] = latest[r] /\ ids'[r] = ids[r]
                                    /\ (r \in overtaken' <=> r \in overtaken)
  BY <1>2, <1>3
<1>6. \A x \in Callers, r \in ShardRows : WillDrop(x, r)' => r # q /\ WillDrop(x, r)
  BY <1>2, <1>3 DEF WillDrop
<1>7. StampsPast'
  <2> SUFFICES ASSUME NEW r \in ShardRows
               PROVE  /\ old'[r] <= now /\ shard[r] <= now /\ latest'[r] <= now /\ ids'[r] <= now
                      /\ latest'[r] # 0 => /\ old'[r] <= latest'[r] /\ shard[r] <= latest'[r]
                                           /\ \A x \in Callers : call[x].seen[r] <= latest'[r]
    BY <1>2 DEF ShardInv, StampsPast
  <2> QED
    BY <1>1, <1>3 DEF ShardInv, StampsPast
<1>8. FreshIsCurrent'
  BY <1>2 DEF ShardInv, FreshIsCurrent
<1>9. SeenWasOld'
  BY <1>2, <1>5, <1>6 DEF ShardInv, SeenWasOld
<1>10. FoldedBeforeDrop'
  BY <1>2, <1>5, <1>6 DEF ShardInv, FoldedBeforeDrop
<1>11. NoAnswerLost'
  <2> SUFFICES ASSUME NEW r \in ShardRows, r \notin overtaken', latest'[r] # 0
               PROVE  latest'[r] = IF old'[r] > shard[r] THEN old'[r] ELSE shard[r]
    BY <1>2 DEF NoAnswerLost, Folded
  <2>1. r # q
    BY <1>3
  <2> QED
    BY <2>1, <1>5 DEF ShardInv, NoAnswerLost, Folded
<1> QED
  BY <1>4, <1>7, <1>8, <1>9, <1>10, <1>11 DEF ShardInv

LEMMA NextShardInv == ShardInv /\ [ShardNext]_shardVars => ShardInv'
<1> SUFFICES ASSUME ShardInv, [ShardNext]_shardVars PROVE ShardInv'
  OBVIOUS
<1>1. CASE UNCHANGED shardVars
  BY <1>1 DEF shardVars, ShardInv, ShardTypeOK, StampsPast, FreshIsCurrent, SeenWasOld, FoldedBeforeDrop,
              NoAnswerLost, WillDrop
<1>2. ASSUME NEW c \in Callers, ShardCall(c, "list", Idle.row) PROVE ShardInv'
  <2>1. Idle.row \in ShardRows
    BY IdleType DEF ShardCalls
  <2> QED
    BY <1>2, <2>1, CallStep
<1>3. ASSUME NEW c \in Callers, NEW kind \in {"change", "insert", "update", "remove"},
             NEW r \in ShardRows, ShardCall(c, kind, r)
      PROVE  ShardInv'
  BY <1>3, CallStep
<1>4. ASSUME NEW c \in Callers, ReadShard(c) \/ Reread(c) PROVE ShardInv'
  BY <1>4, ReadShardStep
<1>5. ASSUME NEW c \in Callers, ReadOld(c) PROVE ShardInv'
  BY <1>5, ReadOldStep
<1>6. ASSUME NEW c \in Callers, MinutePasses(c) PROVE ShardInv'
  BY <1>6, MinuteStep
<1>7. ASSUME NEW c \in Callers, Fold(c) PROVE ShardInv'
  BY <1>7, FoldStep
<1>8. ASSUME NEW c \in Callers, Drop(c) PROVE ShardInv'
  BY <1>8, DropStep
<1>9. ASSUME NEW c \in Callers, Return(c) \/ ShardFail(c) PROVE ShardInv'
  BY <1>9, IdleStep DEF Return, ShardFail
<1>10. ASSUME NEW c \in Callers, WriteShard(c) PROVE ShardInv'
  BY <1>10, WriteShardStep
<1>11. ASSUME NEW c \in Callers, Refused(c) PROVE ShardInv'
  BY <1>11, RefusedStep
<1>12. ASSUME NEW r \in ShardRows, OldWrite(r) \/ OldRemove(r) PROVE ShardInv'
  BY <1>12, OldWriteStep, OldRemoveStep
<1> QED
  BY <1>1, <1>2, <1>3, <1>4, <1>5, <1>6, <1>7, <1>8, <1>9, <1>10, <1>11, <1>12 DEF ShardNext

\* The moving of the old rows into the shard keeps its invariant (row-tables.mjs:266-314),
\* and so do the writes of the earlier version: what is dropped has been folded in, or was
\* written over since, and an ETag that holds vouches for the rows read.
THEOREM MoveKeepsInvariant == ShardSpec => []ShardInv
<1>1. ShardInit => ShardInv
  BY InitShardInv
<1>2. ShardInv /\ [ShardNext]_shardVars => ShardInv'
  BY NextShardInv
<1> QED
  BY <1>1, <1>2, PTL DEF ShardSpec

\* However many requests write, fold, drop, fail and race, and whatever the earlier version
\* writes beside them: the last version of every answer is in the shard or still in the
\* old object, and is the newest of the two, unless the earlier version wrote it over a
\* copy that a request had read and was about to drop (row-tables.mjs:266-314).
THEOREM MoveLosesNoAnswer == ShardSpec => []NoAnswerLost
<1>1. ShardInv => NoAnswerLost
  BY DEF ShardInv
<1> QED
  BY MoveKeepsInvariant, <1>1, PTL

----------------------------------------------------------------------------
(***************************************************************************)
(* The detached columns.  Until a removal has begun nothing is dropped, so *)
(* what was stored before a row was written is there when it is read.      *)
(***************************************************************************)
ColumnSteps == {"rest", "read", "store", "list", "drop", "write", "attach", "reply"}
MarkedRows == [there : BOOLEAN, marker : Revisions \cup {NoRevision}]
Jobs ==
  [step : ColumnSteps, kind : {"insert", "publish", "touch", "remove", "get"},
   rev : Revisions \cup {NoRevision}, row : MarkedRows, fresh : BOOLEAN,
   keys : SUBSET Revisions, got : Revisions \cup {NoRevision}]

\* Who stores a value carries one.
Carries(j) ==
  /\ j.kind \in {"insert", "publish"} => j.rev \in Revisions
  /\ j.step = "store" => j.kind \in {"insert", "publish"}

ColumnTypeOK ==
  /\ row \in MarkedRows /\ objects \subseteq Revisions /\ doomed \in BOOLEAN
  /\ job \in [Workers -> Jobs]
  /\ \A w \in Workers : Carries(job[w])

Backed(r, stored) == r.marker = NoRevision \/ r.marker \in stored

\* What worker w may rely on while nothing is dropped.
JobSound(j, stored) ==
  /\ j.kind = "remove" => j.step \in {"rest", "read"}
  /\ j.step \in {"list", "drop"} => j.kind = "remove"
  /\ j.step \in {"attach", "reply"} => j.row.marker # NoRevision
  /\ j.kind = "insert" /\ j.step \in {"read", "write"} => j.rev \in stored
  /\ j.kind = "publish" /\ j.step = "write" => j.rev \in stored
  /\ j.step = "write" => j.kind \in {"insert", "publish", "touch"}
  /\ Backed(j.row, stored)
  /\ j.step = "reply" => j.got = j.row.marker

ColumnInv == ColumnTypeOK /\ (~doomed => Backed(row, objects) /\ \A w \in Workers : JobSound(job[w], objects))

LEMMA RestingType == Resting \in Jobs /\ Absent \in MarkedRows /\ (\A s : JobSound(Resting, s)) /\ Carries(Resting)
  BY DEF Carries, Resting, Absent, Jobs, MarkedRows, ColumnSteps, JobSound, Backed

\* A step that keeps the row, drops nothing, and gives a worker a sound job.
LEMMA JobStep ==
  ASSUME ColumnInv, NEW w \in Workers, NEW j \in Jobs, Carries(j), Does(w, j), row' = row,
         objects' \subseteq Revisions, doomed' \in BOOLEAN, ~doomed' => ~doomed,
         ~doomed' => objects \subseteq objects' /\ JobSound(j, objects')
  PROVE  ColumnInv'
<1>1. \A x \in Workers : job'[x] = IF x = w THEN j ELSE job[x]
  BY DEF Does, ColumnInv, ColumnTypeOK
<1>2. ColumnTypeOK'
  BY DEF Does, ColumnInv, ColumnTypeOK
<1>3. ASSUME ~doomed', NEW x \in Workers PROVE JobSound(job'[x], objects')
  BY <1>1, <1>3 DEF ColumnInv, JobSound, Backed
<1>4. ~doomed' => Backed(row', objects')
  BY DEF ColumnInv, Backed
<1> QED
  BY <1>2, <1>3, <1>4 DEF ColumnInv


LEMMA FirstSteps ==
  /\ FirstStep["insert"] = "write" /\ FirstStep["publish"] = "store"
  /\ FirstStep["touch"] = "write" /\ FirstStep["remove"] = "list"
  BY DEF FirstStep

\* What each worker may rely on before the step.
LEMMA JobFacts ==
  ASSUME ColumnInv, NEW w \in Workers
  PROVE  /\ job[w] \in Jobs /\ Carries(job[w]) /\ (~doomed => JobSound(job[w], objects))
         /\ row \in MarkedRows /\ row.there \in BOOLEAN /\ (~doomed => Backed(row, objects))
         /\ objects \subseteq Revisions /\ doomed \in BOOLEAN
  BY DEF ColumnInv, ColumnTypeOK, MarkedRows

LEMMA GivesUpJob ==
  ASSUME ColumnInv, NEW w \in Workers, Does(w, Resting), UNCHANGED <<row, objects>>,
         doomed' \in BOOLEAN, ~doomed' => ~doomed
  PROVE  ColumnInv'
<1>1. JobSound(Resting, objects')
  BY RestingType DEF JobSound, Backed, Resting, Absent
<1> QED
  BY <1>1, RestingType, JobFacts, JobStep

LEMMA AskKeeps ==
  ASSUME ColumnInv, NEW w \in Workers,
         NEW kind \in {"insert", "publish", "touch", "remove", "get"}, NEW rev \in Revisions \cup {NoRevision},
         kind \in {"insert", "publish"} => rev \in Revisions, Ask(w, kind, rev)
  PROVE  ColumnInv'
<1> DEFINE j == [Resting EXCEPT !.step = IF kind = "insert" THEN "store" ELSE "read", !.kind = kind, !.rev = rev]
<1>1. j \in Jobs /\ Carries(j) /\ JobSound(j, objects')
  BY DEF Ask, Resting, Absent, Jobs, MarkedRows, ColumnSteps, JobSound, Backed, Carries
<1>2. Does(w, j) /\ UNCHANGED <<row, objects, doomed>>
  BY DEF Ask
<1> HIDE DEF j
<1> QED
  BY <1>1, <1>2, JobFacts, JobStep

LEMMA ReadRowKeeps ==
  ASSUME ColumnInv, NEW w \in Workers, ReadRow(w)
  PROVE  ColumnInv'
<1> DEFINE j == [job[w] EXCEPT !.step = FirstStep[job[w].kind], !.row = row, !.fresh = TRUE]
<1>1. /\ UNCHANGED <<row, objects>> /\ job[w].step = "read" /\ job[w].kind # "get"
      /\ doomed' = (doomed \/ (job[w].kind = "remove" /\ row.there))
      /\ Does(w, IF row.there = (job[w].kind = "insert") THEN Resting ELSE j)
  BY DEF ReadRow
<1>2. job[w].kind \in {"insert", "publish", "touch", "remove"}
  BY <1>1, JobFacts DEF Jobs
<1>3. doomed' \in BOOLEAN /\ (~doomed' => ~doomed)
  BY <1>1, JobFacts
<1>4. CASE row.there = (job[w].kind = "insert")
  BY <1>1, <1>3, <1>4, GivesUpJob
<1>5. CASE row.there # (job[w].kind = "insert")
  <2>1. FirstStep[job[w].kind] = (CASE job[w].kind = "publish" -> "store" [] job[w].kind = "remove" -> "list" [] OTHER -> "write")
    BY <1>2, FirstSteps
  <2>2. /\ j \in Jobs /\ j.kind = job[w].kind /\ j.rev = job[w].rev /\ j.row = row
        /\ j.step = (CASE job[w].kind = "publish" -> "store" [] job[w].kind = "remove" -> "list" [] OTHER -> "write")
    BY <1>2, <2>1, JobFacts DEF Jobs, ColumnSteps
  <2> HIDE DEF j
  <2>3. Carries(j)
    BY <1>2, <2>2, JobFacts DEF Carries
  <2>4. ~doomed' => job[w].kind # "remove"
    BY <1>1, <1>5, JobFacts
  <2>5. ~doomed' => JobSound(j, objects')
    BY <1>1, <1>2, <1>3, <2>2, <2>4, JobFacts DEF JobSound, Backed
  <2> QED
    BY <1>1, <1>3, <1>5, <2>2, <2>3, <2>5, JobFacts, JobStep
<1> QED
  BY <1>4, <1>5

LEMMA StoreKeeps ==
  ASSUME ColumnInv, NEW w \in Workers, Store(w)
  PROVE  ColumnInv'
<1> DEFINE j == [job[w] EXCEPT !.step = IF job[w].kind = "insert" THEN "read" ELSE "write"]
<1>1. /\ Does(w, j) /\ UNCHANGED <<row, doomed>> /\ objects' = objects \cup {job[w].rev}
      /\ job[w].step = "store"
  BY DEF Store
<1>2. /\ j \in Jobs /\ j.kind = job[w].kind /\ j.rev = job[w].rev /\ j.row = job[w].row
      /\ j.step = (IF job[w].kind = "insert" THEN "read" ELSE "write")
  BY JobFacts DEF Jobs, ColumnSteps
<1> HIDE DEF j
<1>3. Carries(j) /\ j.kind \in {"insert", "publish"} /\ j.rev \in Revisions
  BY <1>1, <1>2, JobFacts DEF Carries
<1>4. ~doomed => JobSound(j, objects')
  BY <1>1, <1>2, <1>3, JobFacts DEF JobSound, Backed
<1> QED
  BY <1>1, <1>2, <1>3, <1>4, JobFacts, JobStep

\* Only a removal lists and drops.
LEMMA DropsKeep ==
  ASSUME ColumnInv, NEW w \in Workers, ListObjects(w) \/ DropObject(w)
  PROVE  ColumnInv'
<1>1. /\ job[w].step \in {"list", "drop"} /\ UNCHANGED <<row, doomed>> /\ objects' \subseteq objects
  BY DEF ListObjects, DropObject
<1>2. doomed
  BY <1>1, JobFacts DEF JobSound
<1>3. \E j \in Jobs : Carries(j) /\ Does(w, j)
  <2>1. CASE ListObjects(w)
    <3> DEFINE j == [job[w] EXCEPT !.step = "drop", !.keys = Listed(job[w])]
    <3>1. j \in Jobs /\ Carries(j)
      BY JobFacts DEF Jobs, ColumnSteps, Listed, Carries
    <3> QED
      BY <2>1, <3>1 DEF ListObjects
  <2>2. CASE DropObject(w)
    <3> DEFINE j == [job[w] EXCEPT !.step = "write"]
               k(key) == [job[w] EXCEPT !.keys = @ \ {key}]
    <3>1. j \in Jobs /\ Carries(j) /\ \A key \in job[w].keys : k(key) \in Jobs /\ Carries(k(key))
      BY JobFacts DEF Jobs, ColumnSteps, Carries
    <3>2. Does(w, j) \/ \E key \in job[w].keys : Does(w, k(key))
      BY <2>2 DEF DropObject
    <3> HIDE DEF j, k
    <3> QED
      BY <3>1, <3>2
  <2> QED
    BY <2>1, <2>2
<1> QED
  BY <1>1, <1>2, <1>3, JobFacts, JobStep

LEMMA WriteRowKeeps ==
  ASSUME ColumnInv, NEW w \in Workers, WriteRow(w)
  PROVE  ColumnInv'
<1> DEFINE j == job[w]
<1>1. j.step = "write" /\ UNCHANGED <<objects, doomed>>
  BY DEF WriteRow
<1>2. CASE j.fresh
  <2>1. row' = NewRow(j) /\ job' = [x \in Workers |-> IF x = w THEN Resting ELSE [job[x] EXCEPT !.fresh = FALSE]]
    BY <1>2 DEF WriteRow
  <2>2. row' \in MarkedRows /\ (~doomed => Backed(row', objects'))
    BY <1>1, <2>1, JobFacts, RestingType DEF NewRow, Jobs, MarkedRows, JobSound, Backed, Carries
  <2>3. ASSUME NEW x \in Workers
        PROVE  /\ job'[x] \in Jobs /\ Carries(job'[x]) /\ (~doomed => JobSound(job'[x], objects'))
    <3>1. CASE x = w
      BY <1>1, <2>1, <3>1, RestingType DEF JobSound, Backed
    <3>2. CASE x # w
      <4> DEFINE z == [job[x] EXCEPT !.fresh = FALSE]
      <4>1. job'[x] = z
        BY <2>1, <3>2
      <4>2. /\ z \in Jobs /\ z.step = job[x].step /\ z.kind = job[x].kind /\ z.rev = job[x].rev
            /\ z.row = job[x].row /\ z.got = job[x].got
        BY JobFacts DEF Jobs
      <4> HIDE DEF z
      <4> QED
        BY <1>1, <4>1, <4>2, JobFacts DEF JobSound, Carries, Backed
    <3> QED
      BY <3>1, <3>2
  <2>4. job' \in [Workers -> Jobs]
    BY <2>1, <2>3
  <2> QED
    BY <1>1, <2>2, <2>3, <2>4, JobFacts DEF ColumnInv, ColumnTypeOK
<1>3. CASE ~j.fresh
  <2> DEFINE z == [j EXCEPT !.step = "read"]
  <2>1. (Does(w, Resting) \/ Does(w, z)) /\ UNCHANGED row
    BY <1>3 DEF WriteRow
  <2>2. /\ z \in Jobs /\ z.step = "read" /\ z.kind = j.kind /\ z.rev = j.rev /\ z.row = j.row /\ z.got = j.got
    BY JobFacts DEF Jobs, ColumnSteps
  <2> HIDE DEF z
  <2>3. Carries(z) /\ (~doomed => JobSound(z, objects'))
    BY <1>1, <2>2, JobFacts DEF Carries, JobSound, Backed
  <2> QED
    BY <1>1, <2>1, <2>2, <2>3, JobFacts, JobStep, GivesUpJob
<1> QED
  BY <1>2, <1>3, JobFacts DEF Jobs

LEMMA ReadsKeep ==
  ASSUME ColumnInv, NEW w \in Workers, GetRow(w) \/ Attach(w) \/ Reply(w) \/ JobFails(w)
  PROVE  ColumnInv'
<1>1. CASE GetRow(w) /\ row.marker # NoRevision
  <2> DEFINE z == [job[w] EXCEPT !.step = "attach", !.row = row]
  <2>1. Does(w, z) /\ UNCHANGED <<row, objects, doomed>> /\ job[w].kind = "get"
    BY <1>1 DEF GetRow
  <2>2. /\ z \in Jobs /\ z.step = "attach" /\ z.kind = job[w].kind /\ z.rev = job[w].rev /\ z.row = row
    BY JobFacts DEF Jobs, ColumnSteps
  <2> HIDE DEF z
  <2>3. Carries(z) /\ (~doomed => JobSound(z, objects'))
    BY <1>1, <2>1, <2>2, JobFacts DEF Carries, JobSound, Backed
  <2> QED
    BY <2>1, <2>2, <2>3, JobFacts, JobStep
<1>2. CASE Attach(w)
  <2> DEFINE k == job[w].row.marker
             got == IF k \in known[HostOf[w]] \cup objects THEN k ELSE NoRevision
             z == [job[w] EXCEPT !.step = "reply", !.got = got]
  <2>1. Does(w, z) /\ UNCHANGED <<row, objects, doomed>> /\ job[w].step = "attach"
    BY <1>2 DEF Attach
  <2>2. k \in Revisions \cup {NoRevision} /\ got \in Revisions \cup {NoRevision}
    BY JobFacts DEF Jobs, MarkedRows
  <2>3. ~doomed => got = k
    BY <2>1, JobFacts DEF JobSound, Backed
  <2> HIDE DEF got
  <2>4. /\ z \in Jobs /\ z.step = "reply" /\ z.kind = job[w].kind /\ z.rev = job[w].rev /\ z.row = job[w].row
        /\ z.got = got
    BY <2>2, JobFacts DEF Jobs, ColumnSteps
  <2> HIDE DEF z
  <2>5. Carries(z) /\ (~doomed => JobSound(z, objects'))
    BY <2>1, <2>3, <2>4, JobFacts DEF Carries, JobSound, Backed
  <2> QED
    BY <2>1, <2>4, <2>5, JobFacts, JobStep
<1>3. CASE ~(GetRow(w) /\ row.marker # NoRevision) /\ ~Attach(w)
  <2>1. Does(w, Resting) /\ UNCHANGED <<row, objects, doomed>>
    BY <1>3 DEF GetRow, Reply, JobFails
  <2> QED
    BY <2>1, JobFacts, GivesUpJob
<1> QED
  BY <1>1, <1>2, <1>3

LEMMA ColumnKeeps == ColumnInv /\ [ColumnNext]_columnVars => ColumnInv'
<1> SUFFICES ASSUME ColumnInv, [ColumnNext]_columnVars PROVE ColumnInv'
  OBVIOUS
<1>1. CASE UNCHANGED columnVars
  BY <1>1 DEF columnVars, ColumnInv, ColumnTypeOK, Backed, JobSound, Carries
<1>2. ASSUME NEW w \in Workers, NEW kind \in {"insert", "publish"}, NEW rev \in Revisions, Ask(w, kind, rev)
      PROVE  ColumnInv'
  BY <1>2, AskKeeps
<1>3. ASSUME NEW w \in Workers, NEW kind \in {"touch", "remove", "get"}, Ask(w, kind, NoRevision)
      PROVE  ColumnInv'
  BY <1>3, AskKeeps
<1>4. ASSUME NEW w \in Workers, ReadRow(w) \/ Store(w) \/ ListObjects(w) \/ DropObject(w) \/ WriteRow(w)
      PROVE  ColumnInv'
  BY <1>4, ReadRowKeeps, StoreKeeps, DropsKeep, WriteRowKeeps
<1>5. ASSUME NEW w \in Workers, GetRow(w) \/ Attach(w) \/ Reply(w) \/ JobFails(w)
      PROVE  ColumnInv'
  BY <1>5, ReadsKeep
<1> QED
  BY <1>1, <1>2, <1>3, <1>4, <1>5 DEF ColumnNext

\* On any number of instances, whoever stores, writes and reads: until a removal of the row
\* has begun, a reader gets the paper of the row it read (row-tables.mjs:519-537,
\* netlify-blobs.mjs:418-428).
THEOREM ReadersGetThePaper == ColumnSpec => []ReadsAreWhole
<1>1. ColumnInit => ColumnInv
  <2> SUFFICES ASSUME ColumnInit PROVE ColumnInv
    OBVIOUS
  <2>1. Backed(row, objects)
    BY DEF ColumnInit, Backed, Absent
  <2>2. \A w \in Workers : job[w] = Resting
    BY DEF ColumnInit
  <2>3. row \in MarkedRows /\ objects \subseteq Revisions /\ doomed \in BOOLEAN /\ job \in [Workers -> Jobs]
    BY RestingType DEF ColumnInit
  <2> QED
    BY <2>1, <2>2, <2>3, RestingType DEF ColumnInv, ColumnTypeOK
<1>2. ColumnInv /\ [ColumnNext]_columnVars => ColumnInv'
  BY ColumnKeeps
<1>3. ColumnInv => ReadsAreWhole
  BY DEF ColumnInv, ReadsAreWhole, JobSound
<1> QED
  BY <1>1, <1>2, <1>3, PTL DEF ColumnSpec

----------------------------------------------------------------------------
(* FileStore.  As long as no process replaced the file under another one's  *)
(* mutation, a process that is in the middle of one still has what the file *)
(* has, but for the row it is about to write.                               *)

Rows == [FileRows -> SUBSET Nat]
Mutations ==
  [step : {"asked", "captured"}, row : FileRows, rec : SUBSET Nat, before : SUBSET Nat]

FileTypeOK ==
  /\ file \in [rev : Nat, rows : Rows]
  /\ memory \in [Processes -> Rows]
  /\ seen \in [Processes -> Nat]
  /\ phase \in [Processes -> {"free", "reloading", "persisting"}]
  /\ op \in [Processes -> Mutations \cup {NoOp}]
  /\ acked \subseteq Nat \X FileRows
  /\ crossed \in BOOLEAN

\* Nobody has seen a revision that the file has not had.
SeenIsPast == \A p \in Processes : seen[p] <= file.rev

\* What process p does and what it is in the middle of fit together.
Stages ==
  \A p \in Processes :
    /\ phase[p] = "reloading" => op[p].step \in {"none", "asked"} \/ crossed
    /\ phase[p] = "persisting" => op[p].step = "captured"
    /\ op[p].step = "asked" => phase[p] = "reloading"

\* The row a mutation began with is the one in memory, and goes back there if it must.
InHand ==
  \A p \in Processes :
    /\ phase[p] = "free" /\ op[p].step = "captured" =>
         ~Stale(p) /\ op[p].rec = memory[p][op[p].row]
    /\ phase[p] = "persisting" =>
         /\ op[p].rec = file.rows[op[p].row] /\ op[p].before = op[p].rec
         /\ memory[p] = [file.rows EXCEPT ![op[p].row] = op[p].rec \cup {NextRevision}]

\* What was loaded, or is trusted, is what the file has.
Mirrors ==
  \A p \in Processes :
    phase[p] = "reloading" \/ (phase[p] = "free" /\ ~Stale(p)) => memory[p] = file.rows

FileInv == FileTypeOK /\ SeenIsPast /\ Stages /\ (~crossed => Kept /\ InHand /\ Mirrors)

LEMMA OpTypes ==
  ASSUME FileTypeOK, NEW p \in Processes, op[p].step # "none"
  PROVE  op[p] \in Mutations
  BY DEF FileTypeOK, NoOp

LEMMA NoOpType == NoOp \in Mutations \cup {NoOp} /\ NoOp.step = "none"
  BY DEF NoOp

LEMMA CapturedType ==
  ASSUME NEW rows \in Rows, NEW r \in FileRows
  PROVE  /\ Captured(rows, r) \in Mutations
         /\ Captured(rows, r).step = "captured"
         /\ Captured(rows, r).row = r /\ Captured(rows, r).rec = rows[r]
  BY DEF Captured, NoOp, Mutations, Rows

LEMMA InitFileInv == FileInit => FileInv
<1> SUFFICES ASSUME FileInit PROVE FileInv
  OBVIOUS
<1>1. Empty \in Rows
  BY DEF Empty, Rows
<1>2. FileTypeOK
  BY <1>1, NoOpType DEF FileInit, FileTypeOK
<1>3. SeenIsPast /\ Stages
  BY NoOpType DEF FileInit, SeenIsPast, Stages
<1>4. Kept /\ InHand /\ Mirrors
  BY NoOpType DEF FileInit, Kept, InHand, Mirrors
<1> QED
  BY <1>2, <1>3, <1>4 DEF FileInv

(***************************************************************************)
(* A step of p that leaves the file and the history alone: only p's own    *)
(* part of the invariant must be shown again.                              *)
(***************************************************************************)
LEMMA OwnStep ==
  ASSUME FileInv, NEW p \in Processes,
         UNCHANGED <<file, acked, crossed>>,
         NEW m \in Rows, NEW s \in Nat, NEW o \in Mutations \cup {NoOp},
         NEW f \in {"free", "reloading", "persisting"},
         memory' = [memory EXCEPT ![p] = m], seen' = [seen EXCEPT ![p] = s],
         op' = [op EXCEPT ![p] = o], phase' = [phase EXCEPT ![p] = f],
         s <= file.rev,
         f = "reloading" => o.step \in {"none", "asked"} \/ crossed,
         f = "persisting" => o.step = "captured",
         o.step = "asked" => f = "reloading",
         ~crossed /\ f = "free" /\ o.step = "captured" => s = file.rev /\ o.rec = m[o.row],
         ~crossed /\ f = "persisting" =>
           /\ o.rec = file.rows[o.row] /\ o.before = o.rec
           /\ m = [file.rows EXCEPT ![o.row] = o.rec \cup {NextRevision}],
         ~crossed /\ (f = "reloading" \/ (f = "free" /\ s = file.rev)) => m = file.rows
  PROVE  FileInv'
<1>1. \A q \in Processes :
        /\ memory'[q] = IF q = p THEN m ELSE memory[q]
        /\ seen'[q] = IF q = p THEN s ELSE seen[q]
        /\ op'[q] = IF q = p THEN o ELSE op[q]
        /\ phase'[q] = IF q = p THEN f ELSE phase[q]
  BY DEF FileInv, FileTypeOK
<1>2. FileTypeOK'
  BY DEF FileInv, FileTypeOK
<1>3. SeenIsPast'
  BY <1>1 DEF FileInv, SeenIsPast
<1>4. Stages'
  BY <1>1 DEF FileInv, Stages
<1>5. ASSUME ~crossed' PROVE Kept' /\ InHand' /\ Mirrors'
  <2>1. Kept'
    BY <1>5 DEF FileInv, Kept
  <2>2. InHand'
    <3> SUFFICES ASSUME NEW q \in Processes PROVE InHand!(q)'
      BY DEF InHand
    <3>1. CASE q = p
      <4>1. /\ memory'[q] = m /\ seen'[q] = s /\ op'[q] = o /\ phase'[q] = f
            /\ file' = file /\ ~crossed /\ NextRevision' = NextRevision
        BY <1>1, <1>5, <3>1 DEF NextRevision
      <4>2. phase'[q] = "free" /\ op'[q].step = "captured" =>
              ~Stale(q)' /\ op'[q].rec = memory'[q][op'[q].row]
        BY <4>1 DEF Stale
      <4>3. phase'[q] = "persisting" =>
              /\ op'[q].rec = file'.rows[op'[q].row] /\ op'[q].before = op'[q].rec
              /\ memory'[q] = [file'.rows EXCEPT ![op'[q].row] = op'[q].rec \cup {NextRevision'}]
        BY <4>1
      <4> QED
        BY <4>2, <4>3
    <3>2. CASE q # p
      BY <1>1, <1>5, <3>2 DEF FileInv, InHand, Stale, NextRevision
    <3> QED
      BY <3>1, <3>2
  <2>3. Mirrors'
    BY <1>1, <1>5 DEF FileInv, Mirrors, Stale
  <2> QED
    BY <2>1, <2>2, <2>3
<1> QED
  BY <1>2, <1>3, <1>4, <1>5 DEF FileInv

LEMMA ReloadStep ==
  ASSUME FileInv, NEW p \in Processes, LoadRows(p),
         UNCHANGED <<file, seen, acked, crossed>>,
         NEW o \in Mutations \cup {NoOp}, op' = [op EXCEPT ![p] = o],
         o.step \in {"none", "asked"} \/ crossed
  PROVE  FileInv'
<1> DEFINE m == file.rows
           s == seen[p]
<1>1. m \in Rows /\ s \in Nat /\ s <= file.rev
  BY DEF FileInv, FileTypeOK, SeenIsPast
<1>2. /\ memory' = [memory EXCEPT ![p] = m] /\ seen' = [seen EXCEPT ![p] = s]
      /\ phase' = [phase EXCEPT ![p] = "reloading"]
  BY DEF LoadRows, FileInv, FileTypeOK
<1> HIDE DEF s
<1> QED
  BY <1>1, <1>2, OwnStep

LEMMA RenameStep ==
  ASSUME FileInv, NEW p \in Processes, Rename(p)
  PROVE  FileInv'
<1>1. /\ phase[p] = "persisting" /\ op[p].step = "captured"
      /\ op[p] \in Mutations /\ op[p].row \in FileRows
  BY OpTypes DEF Rename, FileInv, Stages, Mutations
<1>2. memory[p] \in Rows /\ file.rev \in Nat /\ file.rows \in Rows
  BY DEF FileInv, FileTypeOK
<1>3. /\ file'.rev = file.rev + 1 /\ file'.rows = memory[p] /\ file' \in [rev : Nat, rows : Rows]
      /\ memory' = memory
      /\ crossed' = (crossed \/ \E q \in Processes \ {p} : Busy(q))
      /\ acked' = acked \cup {<<w, op[p].row>> : w \in memory[p][op[p].row] \ op[p].rec}
  BY <1>2 DEF Rename, NextRevision
<1>4. \A q \in Processes :
        /\ seen'[q] = IF q = p THEN file.rev + 1 ELSE seen[q]
        /\ op'[q] = IF q = p THEN NoOp ELSE op[q]
        /\ phase'[q] = IF q = p THEN "free" ELSE phase[q]
  BY DEF Rename, NextRevision, FileInv, FileTypeOK
<1>5. FileTypeOK'
  <2>1. acked' \subseteq Nat \X FileRows
    <3>1. memory[p][op[p].row] \subseteq Nat
      BY <1>1, <1>2 DEF Rows
    <3> QED
      BY <1>1, <1>3, <3>1 DEF FileInv, FileTypeOK
  <2>2. seen' \in [Processes -> Nat] /\ op' \in [Processes -> Mutations \cup {NoOp}]
        /\ phase' \in [Processes -> {"free", "reloading", "persisting"}]
    BY <1>2, NoOpType DEF Rename, NextRevision, FileInv, FileTypeOK
  <2>3. crossed' \in BOOLEAN
    BY <1>3
  <2> QED
    BY <1>3, <2>1, <2>2, <2>3 DEF FileInv, FileTypeOK
<1>6. SeenIsPast'
  BY <1>2, <1>3, <1>4 DEF FileInv, SeenIsPast, FileTypeOK
<1>7. Stages'
  BY <1>3, <1>4, NoOpType DEF FileInv, Stages
<1>8. ASSUME ~crossed' PROVE Kept' /\ InHand' /\ Mirrors'
  <2>1. ~crossed /\ \A q \in Processes \ {p} : phase[q] = "free" /\ op[q].step = "none"
    BY <1>3, <1>8 DEF Busy
  <2>2. /\ op[p].rec = file.rows[op[p].row]
        /\ memory[p] = [file.rows EXCEPT ![op[p].row] = op[p].rec \cup {NextRevision}]
    BY <1>1, <2>1 DEF FileInv, InHand
  <2>3. Kept'
    <3> SUFFICES ASSUME NEW a \in acked' PROVE a[1] \in memory[p][a[2]]
      BY <1>3 DEF Kept
    <3>1. CASE a \in acked
      <4>1. a[2] \in FileRows /\ a[1] \in file.rows[a[2]]
        BY <3>1, <2>1 DEF FileInv, FileTypeOK, Kept
      <4> QED
        BY <4>1, <2>2, <1>1, <1>2 DEF Rows
    <3>2. CASE a \notin acked
      BY <3>2, <1>3
    <3> QED
      BY <3>1, <3>2
  <2>4. \A q \in Processes \ {p} : seen'[q] # file'.rev
    BY <1>2, <1>3, <1>4 DEF FileInv, SeenIsPast, FileTypeOK
  <2>5. InHand'
    BY <1>4, <2>1, NoOpType DEF InHand
  <2>6. Mirrors'
    BY <1>3, <1>4, <2>1, <2>4 DEF Mirrors, Stale
  <2> QED
    BY <2>3, <2>5, <2>6
<1> QED
  BY <1>5, <1>6, <1>7, <1>8 DEF FileInv

LEMMA FileStep == FileInv /\ [FileNext]_fileVars => FileInv'
<1> SUFFICES ASSUME FileInv, [FileNext]_fileVars PROVE FileInv'
  OBVIOUS
<1>0. CASE UNCHANGED fileVars
  BY <1>0 DEF fileVars, FileInv, FileTypeOK, SeenIsPast, Stages, Kept, InHand, Mirrors, Stale, NextRevision
<1> SUFFICES ASSUME NEW p \in Processes,
                    \/ ReadStale(p) \/ TakeRevision(p) \/ Persist(p)
                    \/ Rename(p) \/ RenameFails(p) \/ Restart(p)
                    \/ \E r \in FileRows : BeginUpdate(p, r)
             PROVE  FileInv'
  BY <1>0 DEF FileNext
<1> DEFINE m == memory[p]
           s == seen[p]
           o == op[p]
           f == phase[p]
<1>t. /\ m \in Rows /\ s \in Nat /\ o \in Mutations \cup {NoOp} /\ s <= file.rev
      /\ file.rev \in Nat /\ file.rows \in Rows
      /\ f \in {"free", "reloading", "persisting"}
  BY DEF FileInv, FileTypeOK, SeenIsPast
<1>s. /\ memory = [memory EXCEPT ![p] = m] /\ seen = [seen EXCEPT ![p] = s]
      /\ op = [op EXCEPT ![p] = o] /\ phase = [phase EXCEPT ![p] = f]
  BY DEF FileInv, FileTypeOK
<1>1. CASE ReadStale(p)
  <2>1. o.step \in {"none", "asked"} \/ crossed
    <3>1. o \in Mutations \/ o = NoOp
      BY <1>t
    <3> QED
      BY <1>1, <3>1, NoOpType DEF ReadStale, FileInv, Stages, InHand, Mutations
  <2>2. op' = [op EXCEPT ![p] = o]
    BY <1>1, <1>s DEF ReadStale
  <2> HIDE DEF o
  <2> QED
    BY <1>1, <1>t, <2>1, <2>2, ReloadStep DEF ReadStale
<1>2. ASSUME NEW r \in FileRows, BeginUpdate(p, r) PROVE FileInv'
  <2>1. CASE Stale(p)
    <3> DEFINE n == [NoOp EXCEPT !.step = "asked", !.row = r]
    <3>1. n \in Mutations /\ n.step = "asked"
      BY DEF NoOp, Mutations
    <3>2. op' = [op EXCEPT ![p] = n] /\ LoadRows(p) /\ UNCHANGED <<file, seen, acked, crossed>>
      BY <1>2, <2>1 DEF BeginUpdate
    <3> HIDE DEF n
    <3> QED
      BY <3>1, <3>2, ReloadStep
  <2>2. CASE ~Stale(p)
    <3> DEFINE n == Captured(m, r)
    <3>1. n \in Mutations /\ n.step = "captured" /\ n.row = r /\ n.rec = m[r]
      BY <1>t, CapturedType
    <3>2. /\ op' = [op EXCEPT ![p] = n] /\ memory' = [memory EXCEPT ![p] = m]
          /\ seen' = [seen EXCEPT ![p] = s] /\ phase' = [phase EXCEPT ![p] = "free"]
          /\ UNCHANGED <<file, acked, crossed>>
      BY <1>2, <2>2, <1>s DEF BeginUpdate
    <3>3. s = file.rev /\ (~crossed => m = file.rows)
      BY <1>2, <2>2 DEF BeginUpdate, Stale, FileInv, Mirrors
    <3> HIDE DEF n, m, s
    <3> QED
      BY <1>t, <3>1, <3>2, <3>3, OwnStep
  <2> QED
    BY <2>1, <2>2
<1>3. CASE TakeRevision(p)
  <2> DEFINE n == IF o.step = "asked" THEN Captured(m, o.row) ELSE o
  <2>1. /\ op' = [op EXCEPT ![p] = n] /\ memory' = [memory EXCEPT ![p] = m]
        /\ seen' = [seen EXCEPT ![p] = file.rev] /\ phase' = [phase EXCEPT ![p] = "free"]
        /\ UNCHANGED <<file, acked, crossed>>
    BY <1>3, <1>s DEF TakeRevision
  <2>2. (~crossed => m = file.rows) /\ (o.step \in {"none", "asked"} \/ crossed)
    BY <1>3 DEF TakeRevision, FileInv, Mirrors, Stages
  <2>3. CASE o.step = "asked"
    <3>1. o.row \in FileRows
      BY <2>3, OpTypes DEF FileInv, Mutations
    <3>2. n \in Mutations /\ n.step = "captured" /\ n.rec = m[n.row]
      BY <1>t, <2>3, <3>1, CapturedType
    <3>3. file.rev <= file.rev /\ n \in Mutations \cup {NoOp}
      BY <1>t, <3>2
    <3> HIDE DEF n, m, s, o, f
    <3> QED
      BY <1>t, <2>1, <2>2, <3>2, <3>3, OwnStep
  <2>4. CASE o.step # "asked"
    <3>1. n = o /\ (o.step # "none" => crossed)
      BY <2>2, <2>4
    <3>2. file.rev <= file.rev
      BY <1>t
    <3> HIDE DEF n, m, s, o, f
    <3> QED
      BY <1>t, <2>1, <2>2, <2>4, <3>1, <3>2, OwnStep
  <2> QED
    BY <2>3, <2>4
<1>4. CASE Persist(p)
  <2>0. o \in Mutations /\ o.row \in FileRows /\ o.rec \in SUBSET Nat
    BY <1>4, OpTypes DEF Persist, FileInv, Mutations
  <2> DEFINE b == [o EXCEPT !.before = m[o.row]]
             rows == [m EXCEPT ![o.row] = o.rec \cup {NextRevision}]
  <2>1. /\ b \in Mutations /\ b.row = o.row /\ b.rec = o.rec /\ b.before = m[o.row]
        /\ b.step = o.step
    BY <1>t, <2>0 DEF Mutations, Rows
  <2>2. rows \in Rows
    BY <1>t, <2>0 DEF Rows, NextRevision
  <2>3. CASE Stale(p)
    <3>1. RolledBack(rows, b) = m
      BY <1>t, <2>0, <2>1 DEF RolledBack, Rows
    <3>2. /\ op' = [op EXCEPT ![p] = NoOp] /\ memory' = [memory EXCEPT ![p] = m]
          /\ seen' = [seen EXCEPT ![p] = s] /\ phase' = [phase EXCEPT ![p] = "free"]
          /\ UNCHANGED <<file, acked, crossed>> /\ s # file.rev
      BY <1>4, <1>s, <2>3, <3>1 DEF Persist, Stale
    <3> HIDE DEF m, s
    <3> QED
      BY <1>t, <3>2, NoOpType, OwnStep
  <2>4. CASE ~Stale(p)
    <3>1. /\ op' = [op EXCEPT ![p] = b] /\ memory' = [memory EXCEPT ![p] = rows]
          /\ seen' = [seen EXCEPT ![p] = s] /\ phase' = [phase EXCEPT ![p] = "persisting"]
          /\ UNCHANGED <<file, acked, crossed>>
      BY <1>4, <1>s, <2>4 DEF Persist
    <3>2. b.step = "captured" /\ (~crossed => m = file.rows /\ o.rec = m[o.row])
      BY <1>4, <2>1, <2>4 DEF Persist, Stale, FileInv, Mirrors, InHand
    <3>3. ~crossed => /\ b.rec = file.rows[b.row] /\ b.before = b.rec
                      /\ rows = [file.rows EXCEPT ![b.row] = b.rec \cup {NextRevision}]
      BY <2>1, <3>2
    <3> HIDE DEF b, rows, m, s
    <3> QED
      BY <1>t, <2>1, <2>2, <3>1, <3>2, <3>3, OwnStep
  <2> QED
    BY <2>3, <2>4
<1>5. CASE Rename(p)
  BY <1>5, RenameStep
<1>6. CASE RenameFails(p)
  <2>0. o \in Mutations /\ o.row \in FileRows /\ o.before \in SUBSET Nat
    BY <1>6, OpTypes DEF RenameFails, FileInv, Stages, Mutations
  <2> DEFINE n == RolledBack(m, o)
  <2>1. n \in Rows
    BY <1>t, <2>0 DEF RolledBack, Rows
  <2>2. /\ op' = [op EXCEPT ![p] = NoOp] /\ memory' = [memory EXCEPT ![p] = n]
        /\ seen' = [seen EXCEPT ![p] = s] /\ phase' = [phase EXCEPT ![p] = "free"]
        /\ UNCHANGED <<file, acked, crossed>>
    BY <1>6, <1>s DEF RenameFails
  <2>3. ~crossed => n = file.rows
    <3> SUFFICES ASSUME ~crossed PROVE n = file.rows
      OBVIOUS
    <3>1. /\ o.before = file.rows[o.row]
          /\ m = [file.rows EXCEPT ![o.row] = o.rec \cup {NextRevision}]
      BY <1>6 DEF RenameFails, FileInv, InHand
    <3> QED
      BY <1>t, <2>0, <3>1 DEF RolledBack, Rows
  <2> HIDE DEF n, m, s
  <2> QED
    BY <1>t, <2>1, <2>2, <2>3, NoOpType, OwnStep
<1>7. CASE Restart(p)
  BY <1>7, NoOpType, ReloadStep DEF Restart
<1> QED
  BY <1>1, <1>2, <1>3, <1>4, <1>5, <1>6, <1>7

\* The inductive invariant of the file store.
THEOREM FileKeepsInvariant == FileSpec => []FileInv
<1> QED
  BY InitFileInv, FileStep, PTL DEF FileSpec

\* Processes that take turns on the file lose no update, and who trusts his memory has
\* what the file has, for any number of processes, rows and revisions.
THEOREM TurnsAreSafe == FileSpec => []TurnsLoseNothing
<1>1. FileInv => TurnsLoseNothing
  BY DEF FileInv, Mirrors, TurnsLoseNothing
<1> QED
  BY <1>1, FileKeepsInvariant, PTL

=============================================================================
