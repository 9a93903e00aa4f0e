----------------------------- MODULE FileStore -----------------------------
(***************************************************************************)
(* The JSON-file store (storage/json-file.mjs): every process keeps the    *)
(* whole database in memory and rewrites the file at every mutation.  The  *)
(* file begins with a revision; a process whose revision is another one    *)
(* reloads before it serves or mutates, and refuses to persist.  A process *)
(* is single-threaded: its mutations wait for each other (withLock), but   *)
(* its reads, which may reload too, run while a mutation awaits split.     *)
(*                                                                         *)
(* A row is the set of the updates it holds (each sets columns of its own).*)
(***************************************************************************)
EXTENDS Naturals

CONSTANTS
  Processes,     \* processes on the same file
  FileRows,      \* rows of the database
  MaxRevision    \* bound: revisions of the file

ASSUME FileAssumption == MaxRevision \in Nat

VARIABLES
  file,       \* the file: its revision and the rows
  memory,     \* memory[p]: the rows as process p holds them
  seen,       \* seen[p]: the revision p believes its memory to be
  phase,      \* phase[p]: "free", or what p does without yielding: "reloading", "persisting"
  op,         \* op[p]: the mutation p is in
  acked,      \* history: the updates answered, with their rows
  crossed     \* history: a process replaced the file during another one's mutation or reload

fileVars == <<file, memory, seen, phase, op, acked, crossed>>

Empty == [r \in FileRows |-> {}]
NoOp == [step |-> "none", row |-> CHOOSE r \in FileRows : TRUE, rec |-> {}, before |-> {}]

FileInit ==
  /\ file = [rev |-> 0, rows |-> Empty]
  /\ memory = [p \in Processes |-> Empty]
  /\ seen = [p \in Processes |-> 0]
  /\ phase = [p \in Processes |-> "free"]
  /\ op = [p \in Processes |-> NoOp]
  /\ acked = {} /\ crossed = FALSE

\* Faulty variant: the revision of the file is not looked at.
FaultyStale(p) == FALSE

Stale(p) == seen[p] # file.rev
\* The new revision, random in the code; it names the update too.
NextRevision == file.rev + 1
Captured(rows, r) == [NoOp EXCEPT !.step = "captured", !.row = r, !.rec = rows[r]]

\* reload reads the rows first and the revision after.
LoadRows(p) == memory' = [memory EXCEPT ![p] = file.rows] /\ phase' = [phase EXCEPT ![p] = "reloading"]

\* refresh, before a read is served; also before a mutation is begun.
ReadStale(p) ==
  /\ phase[p] = "free" /\ Stale(p)
  /\ LoadRows(p)
  /\ UNCHANGED <<file, seen, op, acked, crossed>>

\* A mutation captures its row; it yields before it goes on (await split).
BeginUpdate(p, r) ==
  /\ phase[p] = "free" /\ op[p].step = "none"
  /\ IF Stale(p)
     THEN LoadRows(p) /\ op' = [op EXCEPT ![p] = [NoOp EXCEPT !.step = "asked", !.row = r]]
     ELSE op' = [op EXCEPT ![p] = Captured(memory[p], r)] /\ UNCHANGED <<memory, phase>>
  /\ UNCHANGED <<file, seen, acked, crossed>>

TakeRevision(p) ==
  /\ phase[p] = "reloading"
  /\ seen' = [seen EXCEPT ![p] = file.rev]
  /\ phase' = [phase EXCEPT ![p] = "free"]
  /\ op' = [op EXCEPT ![p] = IF @.step = "asked" THEN Captured(memory[p], @.row) ELSE @]
  /\ UNCHANGED <<file, memory, acked, crossed>>

\* Faulty variant: a refused update stays in memory.
FaultyRolledBack(rows, o) == rows

RolledBack(rows, o) == [rows EXCEPT ![o.row] = o.before]

\* mutate: the row is replaced in memory, then persist looks at the revision again.
Persist(p) ==
  LET o == [op[p] EXCEPT !.before = memory[p][op[p].row]]
      rows == [memory[p] EXCEPT ![o.row] = o.rec \cup {NextRevision}]
  IN
  /\ phase[p] = "free" /\ op[p].step = "captured"
  /\ IF Stale(p)
     THEN /\ memory' = [memory EXCEPT ![p] = RolledBack(rows, o)]
          /\ op' = [op EXCEPT ![p] = NoOp]
          /\ UNCHANGED phase
     ELSE /\ memory' = [memory EXCEPT ![p] = rows]
          /\ op' = [op EXCEPT ![p] = o]
          /\ phase' = [phase EXCEPT ![p] = "persisting"]
  /\ UNCHANGED <<file, seen, acked, crossed>>

Busy(p) == phase[p] # "free" \/ op[p].step # "none"

Rename(p) ==
  /\ phase[p] = "persisting" /\ NextRevision <= MaxRevision
  /\ file' = [rev |-> NextRevision, rows |-> memory[p]]
  /\ seen' = [seen EXCEPT ![p] = NextRevision]
  /\ acked' = acked \cup {<<w, op[p].row>> : w \in memory[p][op[p].row] \ op[p].rec}
  /\ crossed' = (crossed \/ \E q \in Processes \ {p} : Busy(q))
  /\ phase' = [phase EXCEPT ![p] = "free"]
  /\ op' = [op EXCEPT ![p] = NoOp]
  /\ UNCHANGED memory

\* The disk refuses the temporary file or the rename: the row is put back.
RenameFails(p) ==
  /\ phase[p] = "persisting"
  /\ memory' = [memory EXCEPT ![p] = RolledBack(@, op[p])]
  /\ phase' = [phase EXCEPT ![p] = "free"]
  /\ op' = [op EXCEPT ![p] = NoOp]
  /\ UNCHANGED <<file, seen, acked, crossed>>

\* A process dies, wherever it is, and starts again on the file.
Restart(p) ==
  /\ LoadRows(p)
  /\ op' = [op EXCEPT ![p] = NoOp]
  /\ UNCHANGED <<file, seen, acked, crossed>>

FileNext ==
  \E p \in Processes :
    \/ ReadStale(p) \/ TakeRevision(p) \/ Persist(p) \/ Rename(p) \/ RenameFails(p) \/ Restart(p)
    \/ \E r \in FileRows : BeginUpdate(p, r)

FileSpec == FileInit /\ [][FileNext]_fileVars

----------------------------------------------------------------------------
(* Properties *)

Kept == \A a \in acked : a[1] \in file.rows[a[2]]

\* Processes that take turns lose nothing: a mutation lands on top of what the other
\* one wrote, and a process that trusts its memory has what the file has, not a row that
\* was refused (json-file.mjs:38-44, 95-102, 132-146).
TurnsLoseNothing ==
  ~crossed =>
    /\ Kept
    /\ \A p \in Processes : phase[p] = "free" /\ ~Stale(p) => memory[p] = file.rows

=============================================================================
