-------------------------- MODULE DetachedColumns --------------------------
(***************************************************************************)
(* The columns of an assessment that are kept in objects of their own: the *)
(* frozen paper and the report (storage/row-tables.mjs, createDetacher, as *)
(* storage/netlify-blobs.mjs calls it).  The row of the table holds a      *)
(* marker with the revision (a hash of the value); the object of a         *)
(* revision is written before the row and dropped before the row.  One     *)
(* row with one such column; mutations of a table wait for each other in   *)
(* their instance, except that an insert stores its column before it waits.*)
(***************************************************************************)
EXTENDS Naturals, FiniteSets

CONSTANTS
  Hosts,         \* instances
  Workers,       \* requests at work on the row
  HostOf,        \* HostOf[w]: the instance worker w is in
  Revisions,     \* values the column may have
  NoRevision     \* the column is empty

ASSUME ColumnAssumption ==
  /\ HostOf \in [Workers -> Hosts] /\ NoRevision \notin Revisions

VARIABLES
  row,        \* the row in the table: is it there, and its marker
  objects,    \* the revisions whose object is stored
  known,      \* known[h]: the revisions whose value instance h has in its cache
  job,        \* job[w]: what worker w is doing
  doomed      \* history: a removal of the row has begun

columnVars == <<row, objects, known, job, doomed>>

Absent == [there |-> FALSE, marker |-> NoRevision]
Resting == [step |-> "rest", kind |-> "get", rev |-> NoRevision, row |-> Absent, fresh |-> FALSE,
            keys |-> {}, got |-> NoRevision]

ColumnInit ==
  /\ row = Absent
  /\ objects = {}
  /\ known = [h \in Hosts |-> {}]
  /\ job = [w \in Workers |-> Resting]
  /\ doomed = FALSE

Does(w, j) == job' = [job EXCEPT ![w] = j]
\* Steps under the table's lock; reads and the store of an insert take none.
Locked(j) == \/ j.step \in {"write", "list", "drop"}
             \/ j.step = "store" /\ j.kind # "insert"
LockFree(w) == \A x \in Workers : x # w /\ HostOf[x] = HostOf[w] => ~Locked(job[x])

Ask(w, kind, rev) ==
  /\ job[w].step = "rest"
  /\ Does(w, [Resting EXCEPT !.step = IF kind = "insert" THEN "store" ELSE "read", !.kind = kind, !.rev = rev])
  /\ UNCHANGED <<row, objects, known, doomed>>

\* Faulty variant: a publish goes to the row first.
FaultyFirstStep == [insert |-> "write", publish |-> "write", touch |-> "write", remove |-> "list"]

\* Every mutation starts from a fresh read: an insert of an id that is there
\* throws, the others return if it is not.
FirstStep == [insert |-> "write", publish |-> "store", touch |-> "write", remove |-> "list"]

ReadRow(w) ==
  LET j == job[w] IN
  /\ j.step = "read" /\ j.kind # "get" /\ LockFree(w)
  /\ IF row.there = (j.kind = "insert")
     THEN Does(w, Resting)
     ELSE Does(w, [j EXCEPT !.step = FirstStep[j.kind], !.row = row, !.fresh = TRUE])
  /\ doomed' = (doomed \/ (j.kind = "remove" /\ row.there))
  /\ UNCHANGED <<row, objects, known>>

\* split: the value is stored under its revision, and remembered.
Store(w) ==
  LET j == job[w] IN
  /\ j.step = "store"
  /\ objects' = objects \cup {j.rev}
  /\ known' = [known EXCEPT ![HostOf[w]] = @ \cup {j.rev}]
  /\ Does(w, [j EXCEPT !.step = IF j.kind = "insert" THEN "read" ELSE "write"])
  /\ UNCHANGED <<row, doomed>>

\* drop: every object under the row's prefix, one after another.
Listed(j) == objects

ListObjects(w) ==
  /\ job[w].step = "list"
  /\ Does(w, [job[w] EXCEPT !.step = "drop", !.keys = Listed(job[w])])
  /\ UNCHANGED <<row, objects, known, doomed>>

DropObject(w) ==
  /\ job[w].step = "drop"
  /\ IF job[w].keys = {}
     THEN Does(w, [job[w] EXCEPT !.step = "write"]) /\ UNCHANGED <<objects, known>>
     ELSE \E k \in job[w].keys :
            /\ objects' = objects \ {k}
            /\ known' = [known EXCEPT ![HostOf[w]] = @ \ {k}]
            /\ Does(w, [job[w] EXCEPT !.keys = @ \ {k}])
  /\ UNCHANGED <<row, doomed>>

NewRow(j) ==
  CASE j.kind = "touch" -> j.row
    [] j.kind = "remove" -> Absent
    [] OTHER -> [there |-> TRUE, marker |-> j.rev]

\* The conditional write of the table; a refused one starts over or gives up.
WriteRow(w) ==
  LET j == job[w] IN
  /\ j.step = "write"
  /\ IF j.fresh
     THEN /\ row' = NewRow(j)
          /\ job' = [x \in Workers |-> IF x = w THEN Resting ELSE [job[x] EXCEPT !.fresh = FALSE]]
     ELSE /\ Does(w, Resting) \/ Does(w, [j EXCEPT !.step = "read"])
          /\ UNCHANGED row
  /\ UNCHANGED <<objects, known, doomed>>

\* get: the row, then (attach) the object its marker names, if not remembered.
GetRow(w) ==
  /\ job[w].step = "read" /\ job[w].kind = "get"
  /\ Does(w, IF row.marker = NoRevision THEN Resting ELSE [job[w] EXCEPT !.step = "attach", !.row = row])
  /\ UNCHANGED <<row, objects, known, doomed>>

Attach(w) ==
  LET k == job[w].row.marker h == HostOf[w] IN
  /\ job[w].step = "attach"
  /\ Does(w, [job[w] EXCEPT !.step = "reply", !.got = IF k \in known[h] \cup objects THEN k ELSE NoRevision])
  /\ known' = IF k \in objects THEN [known EXCEPT ![h] = @ \cup {k}] ELSE known
  /\ UNCHANGED <<row, objects, doomed>>

Reply(w) ==
  /\ job[w].step = "reply"
  /\ Does(w, Resting)
  /\ UNCHANGED <<row, objects, known, doomed>>

\* A storage call fails or the request dies; what was written or dropped stays so.
JobFails(w) ==
  /\ job[w].step # "rest"
  /\ Does(w, Resting)
  /\ UNCHANGED <<row, objects, known, doomed>>

ColumnNext ==
  \E w \in Workers :
    \/ \E kind \in {"insert", "publish"}, rev \in Revisions : Ask(w, kind, rev)
    \/ \E kind \in {"touch", "remove", "get"} : Ask(w, kind, NoRevision)
    \/ ReadRow(w) \/ Store(w) \/ ListObjects(w) \/ DropObject(w) \/ WriteRow(w)
    \/ GetRow(w) \/ Attach(w) \/ Reply(w) \/ JobFails(w)

ColumnSpec == ColumnInit /\ [][ColumnNext]_columnVars

----------------------------------------------------------------------------
(* Properties *)

\* A reader gets the paper of the row it read, not an empty one, unless a removal
\* of the row had begun (row-tables.mjs:519-537, netlify-blobs.mjs:418-428).
ReadsAreWhole ==
  \A w \in Workers :
    job[w].step = "reply" /\ ~doomed => job[w].got = job[w].row.marker

=============================================================================
