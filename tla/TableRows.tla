----------------------------- MODULE TableRows -----------------------------
(***************************************************************************)
(* What one call of the store does to a table, as the read-modify-write    *)
(* functions of storage/netlify-blobs.mjs decide it: insert, update,       *)
(* changeRow (a claim: the change is made only if nobody made it before)   *)
(* and remove.  A row is the set of the calls whose write it carries; an   *)
(* absent row is the empty set.                                            *)
(***************************************************************************)
CONSTANTS
  Ids,       \* row ids of the table
  Calls,     \* the calls made in this instance of the model, each once
  Kind,      \* Kind[c]: what call c does
  Target     \* Target[c]: the row it does it to

ASSUME CallAssumption ==
  /\ Kind \in [Calls -> {"insert", "update", "claim", "remove"}]
  /\ Target \in [Calls -> Ids]

Tables == [Ids -> SUBSET Calls]
EmptyTable == [id \in Ids |-> {}]

Claims == {c \in Calls : Kind[c] = "claim"}

\* Does call c write, given these rows?  (An insert of an existing id throws, an
\* update or a removal of an absent row and a refused change return.)
Writes(c, rows) ==
  LET row == rows[Target[c]]
  IN CASE Kind[c] = "insert" -> row = {}
       [] Kind[c] = "update" -> row # {}
       [] Kind[c] = "claim"  -> row # {} /\ row \cap Claims = {}
       [] Kind[c] = "remove" -> row # {}

\* The rows call c makes of these.
Apply(c, rows) ==
  [rows EXCEPT ![Target[c]] = IF Kind[c] = "remove" THEN {} ELSE @ \cup {c}]
=============================================================================
