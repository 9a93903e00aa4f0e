---------------------------- MODULE AnswerSheet ----------------------------
(***************************************************************************)
(* What the exam hall promises a candidate and an assessor: one sheet per  *)
(* paper, filled in strictly in order.  The answer of the question under   *)
(* the cursor is sealed exactly once, with an answer or with a blank; the  *)
(* cursor moves on by one, and only past a sealed question; a sealed       *)
(* answer never changes again.  Requests, retries, function instances,     *)
(* clocks and the storage layout do not appear here: ExamHall implements   *)
(* this module.                                                            *)
(***************************************************************************)
EXTENDS Integers

CONSTANTS
  N,          \* number of questions of the paper, numbered 0..N-1
  Answers,    \* the answers a candidate may give
  Blank,      \* the answer recorded for a question left or timed out
  Unsealed    \* the mark of a question not yet sealed

VARIABLES
  sheet,      \* what is sealed for each question
  cursor      \* the question being served; N when the walk is complete

vars == <<sheet, cursor>>

Init ==
  /\ sheet = [q \in 0..(N-1) |-> Unsealed]
  /\ cursor = 0

Seal(answer) ==
  /\ cursor < N
  /\ sheet[cursor] = Unsealed
  /\ sheet' = [sheet EXCEPT ![cursor] = answer]
  /\ UNCHANGED cursor

MoveOn ==
  /\ cursor < N
  /\ sheet[cursor] # Unsealed
  /\ cursor' = cursor + 1
  /\ UNCHANGED sheet

Next == MoveOn \/ \E answer \in Answers \cup {Blank} : Seal(answer)

Spec == Init /\ [][Next]_vars
=============================================================================
