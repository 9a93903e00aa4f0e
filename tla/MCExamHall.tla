----------------------------- MODULE MCExamHall -----------------------------
(* ExamHall on small papers, for TLC. *)
EXTENDS ExamHall, TLC

OpenThenAuto == [q \in 0..1 |-> IF q = 0 THEN "open" ELSE "auto"]
OneOpen == [q \in {0} |-> "open"]
OneAuto == [q \in {0} |-> "auto"]

Interchangeable == Permutations(Instances)
=============================================================================
