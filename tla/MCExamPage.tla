------------------------------ MODULE MCExamPage ------------------------------
(* ExamPage on a paper of one spoken and one choice question, for TLC. *)
EXTENDS ExamPage

SpokenThenChoice == <<"open", "choice">>
=============================================================================
