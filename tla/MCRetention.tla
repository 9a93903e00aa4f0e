---------------------------- MODULE MCRetention ----------------------------
(* A paper with an answer in words and a choice, on one server. *)
EXTENDS Retention

MCQuestions == {"open", "choice"}
MCOpenQuestions == {"open"}
MCPolicies == [days : {1}, scope : {"all", "open"}, sheets : BOOLEAN, clips : BOOLEAN]
MCProcessOf == [j \in Jobs |-> "server"]
=============================================================================
