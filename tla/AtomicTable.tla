---------------------------- MODULE AtomicTable ----------------------------
(***************************************************************************)
(* What the store promises its callers: each call takes effect at one      *)
(* instant, entirely or not at all, and its reply tells the truth.  Only a *)
(* call that failed (a lost response, a dead function instance) leaves its *)
(* caller in doubt: it has taken effect, will still do so, or never will.  *)
(***************************************************************************)
EXTENDS TableRows

VARIABLES
  table,     \* the rows
  effect,    \* effect[c]: has call c taken effect?
  reply      \* reply[c]: "none" before the call, "waiting" during it

vars == <<table, effect, reply>>

Init ==
  /\ table = EmptyTable
  /\ effect = [c \in Calls |-> FALSE]
  /\ reply = [c \in Calls |-> "none"]

Invoke(c) ==
  /\ reply[c] = "none"
  /\ reply' = [reply EXCEPT ![c] = "waiting"]
  /\ UNCHANGED <<table, effect>>

TakeEffect(c) ==
  /\ reply[c] \in {"waiting", "failed"} /\ ~effect[c]
  /\ Writes(c, table)
  /\ table' = Apply(c, table)
  /\ effect' = [effect EXCEPT ![c] = TRUE]
  /\ UNCHANGED reply

Confirm(c) ==
  /\ reply[c] = "waiting" /\ effect[c]
  /\ reply' = [reply EXCEPT ![c] = "ok"]
  /\ UNCHANGED <<table, effect>>

Refuse(c) ==
  /\ reply[c] = "waiting" /\ ~effect[c] /\ ~Writes(c, table)
  /\ reply' = [reply EXCEPT ![c] = "refused"]
  /\ UNCHANGED <<table, effect>>

GiveUp(c) ==
  /\ reply[c] = "waiting" /\ ~effect[c]
  /\ reply' = [reply EXCEPT ![c] = "conflict"]
  /\ UNCHANGED <<table, effect>>

\* Calls fail together when they wait in the same function instance.
Fail(cs) ==
  /\ \A c \in cs : reply[c] = "waiting"
  /\ reply' = [c \in Calls |-> IF c \in cs THEN "failed" ELSE reply[c]]
  /\ UNCHANGED <<table, effect>>

Next ==
  \/ \E c \in Calls : Invoke(c) \/ TakeEffect(c) \/ Confirm(c) \/ Refuse(c) \/ GiveUp(c)
  \/ \E cs \in SUBSET Calls : Fail(cs)

Spec == Init /\ [][Next]_vars
=============================================================================
