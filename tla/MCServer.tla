------------------------------ MODULE MCServer ------------------------------
(* Mechanisms of one server that share no state: a behaviour picks one of them *)
(* and the others stay where they are.  Three are of the storage that BlobTable *)
(* leaves out, one is the accounts.                                             *)
EXTENDS ShardMove, DetachedColumns, FileStore, Accounts, TLC

VARIABLE mechanism

MCHostOf == [w \in Workers |-> CHOOSE h \in Hosts : TRUE]
MCServerOf == [c \in Clients |-> c]

\* Requests are interchangeable, and so are clients with the instance that serves them.
\* A behaviour moves one mechanism only: swapping both pairs at once is enough.
MCSymmetry ==
  {f \in Permutations(Callers \cup Clients) :
     /\ \A x \in Callers : f[x] \in Callers
     /\ (\A x \in DOMAIN f : f[x] = x) \/ (\A x \in DOMAIN f : f[x] # x)}

ServerInit ==
  /\ mechanism \in {"shards", "columns", "file", "accounts"}
  /\ ShardInit /\ ColumnInit /\ FileInit /\ AccountInit
  /\ mechanism # "shards" => old = NoRows

ServerNext ==
  /\ UNCHANGED mechanism
  /\ \/ mechanism = "shards" /\ ShardNext /\ UNCHANGED <<columnVars, fileVars, accountVars>>
     \/ mechanism = "columns" /\ ColumnNext /\ UNCHANGED <<shardVars, fileVars, accountVars>>
     \/ mechanism = "file" /\ FileNext /\ UNCHANGED <<shardVars, columnVars, accountVars>>
     \/ mechanism = "accounts" /\ AccountNext /\ UNCHANGED <<shardVars, columnVars, fileVars>>

ServerSpec == ServerInit /\ [][ServerNext]_<<mechanism, shardVars, columnVars, fileVars, accountVars>>
=============================================================================
