----------------------------- MODULE Accounts -----------------------------
(***************************************************************************)
(* One account and its sessions (api/handlers/auth.mjs, mfa-service.mjs,   *)
(* recovery-service.mjs, the account routes of handlers/admin/people.mjs,  *)
(* resolveAuth of app.mjs).  A session is good while it carries the        *)
(* generation of the account; whatever should end the other sessions gives *)
(* the account a new one.  Requests for an account wait for each other in  *)
(* their instance only (withLock "identity:"); across instances the        *)
(* account row is changed conditionally (changeRow), or not at all         *)
(* conditionally where an administrator changes it.  The account is not    *)
(* the administrator's own.                                                *)
(*                                                                         *)
(* Generations, passwords and secrets are numbers from one counter, for    *)
(* what the code draws at random.                                          *)
(***************************************************************************)
EXTENDS Naturals, FiniteSets

CONSTANTS
  Servers,       \* instances
  Clients,       \* requests under way at a time
  ServerOf,      \* ServerOf[c]: the instance that serves request c
  MaxSessions,   \* MAX_SESSIONS_PER_USER
  MaxDrawn,      \* bound: random values drawn
  MaxIssued,     \* bound: sessions issued
  MaxCounter     \* bound: the last time window of one-time codes

ASSUME AccountAssumption ==
  /\ ServerOf \in [Clients -> Servers]
  /\ MaxSessions \in Nat \ {0} /\ MaxDrawn \in Nat /\ MaxIssued \in Nat /\ MaxCounter \in Nat

VARIABLES
  user,       \* the row of the account
  sessions,   \* the rows of its sessions and recovery links
  request,    \* request[c]: what request c is doing
  drawn,      \* the last random value drawn
  issued,     \* the id of the last session issued
  expired,    \* recovery links whose fifteen minutes are over
  accepted,   \* history: <<secret, code>> of the codes that were accepted
  reused,     \* history: a code was accepted twice
  recovered,  \* history: the links that changed the password
  rerecovered \* history: a link did so twice

accountVars == <<user, sessions, request, drawn, issued, expired, accepted, reused, recovered,
                 rerecovered>>

NoMfa == [stage |-> "off", secret |-> 0, last |-> 0, backup |-> FALSE]
NewUser == [active |-> TRUE, password |-> 0, gen |-> 0, mfa |-> NoMfa]
\* History: factor, the secret whose code opened the session or was enabled in it;
\* revoked, the account got a new generation since.
NoSession == [id |-> 0, kind |-> "login", gen |-> 0, factor |-> 0, revoked |-> FALSE]
Quiet == [step |-> "idle", kind |-> "login", user |-> NewUser, own |-> 0, new |-> 0, code |-> 0,
          factor |-> 0]

AccountInit ==
  /\ user = NewUser
  /\ sessions = {} /\ issued = 0 /\ drawn = 0
  /\ request = [c \in Clients |-> Quiet]
  /\ expired = {} /\ accepted = {} /\ reused = FALSE /\ recovered = {} /\ rerecovered = FALSE

history == <<recovered, rerecovered>>

\* resolveAuth.
Live(s) == s.kind = "login" /\ user.active /\ s.gen = user.gen

Serves(c, r) == request' = [request EXCEPT ![c] = r]
\* The identity lock: a sign-in takes it when the password was verified.
Holds(c) == request[c].step \notin {"idle", "verified", "enter"}
Unlocked(c) == \A x \in Clients \ {c} : ServerOf[x] = ServerOf[c] => ~Holds(x)

OwnKinds == {"password", "setup", "enable", "disable"}
AdminKinds == {"link", "reset", "deactivate", "activate"}

----------------------------------------------------------------------------
(* A request comes in *)

\* Sign-in: the password presented is right by the row read first.
SignIn(c) ==
  /\ request[c].step = "idle" /\ user.active
  /\ Serves(c, [Quiet EXCEPT !.step = "verified", !.user.password = user.password])
  /\ UNCHANGED <<user, sessions, drawn, issued, expired, accepted, reused, history>>

\* A request of the owner with session s, or an administrator's (NoSession).
Enter(c, kind, s) ==
  /\ request[c].step = "idle"
  /\ kind \in AdminKinds \/ Live(s)
  /\ Serves(c, [Quiet EXCEPT !.step = "enter", !.kind = kind, !.own = s.id, !.user.gen = user.gen])
  /\ UNCHANGED <<user, sessions, drawn, issued, expired, accepted, reused, history>>

\* A recovery link is presented, found by its digest.
Present(c, s) ==
  /\ request[c].step = "idle" /\ s.kind = "recovery" /\ s.id \notin expired
  /\ Serves(c, [Quiet EXCEPT !.step = "enter", !.kind = "recover", !.own = s.id, !.user.gen = s.gen])
  /\ UNCHANGED <<user, sessions, drawn, issued, expired, accepted, reused, history>>

\* What the row must be, read again under the lock, for request r to go on.
Admits(r, u) ==
  CASE r.kind = "login" -> u.active /\ u.password = r.user.password
    [] r.kind = "setup" -> u.active /\ u.gen = r.user.gen /\ u.mfa.stage # "on"
    [] r.kind = "enable" -> u.active /\ u.gen = r.user.gen /\ u.mfa.stage = "pending"
    [] r.kind \in {"password", "disable", "recover"} -> u.active /\ u.gen = r.user.gen
    [] r.kind = "link" -> u.active
    [] OTHER -> TRUE

\* What comes next: the one-time code; the session of the request, which gets the new
\* generation before the account does; or the row of the account.
NextStep(r, u) ==
  IF r.kind \in {"login", "disable"} /\ u.mfa.stage = "on" THEN "code"
  ELSE CASE r.kind = "login" -> "list"
         [] r.kind \in {"password", "enable", "disable"} -> "session"
         [] OTHER -> "commit"

ReadAccount(c) ==
  LET r == request[c] IN
  /\ r.step \in {"verified", "enter"} /\ Unlocked(c)
  /\ Serves(c, IF Admits(r, user)
               THEN [r EXCEPT !.step = NextStep(r, user), !.user = IF r.kind \in AdminKinds THEN [NewUser EXCEPT !.active = user.active] ELSE user]
               ELSE Quiet)
  /\ UNCHANGED <<user, sessions, drawn, issued, expired, accepted, reused, history>>

----------------------------------------------------------------------------
(* The second factor *)

\* A code of a time window later than the last one used, or (0) the backup code.
Matches(m, code) == IF code = 0 THEN m.backup ELSE code > m.last
Spent(m, code) == IF code = 0 THEN [m EXCEPT !.backup = FALSE] ELSE [m EXCEPT !.last = code]

\* Faulty variant: the row is not asked again whether the code is still good.
FaultyTakesCode(r, u, code) == u.active /\ u.mfa.stage = "on" /\ u.mfa.secret = r.user.mfa.secret

\* The decision of consumeMfa, on the row as it is when it is written.
TakesCode(r, u, code) ==
  /\ u.active /\ u.mfa.stage = "on"
  /\ u.password = r.user.password /\ u.gen = r.user.gen /\ u.mfa.secret = r.user.mfa.secret
  /\ Matches(u.mfa, code)

Accept(key) == accepted' = accepted \cup {key} /\ reused' = (reused \/ key \in accepted)

\* The code is the client's; which one shows when it is looked at.
UseCode(c, code) ==
  LET r == request[c] IN
  /\ r.step = "code"
  /\ IF Matches(r.user.mfa, code) /\ TakesCode(r, user, code)
     THEN /\ user' = [user EXCEPT !.mfa = Spent(@, code)]
          /\ Accept(<<r.user.mfa.secret, code>>)
          /\ Serves(c, [r EXCEPT !.step = IF r.kind = "login" THEN "list" ELSE "session",
                                 !.factor = user.mfa.secret])
     ELSE Serves(c, Quiet) /\ UNCHANGED <<user, accepted, reused>>
  /\ UNCHANGED <<sessions, drawn, issued, expired, history>>

----------------------------------------------------------------------------
(* Sign-in *)

Logins == {s \in sessions : s.kind = "login"}
Newer(s) == {t \in Logins : t.id > s.id}

\* The oldest sessions beyond MAX_SESSIONS_PER_USER - 1 are removed (a failure is swallowed).
OverCap(s) == Cardinality(Newer(s)) >= MaxSessions - 1

CapSessions(c) ==
  /\ request[c].step = "list"
  /\ \E gone \in SUBSET {s \in Logins : OverCap(s)} : sessions' = sessions \ gone
  /\ Serves(c, [request[c] EXCEPT !.step = "issue", !.user.mfa = NoMfa, !.user.password = 0])
  /\ UNCHANGED <<user, drawn, issued, expired, accepted, reused, history>>

\* Faulty variant: the generation is read again when the session is written.
FaultyGenerationOf(r) == user.gen

\* The session carries the generation that was read with the password.
GenerationOf(r) == r.user.gen

IssueSession(c) ==
  LET r == request[c] IN
  /\ r.step = "issue" /\ issued < MaxIssued
  /\ issued' = issued + 1
  /\ sessions' = sessions \cup {[NoSession EXCEPT !.id = issued', !.gen = GenerationOf(r), !.factor = r.factor]}
  /\ Serves(c, Quiet)
  /\ UNCHANGED <<user, drawn, expired, accepted, reused, history>>

----------------------------------------------------------------------------
(* Changes of the account *)

\* The session of the request is moved to the generation the account is about to get.
MoveSession(c, code) ==
  LET r == request[c] IN
  /\ r.step = "session" /\ drawn < MaxDrawn
  /\ drawn' = drawn + 1
  /\ (r.kind = "enable") = (code # 0)
  /\ sessions' = {IF s.id = r.own THEN [s EXCEPT !.gen = drawn'] ELSE s : s \in sessions}
  /\ Serves(c, [r EXCEPT !.step = "commit", !.new = drawn', !.code = code])
  /\ UNCHANGED <<user, issued, expired, accepted, reused, history>>

\* Faulty variant: the generation is not asked again.
FaultySameGeneration(r, u) == TRUE

SameGeneration(r, u) == u.gen = r.user.gen

\* A secret that is pending is not compared.
SecretOf(m) == IF m.stage = "on" THEN m.secret ELSE 0

\* The condition of the write; an administrator's change has none.
Decides(r, u) ==
  \/ r.kind \in AdminKinds
  \/ /\ u.active /\ SameGeneration(r, u)
     /\ CASE r.kind = "setup" -> u.password = r.user.password /\ u.mfa.stage # "on"
          [] r.kind = "enable" -> u.password = r.user.password /\ u.mfa = r.user.mfa
          [] r.kind = "disable" -> u.password = r.user.password /\ SecretOf(u.mfa) = SecretOf(r.user.mfa)
          [] r.kind = "recover" -> r.own \notin expired
          [] OTHER -> u.password = r.user.password

Patched(r, u) ==
  CASE r.kind \in {"password", "recover", "reset"} -> [u EXCEPT !.password = r.new, !.gen = r.new]
    [] r.kind = "setup" -> [u EXCEPT !.mfa = [NoMfa EXCEPT !.stage = "pending", !.secret = r.new]]
    [] r.kind = "enable" ->
         [u EXCEPT !.gen = r.new,
                   !.mfa = [stage |-> "on", secret |-> r.user.mfa.secret, last |-> r.code, backup |-> TRUE]]
    [] r.kind = "disable" -> [u EXCEPT !.gen = r.new, !.mfa = NoMfa]
    [] r.kind = "link" -> [u EXCEPT !.gen = r.new]
    [] r.kind = "deactivate" -> [u EXCEPT !.active = FALSE, !.gen = IF r.user.active THEN r.new ELSE @]
    [] r.kind = "activate" -> [u EXCEPT !.active = TRUE]

\* The generation that was drawn, or one drawn now.
Drawing(r) == [r EXCEPT !.new = IF @ = 0 THEN drawn + 1 ELSE @]

\* History: the sessions as account u leaves them, written by request r.
Marked(s, r, u) ==
  [s EXCEPT !.revoked = @ \/ (u.gen # user.gen /\ s.gen # u.gen),
            !.factor = IF r.kind = "enable" /\ s.gen = u.gen THEN u.mfa.secret ELSE @]

\* What the request still has to do: the row of its link, or the other sessions.
Remaining(r) ==
  CASE r.kind = "link" -> [Quiet EXCEPT !.step = "link", !.new = r.new]
    [] r.kind \in {"password", "recover", "reset"} \/ (r.kind = "deactivate" /\ r.user.active) ->
         [Quiet EXCEPT !.step = "clean", !.kind = r.kind, !.own = r.own]
    [] OTHER -> Quiet

Commit(c) ==
  LET r == Drawing(request[c])
      u == Patched(r, user)
  IN
  /\ request[c].step = "commit" /\ (u # user => r.new <= MaxDrawn)
  /\ drawn' = IF Decides(r, user) /\ u # user /\ r.new > drawn THEN r.new ELSE drawn
  /\ IF Decides(r, user)
     THEN /\ user' = u
          /\ sessions' = {Marked(s, r, u) : s \in sessions}
          /\ recovered' = IF r.kind = "recover" THEN recovered \cup {r.own} ELSE recovered
          /\ rerecovered' = (rerecovered \/ (r.kind = "recover" /\ r.own \in recovered))
          /\ IF r.kind = "enable" THEN Accept(<<r.user.mfa.secret, r.code>>) ELSE UNCHANGED <<accepted, reused>>
          /\ Serves(c, Remaining(r))
     ELSE Serves(c, Quiet) /\ UNCHANGED <<user, sessions, accepted, reused, history>>
  /\ UNCHANGED <<issued, expired>>

\* issueRecoveryLink: the link carries the new generation.
IssueLink(c) ==
  /\ request[c].step = "link" /\ issued < MaxIssued
  /\ issued' = issued + 1
  /\ sessions' = sessions \cup {[NoSession EXCEPT !.id = issued', !.kind = "recovery", !.gen = request[c].new]}
  /\ Serves(c, Quiet)
  /\ UNCHANGED <<user, drawn, expired, accepted, reused, history>>

\* The other sessions are removed, as far as that succeeds.
Clean(c) ==
  LET r == request[c]
      others == {s \in sessions : s.id # r.own \/ r.kind = "recover"}
  IN
  /\ r.step = "clean"
  /\ \E gone \in SUBSET others : sessions' = sessions \ gone
  /\ Serves(c, Quiet)
  /\ UNCHANGED <<user, drawn, issued, expired, accepted, reused, history>>

\* Sign-out, or resolveAuth meets a session past its time.
EndSession(s) ==
  /\ s.kind = "login"
  /\ sessions' = sessions \ {s}
  /\ UNCHANGED <<user, request, drawn, issued, expired, accepted, reused, history>>

LinkExpires(s) ==
  /\ s.kind = "recovery" /\ s.id \notin expired
  /\ expired' = expired \cup {s.id}
  /\ UNCHANGED <<user, sessions, request, drawn, issued, accepted, reused, history>>

\* A storage call fails or the instance dies; what was written stays.
RequestFails(c) ==
  /\ request[c].step # "idle"
  /\ Serves(c, Quiet)
  /\ UNCHANGED <<user, sessions, drawn, issued, expired, accepted, reused, history>>

AccountNext ==
  \/ \E c \in Clients :
       \/ SignIn(c)
       \/ \E kind \in OwnKinds, s \in Logins : Enter(c, kind, s)
       \/ \E kind \in AdminKinds : Enter(c, kind, NoSession)
       \/ \E code \in 0..MaxCounter : UseCode(c, code) \/ MoveSession(c, code)
       \/ \E s \in sessions : Present(c, s)
       \/ ReadAccount(c) \/ CapSessions(c) \/ IssueSession(c)
       \/ Commit(c) \/ IssueLink(c) \/ Clean(c) \/ RequestFails(c)
  \/ \E s \in sessions : EndSession(s) \/ LinkExpires(s)

AccountSpec == AccountInit /\ [][AccountNext]_accountVars

----------------------------------------------------------------------------
(* Properties *)

\* A one-time code or backup code lets in, enables or disables once, and a recovery link
\* changes the password once, on whatever instances and however often they are sent
\* (mfa-service.mjs:5-24, recovery-service.mjs:20-42).
SecretsWorkOnce == ~reused /\ ~rerecovered

\* Once the account got a new generation, no session there was works again, removed
\* or not (people.mjs:638-646, auth.mjs:318-334).
RevokedStaysDead ==
  \A s \in sessions : s.revoked => ~Live(s)

\* While the second factor is on, a session that works was opened with a code of it,
\* or is the one that enabled it (auth.mjs:239-268, mfa-service.mjs:36-58).
SecondFactorHolds ==
  \A s \in sessions :
    Live(s) /\ user.mfa.stage = "on" => s.factor = user.mfa.secret

=============================================================================
