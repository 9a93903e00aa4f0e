---------------------------- MODULE AccountsProofs ----------------------------
(***************************************************************************)
(* Codes and links work once, revoked sessions stay dead and the second    *)
(* factor holds, for any number of requests and instances.  The heart of   *)
(* it is that a generation is never used twice: one that a request has     *)
(* drawn and not yet given to the account is known to nobody but its own   *)
(* session.                                                                *)
(***************************************************************************)
EXTENDS Accounts, TLAPS

Kinds == {"login", "recover"} \cup OwnKinds \cup AdminKinds
Steps == {"idle", "verified", "enter", "code", "list", "issue", "session", "commit", "link", "clean"}
Mfas == [stage : {"off", "pending", "on"}, secret : Nat, last : Nat, backup : BOOLEAN]
Users == [active : BOOLEAN, password : Nat, gen : Nat, mfa : Mfas]
SessionRows == [id : Nat, kind : {"login", "recovery"}, gen : Nat, factor : Nat, revoked : BOOLEAN]
Requests == [step : Steps, kind : Kinds, user : Users, own : Nat, new : Nat, code : Nat, factor : Nat]

AccountTypeOK ==
  /\ user \in Users
  /\ sessions \subseteq SessionRows
  /\ request \in [Clients -> Requests]
  /\ drawn \in Nat /\ issued \in Nat
  /\ expired \subseteq Nat /\ recovered \subseteq Nat
  /\ accepted \subseteq Nat \X Nat

Moving == {"password", "enable", "disable"}
Owning == {"enter", "code", "session", "commit"}

\* What a request is, wherever it has come to.
Shape(r) ==
  /\ r.step \notin {"commit", "link"} => r.new = 0
  /\ r.step = "commit" => r.kind # "login" /\ (r.new # 0 => r.kind \in Moving)
  /\ r.step \in {"verified", "list", "issue"} => r.kind = "login"
  /\ r.step = "code" => r.kind \in {"login", "disable"}
  /\ r.step = "session" => r.kind \in Moving
  /\ r.kind = "enable" /\ r.step \in {"session", "commit"} =>
       r.user.mfa.stage = "pending" /\ (r.step = "commit" => r.code # 0)

\* What a request may rely on as long as the account has the generation it read.
Held(r) ==
  /\ Shape(r)
  /\ r.user.gen <= drawn /\ r.new <= drawn /\ r.own <= issued
  /\ r.kind \in OwnKinds /\ r.step \in Owning =>
       \A s \in sessions : s.id = r.own =>
         /\ s.kind = "login"
         /\ r.user.gen = user.gen =>
              ~s.revoked /\ (user.mfa.stage = "on" => s.factor = user.mfa.secret)
  /\ r.step \in {"list", "issue"} /\ r.user.gen = user.gen /\ user.mfa.stage = "on" =>
       r.factor = user.mfa.secret
  /\ r.kind = "recover" /\ r.step \in Owning /\ r.own \in recovered => r.user.gen # user.gen

AllHeld == \A c \in Clients : Held(request[c])

\* The request has drawn the next generation and not yet given it to the account.
Pending(c) == request[c].step = "commit" /\ request[c].new # 0

Fresh ==
  \A c \in Clients : Pending(c) =>
    /\ request[c].new # user.gen
    /\ \A x \in Clients : request[x].user.gen # request[c].new
    /\ \A x \in Clients : request[x].new = request[c].new => x = c
    /\ \A s \in sessions : s.gen = request[c].new => s.id = request[c].own /\ s.kind = "login"

SessionsSound ==
  /\ user.gen <= drawn
  /\ \A i \in recovered : i <= issued
  /\ \A s, t \in sessions : s.id = t.id => s = t
  /\ \A s \in sessions :
       /\ s.gen <= drawn /\ s.id <= issued
       /\ s.revoked => s.gen # user.gen
       /\ s.kind = "login" /\ s.gen = user.gen /\ user.mfa.stage = "on" => s.factor = user.mfa.secret
       /\ s.kind = "recovery" /\ s.id \in recovered => s.gen # user.gen

CodesSound ==
  /\ user.mfa.secret <= drawn
  /\ \A k \in accepted :
       /\ k[1] <= drawn
       /\ user.mfa.stage = "on" /\ k[1] = user.mfa.secret => ~Matches(user.mfa, k[2])
       /\ user.mfa.stage = "pending" => k[1] # user.mfa.secret
  /\ SecretsWorkOnce

AccountInv == AccountTypeOK /\ AllHeld /\ Fresh /\ SessionsSound /\ CodesSound

USE DEF OwnKinds, AdminKinds, Kinds, Moving, Owning

LEMMA QuietType ==
  /\ Quiet \in Requests /\ NewUser \in Users /\ NoMfa \in Mfas
  /\ Quiet.step = "idle" /\ Quiet.kind = "login" /\ Quiet.new = 0 /\ Quiet.own = 0
  /\ Quiet.user.gen = 0
  BY DEF Quiet, NewUser, NoMfa, Requests, Users, Mfas, Steps

LEMMA InitAccountInv == AccountInit => AccountInv
<1> SUFFICES ASSUME AccountInit PROVE AccountInv
  OBVIOUS
<1>1. AccountTypeOK
  BY QuietType DEF AccountInit, AccountTypeOK
<1>2. AllHeld
  BY QuietType DEF AccountInit, AllHeld, Held, Shape
<1>3. Fresh
  BY QuietType DEF AccountInit, Fresh, Pending
<1>4. SessionsSound /\ CodesSound
  BY DEF AccountInit, SessionsSound, CodesSound, SecretsWorkOnce, NewUser, NoMfa
<1> QED
  BY <1>1, <1>2, <1>3, <1>4 DEF AccountInv

(***************************************************************************)
(* A step that leaves the account alone, may remove sessions, and after    *)
(* which every request is as before or has drawn nothing.                  *)
(***************************************************************************)
LEMMA QuietStep ==
  ASSUME AccountInv, sessions' \subseteq sessions,
         UNCHANGED <<user, drawn, issued, accepted, reused, history>>,
         expired' \subseteq Nat, request' \in [Clients -> Requests],
         \A x \in Clients :
           \/ request'[x] = request[x]
           \/ /\ Held(request'[x]) /\ request'[x].new = 0
              /\ \A y \in Clients : Pending(y) => request'[x].user.gen # request[y].new
  PROVE  AccountInv'
<1>0. UNCHANGED <<user, drawn, issued, accepted, reused, recovered, rerecovered>>
  BY DEF history
<1>1. AccountTypeOK'
  BY <1>0 DEF AccountInv, AccountTypeOK
<1>2. AllHeld'
  <2> SUFFICES ASSUME NEW x \in Clients PROVE Held(request[x])'
    BY DEF AllHeld
  <2>1. Held(request'[x])
    BY DEF AccountInv, AllHeld
  <2> QED
    BY <1>0, <2>1 DEF Held, Shape
<1>3. Fresh'
  <2> SUFFICES ASSUME NEW c \in Clients, Pending(c)'
               PROVE  /\ request'[c].new # user'.gen
                      /\ \A x \in Clients : request'[x].user.gen # request'[c].new
                      /\ \A x \in Clients : request'[x].new = request'[c].new => x = c
                      /\ \A s \in sessions' : s.gen = request'[c].new => s.id = request'[c].own /\ s.kind = "login"
    BY DEF Fresh
  <2>1. request'[c] = request[c] /\ Pending(c) /\ request[c].new # 0
    BY DEF Pending
  <2> QED
    BY <1>0, <2>1 DEF AccountInv, Fresh
<1>4. SessionsSound' /\ CodesSound'
  BY <1>0 DEF AccountInv, SessionsSound, CodesSound, SecretsWorkOnce, Matches
<1> QED
  BY <1>1, <1>2, <1>3, <1>4 DEF AccountInv

\* The same, for a step of one request.
LEMMA OwnStep ==
  ASSUME AccountInv, NEW c \in Clients, NEW r \in Requests, Serves(c, r),
         sessions' \subseteq sessions,
         UNCHANGED <<user, drawn, issued, expired, accepted, reused, history>>,
         Held(r), r.new = 0, \A y \in Clients : Pending(y) => r.user.gen # request[y].new
  PROVE  AccountInv'
<1>1. \A x \in Clients : request'[x] = IF x = c THEN r ELSE request[x]
  BY DEF Serves, AccountInv, AccountTypeOK
<1>2. request' \in [Clients -> Requests] /\ expired' \subseteq Nat
  BY DEF Serves, AccountInv, AccountTypeOK
<1>3. \A x \in Clients :
        \/ request'[x] = request[x]
        \/ /\ Held(request'[x]) /\ request'[x].new = 0
           /\ \A y \in Clients : Pending(y) => request'[x].user.gen # request[y].new
  BY <1>1
<1> QED
  BY <1>2, <1>3, QuietStep

LEMMA QuietHeld ==
  ASSUME AccountInv
  PROVE  Held(Quiet) /\ \A y \in Clients : Pending(y) => Quiet.user.gen # request[y].new
  BY QuietType DEF AccountInv, AccountTypeOK, Held, Shape, Pending


LEMMA RequestType ==
  ASSUME AccountInv, NEW c \in Clients
  PROVE  /\ request[c] \in Requests /\ Held(request[c]) /\ Shape(request[c])
         /\ \A y \in Clients : Pending(y) => request[c].user.gen # request[y].new
  BY DEF AccountInv, AccountTypeOK, AllHeld, Held, Fresh

LEMMA GivesUp ==
  ASSUME AccountInv, NEW c \in Clients, Serves(c, Quiet), sessions' \subseteq sessions,
         UNCHANGED <<user, drawn, issued, expired, accepted, reused, history>>
  PROVE  AccountInv'
  BY QuietType, QuietHeld, OwnStep

LEMMA SignInKeeps ==
  ASSUME AccountInv, NEW c \in Clients, SignIn(c)
  PROVE  AccountInv'
<1> DEFINE r == [Quiet EXCEPT !.step = "verified", !.user.password = user.password]
<1>1. user.password \in Nat
  BY DEF AccountInv, AccountTypeOK, Users
<1>2. /\ r \in Requests /\ r.step = "verified" /\ r.kind = "login" /\ r.new = 0 /\ r.own = 0
      /\ r.user.gen = 0
  BY <1>1 DEF Quiet, NewUser, NoMfa, Requests, Users, Mfas, Steps
<1>3. Serves(c, r) /\ sessions' \subseteq sessions
      /\ UNCHANGED <<user, drawn, issued, expired, accepted, reused, history>>
  BY DEF SignIn
<1> HIDE DEF r
<1>4. Held(r) /\ \A y \in Clients : Pending(y) => r.user.gen # request[y].new
  BY <1>2 DEF AccountInv, AccountTypeOK, Held, Shape, Pending
<1> QED
  BY <1>2, <1>3, <1>4, OwnStep

LEMMA EnterKeeps ==
  ASSUME AccountInv, NEW c \in Clients,
         NEW kind \in OwnKinds \cup AdminKinds, NEW s \in Logins \cup {NoSession},
         kind \in OwnKinds => s \in Logins, kind \in AdminKinds => s = NoSession,
         Enter(c, kind, s)
  PROVE  AccountInv'
<1> DEFINE r == [Quiet EXCEPT !.step = "enter", !.kind = kind, !.own = s.id, !.user.gen = user.gen]
<1>1. user.gen \in Nat /\ s.id \in Nat /\ s.id <= issued /\ user.gen <= drawn
  BY DEF AccountInv, AccountTypeOK, Users, Logins, SessionRows, NoSession, SessionsSound
<1>2. /\ r \in Requests /\ r.step = "enter" /\ r.kind = kind /\ r.new = 0 /\ r.own = s.id
      /\ r.user.gen = user.gen
  BY <1>1 DEF Quiet, NewUser, NoMfa, Requests, Users, Mfas, Steps
<1>3. Serves(c, r) /\ sessions' \subseteq sessions
      /\ UNCHANGED <<user, drawn, issued, expired, accepted, reused, history>>
  BY DEF Enter
<1> HIDE DEF r
<1>4. kind \in OwnKinds => s \in sessions /\ s.kind = "login" /\ s.gen = user.gen
  BY DEF Enter, Live, Logins
<1>5. kind \in OwnKinds => \A t \in sessions : t.id = r.own =>
        t.kind = "login" /\ ~t.revoked /\ (user.mfa.stage = "on" => t.factor = user.mfa.secret)
  BY <1>2, <1>4 DEF AccountInv, SessionsSound
<1>6. Held(r)
  <2>1. Shape(r)
    BY <1>2 DEF Shape
  <2>2. r.user.gen <= drawn /\ r.new <= drawn /\ r.own <= issued
    BY <1>1, <1>2 DEF AccountInv, AccountTypeOK
  <2> QED
    BY <1>2, <1>5, <2>1, <2>2 DEF Held
<1>7. \A y \in Clients : Pending(y) => r.user.gen # request[y].new
  BY <1>2 DEF AccountInv, Fresh
<1> QED
  BY <1>2, <1>3, <1>6, <1>7, OwnStep

LEMMA PresentKeeps ==
  ASSUME AccountInv, NEW c \in Clients, NEW s \in sessions, Present(c, s)
  PROVE  AccountInv'
<1> DEFINE r == [Quiet EXCEPT !.step = "enter", !.kind = "recover", !.own = s.id, !.user.gen = s.gen]
<1>1. s.gen \in Nat /\ s.id \in Nat /\ s.id <= issued /\ s.gen <= drawn
  BY DEF AccountInv, AccountTypeOK, SessionRows, SessionsSound
<1>2. /\ r \in Requests /\ r.step = "enter" /\ r.kind = "recover" /\ r.new = 0 /\ r.own = s.id
      /\ r.user.gen = s.gen
  BY <1>1 DEF Quiet, NewUser, NoMfa, Requests, Users, Mfas, Steps
<1>3. Serves(c, r) /\ sessions' \subseteq sessions /\ s.kind = "recovery"
      /\ UNCHANGED <<user, drawn, issued, expired, accepted, reused, history>>
  BY DEF Present
<1> HIDE DEF r
<1>4. Held(r)
  <2>1. Shape(r)
    BY <1>2 DEF Shape
  <2>2. r.user.gen <= drawn /\ r.new <= drawn /\ r.own <= issued
    BY <1>1, <1>2 DEF AccountInv, AccountTypeOK
  <2>3. r.own \in recovered => r.user.gen # user.gen
    BY <1>2, <1>3 DEF AccountInv, SessionsSound
  <2> QED
    BY <1>2, <2>1, <2>2, <2>3 DEF Held
<1>5. \A y \in Clients : Pending(y) => r.user.gen # request[y].new
  BY <1>2, <1>3 DEF AccountInv, Fresh
<1> QED
  BY <1>2, <1>3, <1>4, <1>5, OwnStep


\* What is read under the lock has the generation the request came with, or none.
LEMMA ReadAccountKeeps ==
  ASSUME AccountInv, NEW c \in Clients, ReadAccount(c)
  PROVE  AccountInv'
<1> DEFINE q == request[c]
           seen == IF q.kind \in AdminKinds THEN [NewUser EXCEPT !.active = user.active] ELSE user
           r == [q EXCEPT !.step = NextStep(q, user), !.user = seen]
<1>1. q \in Requests /\ Held(q) /\ Shape(q) /\ \A y \in Clients : Pending(y) => q.user.gen # request[y].new
  BY RequestType
<1>2. /\ q.step \in {"verified", "enter"} /\ sessions' \subseteq sessions
      /\ UNCHANGED <<user, drawn, issued, expired, accepted, reused, history>>
      /\ Serves(c, IF Admits(q, user) THEN r ELSE Quiet)
  BY DEF ReadAccount
<1>3. CASE ~Admits(q, user)
  BY <1>2, <1>3, GivesUp
<1>4. CASE Admits(q, user)
  <2>1. user \in Users /\ seen \in Users /\ NextStep(q, user) \in Steps
    BY <1>1 DEF AccountInv, AccountTypeOK, Users, NewUser, NoMfa, Mfas, NextStep, Steps
  <2>2. /\ r \in Requests /\ r.step = NextStep(q, user) /\ r.kind = q.kind /\ r.new = q.new
        /\ r.own = q.own /\ r.user = seen
    BY <1>1, <2>1 DEF Requests
  <2>3. q.kind \in AdminKinds => seen.gen = 0
    BY DEF NewUser
  <2>4. q.kind \notin AdminKinds => seen = user
    OBVIOUS
  <2>5. q.new = 0
    BY <1>1, <1>2 DEF Shape
  <2>6. q.kind \in OwnKinds \cup {"recover"} => q.user.gen = user.gen /\ q.step = "enter"
    BY <1>1, <1>2, <1>4 DEF Admits, Shape, Requests
  <2>7. q.kind = "enable" => user.mfa.stage = "pending"
    BY <1>4 DEF Admits
  <2> HIDE DEF r, seen
  <2>8. Shape(r)
    BY <2>2, <2>4, <2>5, <2>7, <1>1, <1>2 DEF Shape, NextStep, Requests
  <2>9. Held(r)
    <3>1. r.user.gen <= drawn /\ r.new <= drawn /\ r.own <= issued
      BY <1>1, <2>2, <2>3, <2>4 DEF Held, AccountInv, AccountTypeOK, SessionsSound
    <3>2. ASSUME r.kind \in OwnKinds, NEW s \in sessions, s.id = r.own
          PROVE  /\ s.kind = "login"
                 /\ ~s.revoked /\ (user.mfa.stage = "on" => s.factor = user.mfa.secret)
      BY <1>1, <2>2, <2>6, <3>2 DEF Held
    <3>3. r.step \in {"list", "issue"} => user.mfa.stage # "on"
      BY <2>2 DEF NextStep
    <3>4. r.kind = "recover" /\ r.own \in recovered => FALSE
      BY <1>1, <2>2, <2>6 DEF Held
    <3> QED
      BY <2>8, <3>1, <3>2, <3>3, <3>4 DEF Held
  <2>10. \A y \in Clients : Pending(y) => r.user.gen # request[y].new
    BY <2>2, <2>3, <2>4 DEF AccountInv, Fresh, Pending
  <2> QED
    BY <1>2, <1>4, <2>2, <2>5, <2>9, <2>10, OwnStep
<1> QED
  BY <1>3, <1>4

LEMMA CapSessionsKeeps ==
  ASSUME AccountInv, NEW c \in Clients, CapSessions(c)
  PROVE  AccountInv'
<1> DEFINE q == request[c]
           r == [q EXCEPT !.step = "issue", !.user.mfa = NoMfa, !.user.password = 0]
<1>1. q \in Requests /\ Held(q) /\ Shape(q) /\ \A y \in Clients : Pending(y) => q.user.gen # request[y].new
  BY RequestType
<1>2. q.step = "list" /\ sessions' \subseteq sessions /\ Serves(c, r)
      /\ UNCHANGED <<user, drawn, issued, expired, accepted, reused, history>>
  BY DEF CapSessions
<1>3. /\ r \in Requests /\ r.step = "issue" /\ r.kind = q.kind /\ r.new = q.new /\ r.own = q.own
      /\ r.user.gen = q.user.gen /\ r.factor = q.factor
  BY <1>1 DEF Requests, Users, Mfas, NoMfa, Steps
<1> HIDE DEF r
<1>4. Held(r) /\ r.new = 0
  BY <1>1, <1>2, <1>3 DEF Held, Shape
<1> QED
  BY <1>1, <1>2, <1>3, <1>4, OwnStep

LEMMA EndsKeep ==
  ASSUME AccountInv,
         \/ \E c \in Clients : Clean(c) \/ RequestFails(c)
         \/ \E s \in sessions : EndSession(s) \/ LinkExpires(s)
  PROVE  AccountInv'
<1>1. ASSUME NEW c \in Clients, Clean(c) \/ RequestFails(c)
      PROVE  AccountInv'
  <2>1. Serves(c, Quiet) /\ sessions' \subseteq sessions
        /\ UNCHANGED <<user, drawn, issued, expired, accepted, reused, history>>
    BY <1>1 DEF Clean, RequestFails
  <2> QED
    BY <2>1, GivesUp
<1>2. ASSUME NEW s \in sessions, EndSession(s) \/ LinkExpires(s)
      PROVE  AccountInv'
  <2>1. sessions' \subseteq sessions /\ request' = request
        /\ UNCHANGED <<user, drawn, issued, accepted, reused, history>>
    BY <1>2 DEF EndSession, LinkExpires
  <2>2. expired' \subseteq Nat /\ request' \in [Clients -> Requests]
    BY <1>2 DEF EndSession, LinkExpires, AccountInv, AccountTypeOK, SessionRows
  <2> QED
    BY <2>1, <2>2, QuietStep
<1> QED
  BY <1>1, <1>2

(***************************************************************************)
(* A code is accepted: the factor of the account stays what it is, with    *)
(* the code spent.                                                         *)
(***************************************************************************)
LEMMA UseCodeKeeps ==
  ASSUME AccountInv, NEW c \in Clients, NEW code \in Nat, UseCode(c, code)
  PROVE  AccountInv'
<1> DEFINE q == request[c]
           r == [q EXCEPT !.step = IF q.kind = "login" THEN "list" ELSE "session", !.factor = user.mfa.secret]
           m == Spent(user.mfa, code)
           key == <<q.user.mfa.secret, code>>
<1>1. q \in Requests /\ Held(q) /\ Shape(q) /\ \A y \in Clients : Pending(y) => q.user.gen # request[y].new
  BY RequestType
<1>2. q.step = "code" /\ UNCHANGED <<sessions, drawn, issued, expired, recovered, rerecovered>>
  BY DEF UseCode, history
<1>3. CASE ~(Matches(q.user.mfa, code) /\ TakesCode(q, user, code))
  BY <1>2, <1>3, GivesUp DEF UseCode, history
<1>4. CASE Matches(q.user.mfa, code) /\ TakesCode(q, user, code)
  <2>1. user' = [user EXCEPT !.mfa = m] /\ Accept(key) /\ Serves(c, r)
    BY <1>4 DEF UseCode
  <2>2. user \in Users /\ user.mfa \in Mfas /\ drawn \in Nat
    BY DEF AccountInv, AccountTypeOK, Users
  <2>3. m \in Mfas /\ m.stage = user.mfa.stage /\ m.secret = user.mfa.secret
    BY <2>2 DEF Spent, Mfas
  <2>4. user' \in Users /\ user'.gen = user.gen /\ user'.mfa = m
    BY <2>1, <2>2, <2>3 DEF Users
  <2>5. /\ r \in Requests /\ r.step = (IF q.kind = "login" THEN "list" ELSE "session")
        /\ r.kind = q.kind /\ r.new = q.new /\ r.own = q.own /\ r.user = q.user
        /\ r.factor = user.mfa.secret
    BY <1>1, <2>2 DEF Requests, Mfas, Steps
  <2>6. key \in Nat \X Nat /\ key[1] = user.mfa.secret /\ key[2] = code
    BY <1>1, <1>4 DEF Requests, Users, Mfas, TakesCode
  <2>7. user.mfa.stage = "on" /\ Matches(user.mfa, code)
    BY <1>4 DEF TakesCode
  <2>8. key \notin accepted
    BY <2>6, <2>7 DEF AccountInv, CodesSound
  <2>9. accepted' = accepted \cup {key} /\ ~reused'
    BY <2>1, <2>8 DEF Accept, AccountInv, CodesSound, SecretsWorkOnce
  <2>10. \A x \in Clients : request'[x] = IF x = c THEN r ELSE request[x]
    BY <2>1 DEF Serves, AccountInv, AccountTypeOK
  <2>11. request' \in [Clients -> Requests]
    BY <2>1, <2>5 DEF Serves, AccountInv, AccountTypeOK
  <2> HIDE DEF r, m, key
  <2>12. q.new = 0 /\ r.new = 0 /\ q.kind \in {"login", "disable"}
    BY <1>1, <1>2, <2>5 DEF Shape
  <2>13. AccountTypeOK'
    BY <1>2, <2>4, <2>6, <2>9, <2>11 DEF AccountInv, AccountTypeOK
  <2>14. AllHeld'
    <3> SUFFICES ASSUME NEW x \in Clients PROVE Held(request[x])'
      BY DEF AllHeld
    <3>1. CASE x # c
      BY <1>2, <2>3, <2>4, <2>10, <3>1, RequestType DEF Held
    <3>2. CASE x = c
      <4>1. Shape(r)
        BY <1>1, <2>5, <2>12 DEF Shape
      <4> QED
        BY <1>1, <1>2, <2>3, <2>4, <2>5, <2>10, <2>12, <3>2, <4>1 DEF Held
    <3> QED
      BY <3>1, <3>2
  <2>15. Fresh'
    BY <1>2, <2>4, <2>5, <2>10, <2>12 DEF AccountInv, Fresh, Pending
  <2>16. SessionsSound'
    BY <1>2, <2>3, <2>4 DEF AccountInv, SessionsSound
  <2>17. CodesSound'
    <3>1. ASSUME NEW k \in accepted' PROVE k[1] <= drawn /\ (k[1] = user.mfa.secret => ~Matches(m, k[2]))
      <4>1. CASE k = key
        BY <2>2, <2>6, <2>7, <4>1 DEF Matches, m, Spent, Mfas, AccountInv, CodesSound
      <4>2. CASE k \in accepted
        <5>1. k[2] \in Nat /\ k[1] <= drawn /\ (k[1] = user.mfa.secret => ~Matches(user.mfa, k[2]))
          BY <2>7, <4>2 DEF AccountInv, AccountTypeOK, CodesSound
        <5> QED
          BY <2>2, <2>7, <5>1 DEF Matches, m, Spent, Mfas
      <4> QED
        BY <2>9, <4>1, <4>2
    <3> QED
      BY <1>2, <2>3, <2>4, <2>7, <2>9, <3>1 DEF AccountInv, CodesSound, SecretsWorkOnce
  <2> QED
    BY <2>13, <2>14, <2>15, <2>16, <2>17 DEF AccountInv
<1> QED
  BY <1>3, <1>4


(***************************************************************************)
(* The session of a request moves to a generation nobody has.              *)
(***************************************************************************)
LEMMA MoveSessionKeeps ==
  ASSUME AccountInv, NEW c \in Clients, NEW code \in Nat, MoveSession(c, code)
  PROVE  AccountInv'
<1> DEFINE q == request[c]
           n == drawn + 1
           r == [q EXCEPT !.step = "commit", !.new = n, !.code = code]
           moved(s) == IF s.id = q.own THEN [s EXCEPT !.gen = n] ELSE s
<1>1. q \in Requests /\ Held(q) /\ Shape(q) /\ \A y \in Clients : Pending(y) => q.user.gen # request[y].new
  BY RequestType
<1>2. /\ q.step = "session" /\ drawn' = n /\ (q.kind = "enable" => code # 0)
      /\ sessions' = {moved(s) : s \in sessions} /\ Serves(c, r)
      /\ UNCHANGED <<user, issued, expired, accepted, reused, recovered, rerecovered>>
  BY DEF MoveSession, history
<1>3. drawn \in Nat /\ n \in Nat /\ n > drawn /\ user.gen \in Nat /\ user.gen <= drawn
  BY DEF AccountInv, AccountTypeOK, SessionsSound, Users
<1>4. /\ r \in Requests /\ r.step = "commit" /\ r.kind = q.kind /\ r.new = n /\ r.own = q.own
      /\ r.user = q.user /\ r.code = code /\ r.factor = q.factor
  BY <1>1, <1>3 DEF Requests, Steps
<1>5. \A x \in Clients : request'[x] = IF x = c THEN r ELSE request[x]
  BY <1>2 DEF Serves, AccountInv, AccountTypeOK
<1>6. request' \in [Clients -> Requests]
  BY <1>2, <1>4 DEF Serves, AccountInv, AccountTypeOK
<1>7. q.kind \in Moving /\ q.kind \in OwnKinds
  BY <1>1, <1>2 DEF Shape
<1>8. \A s \in sessions :
        /\ moved(s) \in SessionRows
        /\ moved(s).id = s.id /\ moved(s).kind = s.kind
        /\ moved(s).factor = s.factor /\ moved(s).revoked = s.revoked
        /\ moved(s).gen = IF s.id = q.own THEN n ELSE s.gen
  BY <1>3 DEF AccountInv, AccountTypeOK, SessionRows
<1>9. \A s \in sessions : s.id \in Nat /\ s.gen \in Nat /\ s.gen <= drawn
  BY DEF AccountInv, AccountTypeOK, SessionRows, SessionsSound
<1>10. \A t \in sessions' : \E s \in sessions : t = moved(s)
  BY <1>2
<1> HIDE DEF r, moved, n
<1>11. AccountTypeOK'
  BY <1>2, <1>3, <1>6, <1>8, <1>10 DEF AccountInv, AccountTypeOK
<1>12. AllHeld'
  <2> SUFFICES ASSUME NEW x \in Clients PROVE Held(request[x])'
    BY DEF AllHeld
  <2> DEFINE z == request'[x]
  <2>1. Shape(z)
    BY <1>1, <1>2, <1>4, <1>5, <1>7, RequestType DEF Shape
  <2>2. z.user.gen <= n /\ z.new <= n /\ z.own <= issued
    <3>1. request[x] \in Requests /\ Held(request[x])
      BY RequestType
    <3>2. request[x].user.gen \in Nat /\ request[x].new \in Nat
      BY <3>1 DEF Requests, Users
    <3>3. request[x].user.gen <= drawn /\ request[x].new <= drawn /\ request[x].own <= issued
      BY <3>1 DEF Held
    <3> QED
      BY <1>3, <1>4, <1>5, <3>2, <3>3
  <2>3. /\ z.kind = request[x].kind /\ z.own = request[x].own /\ z.user = request[x].user
        /\ z.factor = request[x].factor
        /\ (z.step \in Owning => request[x].step \in Owning)
        /\ (z.step \in {"list", "issue"} => request[x].step \in {"list", "issue"})
    BY <1>2, <1>4, <1>5
  <2>4. ASSUME z.kind \in OwnKinds, z.step \in Owning, NEW t \in sessions', t.id = z.own
        PROVE  /\ t.kind = "login"
               /\ z.user.gen = user'.gen =>
                    ~t.revoked /\ (user'.mfa.stage = "on" => t.factor = user'.mfa.secret)
    BY <1>2, <1>8, <1>10, <2>3, <2>4, RequestType DEF Held
  <2>5. /\ z.step \in {"list", "issue"} /\ z.user.gen = user'.gen /\ user'.mfa.stage = "on" =>
             z.factor = user'.mfa.secret
        /\ z.kind = "recover" /\ z.step \in Owning /\ z.own \in recovered' => z.user.gen # user'.gen
    BY <1>2, <2>3, RequestType DEF Held
  <2> QED
    BY <1>2, <2>1, <2>2, <2>4, <2>5 DEF Held, Shape
<1>13. Fresh'
  <2> SUFFICES ASSUME NEW y \in Clients, Pending(y)'
               PROVE  /\ request'[y].new # user'.gen
                      /\ \A x \in Clients : request'[x].user.gen # request'[y].new
                      /\ \A x \in Clients : request'[x].new = request'[y].new => x = y
                      /\ \A t \in sessions' : t.gen = request'[y].new => t.id = request'[y].own /\ t.kind = "login"
    BY DEF Fresh
  <2>1. \A x \in Clients : /\ request[x].user.gen \in Nat /\ request[x].new \in Nat
                           /\ request[x].user.gen <= drawn /\ request[x].new <= drawn
    BY RequestType DEF Requests, Users, Held
  <2>2. CASE y = c
    <3>1. \A t \in sessions' : t.gen = n => t.id = q.own /\ t.kind = "login"
      BY <1>1, <1>2, <1>3, <1>7, <1>8, <1>9, <1>10 DEF Held
    <3> QED
      BY <1>2, <1>3, <1>4, <1>5, <2>1, <2>2, <3>1
  <2>3. CASE y # c
    <3>1. Pending(y) /\ request'[y] = request[y]
      BY <1>5, <2>3 DEF Pending
    <3>2. \A t \in sessions' : t.gen = request[y].new => t.id = request[y].own /\ t.kind = "login"
      BY <1>3, <1>8, <1>10, <2>1, <3>1 DEF AccountInv, Fresh
    <3> QED
      BY <1>2, <1>3, <1>4, <1>5, <2>1, <2>3, <3>1, <3>2 DEF AccountInv, Fresh
  <2> QED
    BY <2>2, <2>3
<1>14. SessionsSound'
  <2>1. user.gen <= n
    BY <1>3
  <2>2. \A t \in sessions' :
           /\ t.gen <= n /\ t.id <= issued
           /\ t.revoked => t.gen # user.gen
           /\ t.kind = "login" /\ t.gen = user.gen /\ user.mfa.stage = "on" => t.factor = user.mfa.secret
           /\ t.kind = "recovery" /\ t.id \in recovered => t.gen # user.gen
    <3> SUFFICES ASSUME NEW s \in sessions
                 PROVE  LET t == moved(s) IN
                        /\ t.gen <= n /\ t.id <= issued
                        /\ t.revoked => t.gen # user.gen
                        /\ t.kind = "login" /\ t.gen = user.gen /\ user.mfa.stage = "on" => t.factor = user.mfa.secret
                        /\ t.kind = "recovery" /\ t.id \in recovered => t.gen # user.gen
      BY <1>10
    <3> QED
      BY <1>3, <1>8, <1>9 DEF AccountInv, SessionsSound
  <2>3. \A t, w \in sessions' : t.id = w.id => t = w
    BY <1>8, <1>10 DEF AccountInv, SessionsSound
  <2> QED
    BY <1>2, <2>1, <2>2, <2>3 DEF AccountInv, SessionsSound
<1>15. CodesSound'
  <2>1. user.mfa.secret <= n /\ \A k \in accepted : k[1] <= n
    BY <1>3 DEF AccountInv, AccountTypeOK, CodesSound, Users, Mfas
  <2> QED
    BY <1>2, <2>1 DEF AccountInv, CodesSound, SecretsWorkOnce, Matches
<1> QED
  BY <1>11, <1>12, <1>13, <1>14, <1>15 DEF AccountInv

(***************************************************************************)
(* New rows: a session with the generation that was read, and a recovery   *)
(* link with the one the account was given.                                *)
(***************************************************************************)
LEMMA NewRowKeeps ==
  ASSUME AccountInv, NEW c \in Clients, NEW new \in SessionRows,
         Serves(c, Quiet), issued' = issued + 1, new.id = issued + 1,
         sessions' = sessions \cup {new}, ~new.revoked, new.gen <= drawn,
         UNCHANGED <<user, drawn, expired, accepted, reused, history>>,
         new.kind = "login" /\ new.gen = user.gen /\ user.mfa.stage = "on" => new.factor = user.mfa.secret,
         \A y \in Clients : Pending(y) /\ y # c => request[y].new # new.gen
  PROVE  AccountInv'
<1>0. UNCHANGED <<user, drawn, expired, accepted, reused, recovered, rerecovered>>
  BY DEF history
<1>1. \A x \in Clients : request'[x] = IF x = c THEN Quiet ELSE request[x]
  BY DEF Serves, AccountInv, AccountTypeOK
<1>2. AccountTypeOK'
  BY <1>0, QuietType DEF Serves, AccountInv, AccountTypeOK
<1>3. \A i \in Nat : i <= issued => i # new.id /\ i <= issued'
  BY DEF AccountInv, AccountTypeOK
<1>4. AllHeld'
  <2> SUFFICES ASSUME NEW x \in Clients PROVE Held(request[x])'
    BY DEF AllHeld
  <2>1. CASE x = c
    BY <1>0, <1>1, <2>1, QuietType DEF Held, Shape, AccountInv, AccountTypeOK
  <2>2. CASE x # c
    <3>1. request[x] \in Requests /\ Held(request[x]) /\ request[x].own \in Nat
      BY RequestType DEF Requests
    <3>2. \A s \in sessions' : s.id = request[x].own => s \in sessions
      BY <1>3, <3>1 DEF Held
    <3>3. request[x].own <= issued'
      BY <1>3, <3>1 DEF Held
    <3> QED
      BY <1>0, <1>1, <2>2, <3>1, <3>2, <3>3 DEF Held, Shape
  <2> QED
    BY <2>1, <2>2
<1>5. Fresh'
  <2> SUFFICES ASSUME NEW y \in Clients, Pending(y)'
               PROVE  /\ request'[y].new # user'.gen
                      /\ \A x \in Clients : request'[x].user.gen # request'[y].new
                      /\ \A x \in Clients : request'[x].new = request'[y].new => x = y
                      /\ \A t \in sessions' : t.gen = request'[y].new => t.id = request'[y].own /\ t.kind = "login"
    BY DEF Fresh
  <2>1. y # c /\ request'[y] = request[y] /\ Pending(y) /\ request[y].new # 0
    BY <1>1, QuietType DEF Pending
  <2> QED
    BY <1>0, <1>1, <2>1, QuietType DEF AccountInv, Fresh
<1>6. SessionsSound'
  <2>1. \A s \in sessions : s.id # new.id /\ s.id <= issued'
    BY <1>3 DEF AccountInv, AccountTypeOK, SessionsSound, SessionRows
  <2>2. \A i \in recovered : i # new.id /\ i <= issued'
    BY <1>3 DEF AccountInv, AccountTypeOK, SessionsSound
  <2>3. new.id <= issued'
    BY DEF AccountInv, AccountTypeOK
  <2> QED
    BY <1>0, <2>1, <2>2, <2>3 DEF AccountInv, SessionsSound
<1>7. CodesSound'
  BY <1>0 DEF AccountInv, CodesSound, SecretsWorkOnce, Matches
<1> QED
  BY <1>2, <1>4, <1>5, <1>6, <1>7 DEF AccountInv

LEMMA IssuesKeep ==
  ASSUME AccountInv, NEW c \in Clients, IssueSession(c) \/ IssueLink(c)
  PROVE  AccountInv'
<1> DEFINE q == request[c]
<1>1. q \in Requests /\ Held(q) /\ Shape(q) /\ \A y \in Clients : Pending(y) => q.user.gen # request[y].new
  BY RequestType
<1>2. issued \in Nat /\ issued + 1 \in Nat /\ q.new \in Nat /\ q.user.gen \in Nat /\ q.factor \in Nat
  BY <1>1 DEF AccountInv, AccountTypeOK, Requests, Users
<1>3. CASE IssueSession(c)
  <2> DEFINE new == [NoSession EXCEPT !.id = issued', !.gen = q.user.gen, !.factor = q.factor]
  <2>1. /\ new \in SessionRows /\ new.id = issued + 1 /\ new.gen = q.user.gen /\ new.factor = q.factor
        /\ new.kind = "login" /\ ~new.revoked
    BY <1>2, <1>3 DEF IssueSession, NoSession, SessionRows
  <2>2. /\ Serves(c, Quiet) /\ issued' = issued + 1 /\ sessions' = sessions \cup {new} /\ q.step = "issue"
        /\ UNCHANGED <<user, drawn, expired, accepted, reused, history>>
    BY <1>3 DEF IssueSession, GenerationOf
  <2> HIDE DEF new
  <2> QED
    BY <1>1, <2>1, <2>2, NewRowKeeps DEF Held
<1>4. CASE IssueLink(c)
  <2> DEFINE new == [NoSession EXCEPT !.id = issued', !.kind = "recovery", !.gen = q.new]
  <2>1. /\ new \in SessionRows /\ new.id = issued + 1 /\ new.gen = q.new
        /\ new.kind = "recovery" /\ ~new.revoked
    BY <1>2, <1>4 DEF IssueLink, NoSession, SessionRows
  <2>2. /\ Serves(c, Quiet) /\ issued' = issued + 1 /\ sessions' = sessions \cup {new}
        /\ UNCHANGED <<user, drawn, expired, accepted, reused, history>>
    BY <1>4 DEF IssueLink
  <2> HIDE DEF new
  <2>3. \A y \in Clients : Pending(y) /\ y # c => request[y].new # q.new
    BY DEF AccountInv, Fresh
  <2> QED
    BY <1>1, <2>1, <2>2, <2>3, NewRowKeeps DEF Held
<1> QED
  BY <1>3, <1>4


(***************************************************************************)
(* The account is written.  The generation it gets is new to everybody but *)
(* the session that was moved to it.                                       *)
(***************************************************************************)
Given(c) == IF request[c].new = 0 THEN drawn + 1 ELSE request[c].new

LEMMA FreshValue ==
  ASSUME AccountInv, NEW c \in Clients, request[c].step = "commit"
  PROVE  /\ Given(c) \in Nat /\ Given(c) # 0 /\ Given(c) # user.gen
         /\ Given(c) <= drawn \/ Given(c) = drawn + 1
         /\ Given(c) <= drawn => request[c].kind \in Moving
         /\ \A x \in Clients : request[x].user.gen # Given(c)
         /\ \A x \in Clients : request[x].new = Given(c) => x = c
         /\ \A s \in sessions : s.gen = Given(c) =>
              s.id = request[c].own /\ s.kind = "login" /\ request[c].kind \in Moving
<1>1. /\ drawn \in Nat /\ user.gen \in Nat /\ user.gen <= drawn
      /\ \A s \in sessions : s.gen \in Nat /\ s.gen <= drawn
  BY DEF AccountInv, AccountTypeOK, Users, SessionRows, SessionsSound
<1>2. \A x \in Clients : /\ request[x].user.gen \in Nat /\ request[x].new \in Nat
                         /\ request[x].user.gen <= drawn /\ request[x].new <= drawn
  BY RequestType DEF Requests, Users, Held
<1>3. request[c].new # 0 => request[c].kind \in Moving /\ Pending(c)
  BY RequestType DEF Shape, Pending
<1> QED
  BY <1>1, <1>2, <1>3 DEF Given, AccountInv, Fresh

\* What the written row is, by the kind of the request.
LEMMA PatchedRow ==
  ASSUME NEW r \in Requests, NEW u \in Users, r.kind # "login"
  PROVE  LET w == Patched(r, u) IN
         /\ w \in Users
         /\ w.gen = IF r.kind \in {"setup", "activate"} \/ (r.kind = "deactivate" /\ ~r.user.active)
                    THEN u.gen ELSE r.new
         /\ r.kind = "setup" => w.mfa.stage = "pending" /\ w.mfa.secret = r.new
         /\ r.kind = "enable" =>
              w.mfa = [stage |-> "on", secret |-> r.user.mfa.secret, last |-> r.code, backup |-> TRUE]
         /\ r.kind = "disable" => w.mfa = NoMfa
         /\ r.kind \notin {"setup", "enable", "disable"} => w.mfa = u.mfa
<1>1. /\ r.new \in Nat /\ r.code \in Nat /\ r.user.mfa.secret \in Nat /\ NoMfa \in Mfas /\ u.mfa \in Mfas
      /\ u = [active |-> u.active, password |-> u.password, gen |-> u.gen, mfa |-> u.mfa]
      /\ u.active \in BOOLEAN /\ u.password \in Nat /\ u.gen \in Nat
  BY DEF Requests, Users, Mfas, NoMfa
<1>2. CASE r.kind \in {"password", "recover", "reset"}
  BY <1>1, <1>2 DEF Patched, Users
<1>3. CASE r.kind = "setup"
  BY <1>1, <1>3 DEF Patched, Users, Mfas, NoMfa
<1>4. CASE r.kind = "enable"
  BY <1>1, <1>4 DEF Patched, Users, Mfas
<1>5. CASE r.kind = "disable"
  BY <1>1, <1>5 DEF Patched, Users
<1>6. CASE r.kind = "link"
  BY <1>1, <1>6 DEF Patched, Users
<1>7. CASE r.kind = "deactivate"
  BY <1>1, <1>7 DEF Patched, Users
<1>8. CASE r.kind = "activate"
  BY <1>1, <1>8 DEF Patched, Users
<1> QED
  BY <1>2, <1>3, <1>4, <1>5, <1>6, <1>7, <1>8 DEF Requests


LEMMA CommitKeeps ==
  ASSUME AccountInv, NEW c \in Clients, Commit(c)
  PROVE  AccountInv'
<1> DEFINE q == request[c]
           n == Given(c)
           r == Drawing(q)
           u == Patched(r, user)
           kept(s) == Marked(s, r, u)
           rest == Remaining(r)
           key == <<q.user.mfa.secret, q.code>>
<1>1. q \in Requests /\ Held(q) /\ Shape(q) /\ \A y \in Clients : Pending(y) => q.user.gen # request[y].new
  BY RequestType
<1>2. q.step = "commit" /\ issued' = issued /\ expired' = expired
  BY DEF Commit
<1>3. drawn \in Nat /\ user \in Users
  BY DEF AccountInv, AccountTypeOK
<1>4. /\ r \in Requests /\ r.new = n /\ r.step = q.step /\ r.kind = q.kind /\ r.user = q.user
      /\ r.own = q.own /\ r.code = q.code /\ r.factor = q.factor
  BY <1>1, <1>3 DEF Requests, Drawing, Given
<1>5. q.kind # "login"
  BY <1>1, <1>2 DEF Shape
<1>6. CASE ~Decides(r, user)
  <2>1. drawn' = drawn /\ Serves(c, Quiet) /\ UNCHANGED <<user, sessions, accepted, reused, history>>
    BY <1>6 DEF Commit
  <2> QED
    BY <1>2, <2>1, GivesUp
<1>7. CASE Decides(r, user)
  <2>1. /\ user' = u /\ sessions' = {kept(s) : s \in sessions} /\ Serves(c, rest)
        /\ drawn' = IF u # user /\ r.new > drawn THEN r.new ELSE drawn
        /\ recovered' = IF r.kind = "recover" THEN recovered \cup {r.own} ELSE recovered
        /\ rerecovered' = (rerecovered \/ (r.kind = "recover" /\ r.own \in recovered))
        /\ IF r.kind = "enable" THEN Accept(<<r.user.mfa.secret, r.code>>) ELSE UNCHANGED <<accepted, reused>>
    BY <1>7 DEF Commit
  <2> DEFINE gives == ~(q.kind \in {"setup", "activate"} \/ (q.kind = "deactivate" /\ ~q.user.active))
  <2>2. /\ u \in Users
        /\ u.gen = IF gives THEN n ELSE user.gen
        /\ q.kind = "setup" => u.mfa.stage = "pending" /\ u.mfa.secret = n
        /\ q.kind = "enable" =>
             u.mfa.stage = "on" /\ u.mfa.secret = q.user.mfa.secret /\ u.mfa.last = q.code
        /\ q.kind = "disable" => u.mfa.stage = "off" /\ u.mfa.secret = 0
        /\ q.kind \notin {"setup", "enable", "disable"} => u.mfa = user.mfa
    <3>1. q.kind = r.kind /\ q.user.active = r.user.active /\ q.user.mfa.secret = r.user.mfa.secret
          /\ q.code = r.code /\ n = r.new /\ r \in Requests /\ r.kind # "login"
      BY <1>4, <1>5
    <3> HIDE DEF r, n, q
    <3>2. /\ u \in Users
          /\ u.gen = IF r.kind \in {"setup", "activate"} \/ (r.kind = "deactivate" /\ ~r.user.active)
                     THEN user.gen ELSE r.new
          /\ r.kind = "setup" => u.mfa.stage = "pending" /\ u.mfa.secret = r.new
          /\ r.kind = "enable" =>
               u.mfa = [stage |-> "on", secret |-> r.user.mfa.secret, last |-> r.code, backup |-> TRUE]
          /\ r.kind = "disable" => u.mfa = NoMfa
          /\ r.kind \notin {"setup", "enable", "disable"} => u.mfa = user.mfa
      BY <1>3, <3>1, PatchedRow
    <3> HIDE DEF u
    <3> QED
      BY <3>1, <3>2 DEF NoMfa
  <2>3. /\ n \in Nat /\ n # 0 /\ n # user.gen
        /\ n <= drawn \/ n = drawn + 1
        /\ n <= drawn => q.kind \in Moving
        /\ \A x \in Clients : request[x].user.gen # n
        /\ \A x \in Clients : request[x].new = n => x = c
        /\ \A s \in sessions : s.gen = n => s.id = q.own /\ s.kind = "login" /\ q.kind \in Moving
    BY <1>2, FreshValue
  <2>4. q.kind \notin AdminKinds => user.active /\ user.gen = q.user.gen
    BY <1>4, <1>7 DEF Decides, SameGeneration
  <2>5. q.kind = "enable" => user.mfa = q.user.mfa /\ q.user.mfa.stage = "pending" /\ q.code # 0
    BY <1>1, <1>2, <1>4, <1>7 DEF Decides, Shape
  <2>6. /\ drawn' \in Nat /\ drawn <= drawn' /\ user.gen <= drawn
        /\ gives => n <= drawn'
        /\ q.kind = "setup" => n = drawn + 1
    BY <1>3, <1>4, <2>1, <2>2, <2>3 DEF AccountInv, SessionsSound, Users
  <2>7. \A s \in sessions :
          /\ kept(s) \in SessionRows
          /\ kept(s).id = s.id /\ kept(s).kind = s.kind /\ kept(s).gen = s.gen
          /\ kept(s).revoked => s.revoked \/ (gives /\ s.gen # n)
          /\ kept(s).factor = IF q.kind = "enable" /\ s.gen = n THEN u.mfa.secret ELSE s.factor
    <3> SUFFICES ASSUME NEW s \in sessions
                 PROVE  /\ kept(s) \in SessionRows
                        /\ kept(s).id = s.id /\ kept(s).kind = s.kind /\ kept(s).gen = s.gen
                        /\ kept(s).revoked => s.revoked \/ (gives /\ s.gen # n)
                        /\ kept(s).factor = IF q.kind = "enable" /\ s.gen = n THEN u.mfa.secret ELSE s.factor
      OBVIOUS
    <3>1. s \in SessionRows
      BY DEF AccountInv, AccountTypeOK
    <3>2. u.gen # user.gen <=> gives
      BY <2>2, <2>3
    <3>3. u.gen = n \/ ~gives
      BY <2>2
    <3>4. q.kind = "enable" => u.gen = n /\ u.mfa.secret \in Nat
      BY <2>2 DEF Users, Mfas
    <3> HIDE DEF r, u, n, gives
    <3>5. kept(s) = [s EXCEPT !.revoked = @ \/ (u.gen # user.gen /\ s.gen # u.gen),
                             !.factor = IF r.kind = "enable" /\ s.gen = u.gen THEN u.mfa.secret ELSE @]
      BY DEF Marked
    <3> HIDE DEF kept
    <3> QED
      BY <1>4, <3>1, <3>2, <3>3, <3>4, <3>5 DEF SessionRows
  <2>8. \A t \in sessions' : \E s \in sessions : t = kept(s)
    BY <2>1
  <2>9. /\ rest \in Requests /\ rest.new = (IF q.kind = "link" THEN n ELSE 0) /\ rest.user.gen = 0
        /\ rest.step \in {"idle", "link", "clean"} /\ (rest.step = "link" <=> q.kind = "link")
        /\ rest.own \in {0, q.own}
    <3>1. rest \in {Quiet, [Quiet EXCEPT !.step = "link", !.new = n],
                      [Quiet EXCEPT !.step = "clean", !.kind = q.kind, !.own = q.own]}
          /\ (q.kind = "link" <=> rest = [Quiet EXCEPT !.step = "link", !.new = n])
      BY <1>4 DEF Remaining, Quiet
    <3>2. q.kind \in Kinds /\ q.own \in Nat /\ n \in Nat
      BY <1>1, <2>3 DEF Requests
    <3> HIDE DEF rest, n
    <3>3. CASE rest = [Quiet EXCEPT !.step = "link", !.new = n]
      BY <3>1, <3>2, <3>3 DEF Requests, Quiet, NewUser, NoMfa, Users, Mfas, Steps
    <3>4. CASE rest = [Quiet EXCEPT !.step = "clean", !.kind = q.kind, !.own = q.own]
      BY <3>1, <3>2, <3>4 DEF Requests, Quiet, NewUser, NoMfa, Users, Mfas, Steps
    <3>5. CASE rest = Quiet
      BY <3>1, <3>2, <3>5, QuietType DEF Quiet
    <3> QED
      BY <3>1, <3>3, <3>4, <3>5
  <2>10. \A x \in Clients : request'[x] = IF x = c THEN rest ELSE request[x]
    BY <2>1 DEF Serves, AccountInv, AccountTypeOK
  <2>11. request' \in [Clients -> Requests]
    BY <2>1, <2>9 DEF Serves, AccountInv, AccountTypeOK
  <2>12. /\ recovered' = IF q.kind = "recover" THEN recovered \cup {q.own} ELSE recovered
         /\ q.kind = "recover" => q.own \notin recovered
         /\ ~rerecovered'
         /\ q.own \in Nat /\ q.own <= issued
    <3>1. q.kind = "recover" => q.own \notin recovered
      BY <1>1, <1>2, <2>4 DEF Held
    <3> HIDE DEF r, u, kept, rest
    <3> QED
      BY <1>1, <1>4, <2>1, <3>1 DEF Held, Requests, AccountInv, CodesSound, SecretsWorkOnce
  <2>13. /\ key \in Nat \X Nat /\ key[1] = q.user.mfa.secret /\ key[2] = q.code
         /\ accepted' = IF q.kind = "enable" THEN accepted \cup {key} ELSE accepted
         /\ q.kind = "enable" => reused' = (reused \/ key \in accepted)
         /\ q.kind # "enable" => reused' = reused
    BY <1>1, <1>4, <2>1 DEF Requests, Users, Mfas, Accept
  <2> HIDE DEF r, u, kept, rest, key, n
  <2>14. AccountTypeOK'
    BY <1>2, <2>1, <2>2, <2>6, <2>7, <2>8, <2>11, <2>12, <2>13 DEF AccountInv, AccountTypeOK
  <2>15. AllHeld'
    <3> SUFFICES ASSUME NEW x \in Clients PROVE Held(request[x])'
      BY DEF AllHeld
    <3>1. CASE x = c
      BY <1>2, <2>3, <2>6, <2>9, <2>10, <2>12, <3>1 DEF Held, Shape, AccountInv, AccountTypeOK
    <3>2. CASE x # c
      <4> DEFINE z == request[x]
      <4>1. request'[x] = z /\ z \in Requests /\ Held(z) /\ Shape(z) /\ z.user.gen # n
        BY <2>3, <2>10, <3>2, RequestType
      <4>2. z.user.gen <= drawn' /\ z.new <= drawn' /\ z.own <= issued
        BY <1>3, <2>6, <4>1 DEF Held, Requests, Users
      <4>3. z.user.gen = u.gen => ~gives /\ u.gen = user.gen /\ q.kind # "enable"
        BY <2>2, <4>1
      <4>4. u.mfa.stage = "on" /\ ~gives => u.mfa = user.mfa
        BY <2>2 DEF NoMfa
      <4>5. ASSUME z.kind \in OwnKinds, z.step \in Owning, NEW t \in sessions', t.id = z.own
            PROVE  /\ t.kind = "login"
                   /\ z.user.gen = u.gen => ~t.revoked /\ (u.mfa.stage = "on" => t.factor = u.mfa.secret)
        BY <2>7, <2>8, <4>1, <4>3, <4>4, <4>5 DEF Held
      <4>6. /\ z.step \in {"list", "issue"} /\ z.user.gen = u.gen /\ u.mfa.stage = "on" =>
                 z.factor = u.mfa.secret
            /\ z.kind = "recover" /\ z.step \in Owning /\ z.own \in recovered' => z.user.gen # u.gen
        BY <2>12, <4>1, <4>3, <4>4 DEF Held
      <4> QED
        BY <1>2, <2>1, <4>1, <4>2, <4>5, <4>6 DEF Held, Shape
    <3> QED
      BY <3>1, <3>2
  <2>16. Fresh'
    <3> SUFFICES ASSUME NEW y \in Clients, Pending(y)'
                 PROVE  /\ request'[y].new # user'.gen
                        /\ \A x \in Clients : request'[x].user.gen # request'[y].new
                        /\ \A x \in Clients : request'[x].new = request'[y].new => x = y
                        /\ \A t \in sessions' : t.gen = request'[y].new => t.id = request'[y].own /\ t.kind = "login"
      BY DEF Fresh
    <3>1. y # c /\ request'[y] = request[y] /\ Pending(y) /\ request[y].new # 0 /\ request[y].new # n
      BY <2>3, <2>9, <2>10 DEF Pending
    <3>2. \A t \in sessions' : t.gen = request[y].new => t.id = request[y].own /\ t.kind = "login"
      BY <2>7, <2>8, <3>1 DEF AccountInv, Fresh
    <3> QED
      BY <2>1, <2>2, <2>9, <2>10, <3>1, <3>2 DEF AccountInv, Fresh
  <2>17. SessionsSound'
    <3>1. user'.gen <= drawn'
      BY <1>3, <2>1, <2>2, <2>3, <2>6 DEF Users
    <3>2. \A i \in recovered' : i <= issued
      BY <2>12 DEF AccountInv, SessionsSound
    <3>3. \A t, w \in sessions' : t.id = w.id => t = w
      BY <2>7, <2>8 DEF AccountInv, SessionsSound
    <3>4. ASSUME NEW s \in sessions
          PROVE  LET t == kept(s) IN
                 /\ t.gen <= drawn' /\ t.id <= issued
                 /\ t.revoked => t.gen # u.gen
                 /\ t.kind = "login" /\ t.gen = u.gen /\ u.mfa.stage = "on" => t.factor = u.mfa.secret
                 /\ t.kind = "recovery" /\ t.id \in recovered' => t.gen # u.gen
      <4>1. s \in SessionRows /\ s.gen \in Nat /\ s.gen <= drawn /\ s.id <= issued
        BY DEF AccountInv, AccountTypeOK, SessionRows, SessionsSound
      <4>2. s.gen <= drawn'
        BY <1>3, <2>6, <4>1
      <4>3. s.gen = n => /\ s.kind = "login" /\ q.kind \in Moving
                         /\ ~s.revoked /\ (user.mfa.stage = "on" => s.factor = user.mfa.secret)
        BY <1>1, <1>2, <2>3, <2>4 DEF Held
      <4>4. CASE gives /\ s.gen = n
        BY <2>2, <2>7, <4>1, <4>2, <4>3, <4>4 DEF NoMfa
      <4>5. CASE gives /\ s.gen # n
        BY <2>2, <2>7, <4>1, <4>2, <4>5
      <4>6. CASE ~gives
        <5>1. q.kind # "enable" /\ u.gen = user.gen /\ recovered' = recovered
          BY <2>2, <2>12, <4>6
        <5>2. u.mfa.stage = "on" => u.mfa = user.mfa
          BY <2>2, <4>6 DEF NoMfa
        <5> QED
          BY <2>7, <4>1, <4>2, <4>6, <5>1, <5>2 DEF AccountInv, SessionsSound
      <4> QED
        BY <4>4, <4>5, <4>6
    <3> QED
      BY <1>2, <2>1, <2>8, <3>1, <3>2, <3>3, <3>4 DEF SessionsSound
  <2>18. CodesSound'
    <3>1. user.mfa.secret \in Nat /\ user.mfa.secret <= drawn
      BY <1>3 DEF Users, Mfas, AccountInv, CodesSound
    <3>2. u.mfa.secret <= drawn'
      <4>1. CASE q.kind = "setup"
        <5>1. u.mfa.secret = n
          BY <2>2, <4>1 DEF NoMfa
        <5>2. n > drawn /\ u # user
          BY <1>3, <2>6, <3>1, <4>1, <5>1
        <5> QED
          BY <1>4, <2>1, <5>1, <5>2, <2>6, <2>3
      <4>2. CASE q.kind # "setup"
        BY <1>3, <2>2, <2>5, <2>6, <3>1, <4>2 DEF NoMfa
      <4> QED
        BY <4>1, <4>2
    <3>3. q.kind = "enable" => key \notin accepted
      BY <2>5, <2>13 DEF AccountInv, CodesSound
    <3>4. ASSUME NEW k \in accepted
          PROVE  /\ k[1] \in Nat /\ k[1] <= drawn'
                 /\ u.mfa.stage = "on" /\ k[1] = u.mfa.secret => ~Matches(u.mfa, k[2])
                 /\ u.mfa.stage = "pending" => k[1] # u.mfa.secret
      <4>1. /\ k[1] \in Nat /\ k[1] <= drawn
            /\ user.mfa.stage = "on" /\ k[1] = user.mfa.secret => ~Matches(user.mfa, k[2])
            /\ user.mfa.stage = "pending" => k[1] # user.mfa.secret
        BY DEF AccountInv, AccountTypeOK, CodesSound
      <4>2. k[1] <= drawn'
        BY <1>3, <2>6, <4>1
      <4>3. CASE q.kind = "setup"
        BY <1>3, <2>2, <2>6, <4>1, <4>2, <4>3 DEF NoMfa
      <4>4. CASE q.kind = "enable"
        BY <2>2, <2>5, <4>1, <4>2, <4>4
      <4>5. CASE q.kind \notin {"setup", "enable"}
        BY <2>2, <4>1, <4>2, <4>5 DEF NoMfa
      <4> QED
        BY <4>3, <4>4, <4>5
    <3>5. q.kind = "enable" => /\ u.mfa.stage = "on" /\ key[1] <= drawn' /\ ~Matches(u.mfa, key[2])
      BY <1>1, <1>3, <2>2, <2>5, <2>6, <2>13, <3>1 DEF Matches, Requests
    <3> QED
      BY <2>1, <2>12, <2>13, <3>2, <3>3, <3>4, <3>5 DEF AccountInv, CodesSound, SecretsWorkOnce
  <2> QED
    BY <2>14, <2>15, <2>16, <2>17, <2>18 DEF AccountInv
<1> QED
  BY <1>6, <1>7


LEMMA NextKeeps == AccountInv /\ [AccountNext]_accountVars => AccountInv'
<1> SUFFICES ASSUME AccountInv, [AccountNext]_accountVars PROVE AccountInv'
  OBVIOUS
<1> USE AccountAssumption
<1>1. CASE UNCHANGED accountVars
  <2>1. sessions' \subseteq sessions /\ request' = request /\ expired' = expired
        /\ UNCHANGED <<user, drawn, issued, accepted, reused, history>>
    BY <1>1 DEF accountVars, history
  <2>2. expired' \subseteq Nat /\ request' \in [Clients -> Requests]
    BY <2>1 DEF AccountInv, AccountTypeOK
  <2> QED
    BY <2>1, <2>2, QuietStep
<1>2. ASSUME NEW c \in Clients, SignIn(c) PROVE AccountInv'
  BY <1>2, SignInKeeps
<1>3. ASSUME NEW c \in Clients, NEW kind \in OwnKinds, NEW s \in Logins, Enter(c, kind, s)
      PROVE  AccountInv'
  <2>1. kind \notin AdminKinds
    OBVIOUS
  <2> QED
    BY <1>3, <2>1, EnterKeeps
<1>4. ASSUME NEW c \in Clients, NEW kind \in AdminKinds, Enter(c, kind, NoSession)
      PROVE  AccountInv'
  <2>1. kind \notin OwnKinds
    OBVIOUS
  <2> QED
    BY <1>4, <2>1, EnterKeeps
<1>5. ASSUME NEW c \in Clients, NEW code \in 0..MaxCounter, UseCode(c, code) \/ MoveSession(c, code)
      PROVE  AccountInv'
  BY <1>5, UseCodeKeeps, MoveSessionKeeps
<1>6. ASSUME NEW c \in Clients, NEW s \in sessions, Present(c, s) PROVE AccountInv'
  BY <1>6, PresentKeeps
<1>7. ASSUME NEW c \in Clients, ReadAccount(c) \/ CapSessions(c) \/ IssueSession(c) PROVE AccountInv'
  BY <1>7, ReadAccountKeeps, CapSessionsKeeps, IssuesKeep
<1>8. ASSUME NEW c \in Clients, Commit(c) \/ IssueLink(c) \/ Clean(c) \/ RequestFails(c)
      PROVE  AccountInv'
  BY <1>8, CommitKeeps, IssuesKeep, EndsKeep
<1>9. ASSUME NEW s \in sessions, EndSession(s) \/ LinkExpires(s) PROVE AccountInv'
  BY <1>9, EndsKeep
<1> QED
  BY <1>1, <1>2, <1>3, <1>4, <1>5, <1>6, <1>7, <1>8, <1>9 DEF AccountNext

\* Whatever number of requests and instances: every session with the generation of the
\* account was there when it got it or opened since, and a generation is given once.
THEOREM AccountsKeepInvariant == AccountSpec => []AccountInv
<1>1. AccountInit => AccountInv
  BY InitAccountInv
<1>2. AccountInv /\ [AccountNext]_accountVars => AccountInv'
  BY NextKeeps
<1> QED
  BY <1>1, <1>2, PTL DEF AccountSpec

\* One-time codes, backup codes and recovery links work once, however many requests
\* bring them to however many instances (mfa-service.mjs:5-24, recovery-service.mjs:20-42).
THEOREM CodesWorkOnce == AccountSpec => []SecretsWorkOnce
<1>1. AccountInv => SecretsWorkOnce
  BY DEF AccountInv, CodesSound
<1> QED
  BY <1>1, AccountsKeepInvariant, PTL

\* A session from before a change of password, second factor or account is never let
\* in again, whichever writes failed (people.mjs:638-646, auth.mjs:318-334).
THEOREM DeadSessionsStayDead == AccountSpec => []RevokedStaysDead
<1>1. AccountInv => RevokedStaysDead
  BY DEF AccountInv, SessionsSound, RevokedStaysDead, Live
<1> QED
  BY <1>1, AccountsKeepInvariant, PTL

\* While the second factor is on, every session that works gave a code of it
\* (auth.mjs:239-268, mfa-service.mjs:36-58).
THEOREM EverySessionGaveItsFactor == AccountSpec => []SecondFactorHolds
<1>1. AccountInv => SecondFactorHolds
  BY DEF AccountInv, SessionsSound, SecondFactorHolds, Live
<1> QED
  BY <1>1, AccountsKeepInvariant, PTL

=============================================================================
