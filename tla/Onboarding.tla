------------------------------ MODULE Onboarding ------------------------------
(***************************************************************************)
(* Candidates and their portal logins (handlers/admin/people.mjs,          *)
(* core/candidate-import.mjs): a spreadsheet is imported page by page, an  *)
(* administrator adds a candidate, a login, or a paper by hand.  Imports   *)
(* and new logins of one instance wait for each other ("users:create");    *)
(* adding a candidate and allocating a paper do not wait for them.         *)
(*                                                                         *)
(* A login is a base (the part of the email before the @, or the name) and *)
(* the number that keeps it apart from the others of that base.            *)
(***************************************************************************)
EXTENDS Naturals, Sequences, FiniteSets

CONSTANTS
  Sheets,        \* spreadsheets that may be imported: sequences of rows
  NoEmail,       \* the email of a row that gives none
  NoLogin,       \* the username of a row that gives none
  FormIds,      \* request ids of the Add user form
  Offices,       \* administrators' requests under way at a time
  ServerOfOffice,\* ServerOfOffice[o]: the instance that serves request o
  PageSize,      \* rows per import request
  MaxCandidates  \* bound: candidate records

ASSUME OnboardingAssumption ==
  /\ \A s \in Sheets : s \in Seq({s[n] : n \in DOMAIN s})
  /\ DOMAIN ServerOfOffice = Offices
  /\ PageSize \in Nat \ {0} /\ MaxCandidates \in Nat
  /\ NoLogin \notin FormIds

VARIABLES
  sheet,       \* the spreadsheet of this behaviour
  candidates,  \* candidates[n]: the n-th candidate record; page is the first record of its
               \* import, 0 for one that was added by hand (history)
  logins,      \* the portal users, oldest first
  papers,      \* papers[n]: the open papers of candidate n
  office       \* office[o]: what request o is doing

onboardingVars == <<sheet, candidates, logins, papers, office>>

Absent == [step |-> "idle"]

OnboardingInit ==
  /\ sheet \in Sheets
  /\ candidates = << >> /\ logins = << >> /\ papers = << >>
  /\ office = [o \in Offices |-> Absent]

InOffice(o, step) == office[o].step = step
Handles(o, r) == office' = [office EXCEPT ![o] = r]

\* The lock "users:create".
UsersFree(o) ==
  \A x \in Offices \ {o} :
    ServerOfOffice[x] = ServerOfOffice[o] =>
      office[x].step \notin {"candidates", "users", "papers", "login", "wait", "auto"}

\* The lock of an allocation to candidate n.
PaperOfFree(o, n) ==
  \A x \in Offices \ {o} :
    ServerOfOffice[x] = ServerOfOffice[o] /\ office[x].step \in {"auto", "hand"} => office[x].n # n

----------------------------------------------------------------------------
(* validateCandidateBatch *)

\* resolveUsername: the base itself, or with the first number that is free.
Derived(base, used) ==
  <<base, CHOOSE n \in 1..(Cardinality(used) + 1) :
            <<base, n>> \notin used /\ \A m \in 1..(n - 1) : <<base, m>> \in used>>

\* Faulty variant of Known: a row without an email is never a duplicate.
FaultyKnown(row, emails, names) == row.email # NoEmail /\ row.email \in emails

\* By its email, or by its name when it has none.
Known(row, emails, names) ==
  IF row.email # NoEmail THEN row.email \in emails ELSE row.name \in names

\* Faulty variant of Uses: a derived login is not kept from the rows that follow.
FaultyUses(used, row, login) == IF row.login = NoLogin THEN used ELSE used \cup {login}

\* An accepted row uses its login up.
Uses(used, row, login) == used \cup {login}

\* One more row: v holds the login of each row so far (NoLogin for those not accepted),
\* and what the accepted ones have used.
Verdict(v, row, emails, names) ==
  LET duplicate == Known(row, emails \cup v.emails, names \cup v.names) \/ row.login \in v.used
      login == IF row.login # NoLogin THEN row.login ELSE Derived(row.base, v.used)
  IN IF duplicate \/ ~row.valid THEN [v EXCEPT !.given = Append(@, NoLogin)]
     ELSE [given |-> Append(v.given, login),
           used |-> Uses(v.used, row, login),
           emails |-> IF row.email # NoEmail THEN v.emails \cup {row.email} ELSE v.emails,
           names |-> IF row.email # NoEmail THEN v.names ELSE v.names \cup {row.name}]

\* The logins of all rows.  The directory comes as the emails, names and logins in it.
Judged(rows, emails, names, taken) ==
  LET verdict[n \in 0..Len(rows)] ==
        IF n = 0 THEN [given |-> << >>, used |-> taken, emails |-> {}, names |-> {}]
        ELSE Verdict(verdict[n - 1], rows[n], emails, names)
  IN verdict[Len(rows)].given

Emails == {candidates[n].email : n \in DOMAIN candidates} \ {NoEmail}
Names == {candidates[n].name : n \in DOMAIN candidates}
Taken == {logins[n].login : n \in DOMAIN logins}

----------------------------------------------------------------------------
(* POST /admin/candidates/import *)

\* The i-th row of a page.
Nth(page, i) == CHOOSE n \in page : Cardinality({m \in page : m <= n}) = i

\* The directory is read, the whole sheet judged, and the accepted rows of one page taken.
ImportPage(o, offset) ==
  LET given == Judged(sheet, Emails, Names, Taken)
      page == {n \in DOMAIN sheet : n > offset /\ n <= offset + PageSize /\ given[n] # NoLogin}
  IN
  /\ InOffice(o, "idle") /\ UsersFree(o)
  /\ page # {}
  /\ Handles(o, [step |-> "candidates",
                 rows |-> [i \in 1..Cardinality(page) |-> sheet[Nth(page, i)]],
                 given |-> [i \in 1..Cardinality(page) |-> given[Nth(page, i)]]])
  /\ UNCHANGED <<sheet, candidates, logins, papers>>

\* The passwords are hashed first; then one write per table.
WriteCandidates(o) ==
  LET r == office[o] IN
  /\ InOffice(o, "candidates") /\ Len(candidates) + Len(r.rows) <= MaxCandidates
  /\ candidates' = candidates \o
       [k \in DOMAIN r.rows |-> [email |-> r.rows[k].email, name |-> r.rows[k].name,
                                 page |-> Len(candidates) + 1]]
  /\ papers' = papers \o [k \in DOMAIN r.rows |-> 0]
  /\ Handles(o, [step |-> "users", given |-> r.given, first |-> Len(candidates) + 1])
  /\ UNCHANGED <<sheet, logins>>

WriteUsers(o) ==
  LET r == office[o] IN
  /\ InOffice(o, "users")
  /\ logins' = logins \o
       [k \in DOMAIN r.given |-> [login |-> r.given[k], owner |-> r.first + k - 1, request |-> NoLogin]]
  /\ Handles(o, [step |-> "papers", new |-> r.first .. (r.first + Len(r.given) - 1)])
  /\ UNCHANGED <<sheet, candidates, papers>>

\* The planned papers: nobody asks again whether the candidate has one by now.
WritePapers(o) ==
  /\ InOffice(o, "papers")
  /\ papers' = [n \in DOMAIN papers |-> IF n \in office[o].new THEN papers[n] + 1 ELSE papers[n]]
  /\ Handles(o, Absent)
  /\ UNCHANGED <<sheet, candidates, logins>>

----------------------------------------------------------------------------
(* By hand *)

\* POST /admin/candidates: no row is a duplicate here.
AddCandidate(row) ==
  /\ Len(candidates) < MaxCandidates /\ row.valid
  /\ candidates' = Append(candidates, [email |-> row.email, name |-> row.name, page |-> 0])
  /\ papers' = Append(papers, 0)
  /\ UNCHANGED <<sheet, logins, office>>

Unlinked(n, login) == \A k \in DOMAIN logins : logins[k].owner = n => logins[k].login = login

\* POST /admin/users: a login that exists is only answered to the request that made it.
AddUser(o, n, login, request) ==
  LET made(k) == logins[k].login = login /\ logins[k].request = request IN
  /\ InOffice(o, "idle") /\ UsersFree(o)
  /\ \A k \in DOMAIN logins : logins[k].login = login \/ logins[k].request = request => made(k)
  /\ Unlinked(n, login)
  /\ Handles(o, IF login \in Taken THEN [step |-> "wait", n |-> n]
                ELSE [step |-> "login", n |-> n, login |-> login, request |-> request])
  /\ UNCHANGED <<sheet, candidates, logins, papers>>

InsertUser(o) ==
  LET r == office[o] IN
  /\ InOffice(o, "login")
  /\ logins' = Append(logins, [login |-> r.login, owner |-> r.n, request |-> r.request])
  /\ Handles(o, [step |-> "wait", n |-> r.n])
  /\ UNCHANGED <<sheet, candidates, papers>>

\* A paper for the new login, or by hand (POST /admin/assessments): is one open?
LookForPaper(o, n, step) ==
  /\ \/ step = "auto" /\ InOffice(o, "wait") /\ office[o].n = n
     \/ step = "hand" /\ InOffice(o, "idle")
  /\ PaperOfFree(o, n)
  /\ Handles(o, [step |-> step, n |-> n, open |-> papers[n]])
  /\ UNCHANGED <<sheet, candidates, logins, papers>>

InsertPaperOf(o) ==
  LET r == office[o] IN
  /\ office[o].step \in {"auto", "hand"}
  /\ papers' = IF r.open = 0 THEN [papers EXCEPT ![r.n] = @ + 1] ELSE papers
  /\ Handles(o, Absent)
  /\ UNCHANGED <<sheet, candidates, logins>>

\* The instance is killed, or a storage call fails.
OfficeFails(o) ==
  /\ ~InOffice(o, "idle")
  /\ Handles(o, Absent)
  /\ UNCHANGED <<sheet, candidates, logins, papers>>

LoginsInUse == {<<sheet[n].base, 1>> : n \in DOMAIN sheet} \cup Taken

OnboardingNext ==
  \/ \E n \in DOMAIN sheet : AddCandidate(sheet[n])
  \/ \E o \in Offices :
       \/ \E k \in 0..(Len(sheet) - 1) : k % PageSize = 0 /\ ImportPage(o, k)
       \/ \E n \in DOMAIN candidates :
            \/ \E step \in {"auto", "hand"} : LookForPaper(o, n, step)
            \/ \E login \in LoginsInUse, request \in FormIds : AddUser(o, n, login, request)
       \/ WriteCandidates(o) \/ WriteUsers(o) \/ WritePapers(o)
       \/ InsertUser(o) \/ InsertPaperOf(o) \/ OfficeFails(o)

OnboardingSpec == OnboardingInit /\ [][OnboardingNext]_onboardingVars

----------------------------------------------------------------------------
(* Properties *)

Imported(n) == candidates[n].page # 0

\* No two accounts have one username, no candidate has two accounts, and a sheet that is
\* uploaded again, in whole or in part, makes no second record of a person: through any
\* mix of imports, their pages, forms sent twice and requests that stop
\* (people.mjs:95-98 and 528-532, candidate-import.mjs:259-265).  A row without an email
\* is told by its name, which within one page is compared with the other rows without
\* one only (candidate-import.mjs:303-304).
NobodyTwice ==
  /\ \A i, k \in DOMAIN logins :
       i # k => logins[i].login # logins[k].login /\ logins[i].owner # logins[k].owner
  /\ \A i, k \in DOMAIN candidates :
       i < k /\ Imported(i) /\ Imported(k) =>
         IF candidates[k].email # NoEmail THEN candidates[i].email # candidates[k].email
         ELSE candidates[i].name = candidates[k].name =>
                candidates[i].page = candidates[k].page /\ candidates[i].email # NoEmail

=============================================================================
