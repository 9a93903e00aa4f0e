----------------------------- MODULE ContentProofs -----------------------------
(***************************************************************************)
(* Proofs about QuestionBank, for every set of prompts, files and requests *)
(* and any number of questions; about Tracks, for every set of published   *)
(* questions and requests and any number of tracks; and about              *)
(* PaperDrawing, for every set of banks, weights and caps, and every       *)
(* module plan.                                                            *)
(***************************************************************************)
EXTENDS QuestionBank, Tracks, PaperDrawing, FiniteSetTheorems, TLAPS

----------------------------------------------------------------------------
(* Numbers *)

\* A set of naturals that is not empty has a least member.
LEMMA LeastNatural ==
  ASSUME NEW S \in SUBSET Nat, S # {}
  PROVE  \E x \in S : \A y \in S : x <= y
<1> DEFINE less == OpToRel(<, Nat)
<1>1. IsWellFoundedOn(less, Nat)
  BY NatLessThanWellFounded
<1>2. \A x, y \in Nat : y < x => <<y, x>> \in less
  BY DEF OpToRel
<1> HIDE DEF less
<1>3. PICK x \in S : \A y \in S : <<y, x>> \notin less
  BY <1>1, WFMin
<1>4. \A y \in S : ~(y < x)
  BY <1>2, <1>3
<1> QED
  BY <1>4

\* A bounded one has a greatest member.
LEMMA GreatestNatural ==
  ASSUME NEW n \in Nat, NEW S \in SUBSET (0..n), S # {}
  PROVE  Max(S) \in S /\ \A x \in S : Max(S) >= x
<1> DEFINE T == {n - x : x \in S}
<1>1. T \in SUBSET Nat /\ T # {}
  <2>1. \A x \in S : n - x \in Nat
    OBVIOUS
  <2> QED
    BY <2>1
<1>2. PICK t \in T : \A y \in T : t <= y
  BY <1>1, LeastNatural
<1>3. PICK x \in S : t = n - x
  OBVIOUS
<1>4. \A y \in S : n - x <= n - y
  BY <1>2, <1>3
<1>5. \A y \in S : x >= y
  BY <1>4
<1> QED
  BY <1>5 DEF Max

----------------------------------------------------------------------------
(* The rows an import keeps *)

\* They are told apart by their prompts: no prompt is kept twice.
LEMMA AcceptedOnce ==
  ASSUME NEW file \in Seq(Prompts)
  PROVE  /\ Accepted(file) \in Seq(Prompts)
         /\ \A i, j \in DOMAIN Accepted(file) : Accepted(file)[i] = Accepted(file)[j] => i = j
<1> DEFINE fresh == Fresh(file)
           upTo(k) == {j \in fresh : j <= k}
           n == Cardinality(fresh)
           place == [k \in fresh |-> Cardinality(upTo(k))]
<1>1. fresh \subseteq 1..Len(file) /\ Len(file) \in Nat
  BY DEF Fresh
<1>2. IsFiniteSet(fresh)
  <2>1. IsFiniteSet(1..Len(file))
    BY <1>1, FS_Interval
  <2> QED
    BY <1>1, <2>1, FS_Subset
<1>3. n \in Nat /\ IsFiniteSet(1..n) /\ Cardinality(1..n) = n
  BY <1>2, FS_CardinalityType, FS_Interval
<1>4. \A k \in fresh : place[k] \in 1..n
  <2> SUFFICES ASSUME NEW k \in fresh PROVE Cardinality(upTo(k)) \in 1..n
    OBVIOUS
  <2>1. upTo(k) \in SUBSET fresh /\ k \in upTo(k)
    BY <1>1
  <2>2. IsFiniteSet(upTo(k)) /\ Cardinality(upTo(k)) <= n
    BY <1>2, <2>1, FS_Subset
  <2>3. Cardinality(upTo(k)) \in Nat /\ Cardinality(upTo(k)) # 0
    BY <2>1, <2>2, FS_CardinalityType, FS_EmptySet
  <2> QED
    BY <1>3, <2>2, <2>3
<1>5. \A k, l \in fresh : place[k] = place[l] => k = l
  <2> SUFFICES ASSUME NEW k \in fresh, NEW l \in fresh, k < l
               PROVE  Cardinality(upTo(k)) # Cardinality(upTo(l))
    <3> HIDE DEF fresh, upTo
    <3> QED
      BY <1>1
  <2>1. upTo(k) \in SUBSET upTo(l) /\ l \in upTo(l) /\ l \notin upTo(k) /\ upTo(l) \in SUBSET fresh
    BY <1>1
  <2>2. IsFiniteSet(upTo(l))
    BY <1>2, <2>1, FS_Subset
  <2>3. Cardinality(upTo(l)) = Cardinality(upTo(k)) => upTo(l) = upTo(k)
    BY <2>1, <2>2, FS_Subset
  <2> QED
    BY <2>1, <2>3
<1>6. place \in Injection(fresh, 1..n)
  BY <1>4, <1>5 DEF Injection, IsInjective
<1>7. place \in Surjection(fresh, 1..n)
  BY <1>3, <1>6, FS_Injection
<1>8. \A i \in 1..n : \E k \in fresh : place[k] = i
  BY <1>7 DEF Surjection
<1> DEFINE chosen(i) == CHOOSE k \in fresh : Cardinality(upTo(k)) = i
<1>9. \A i \in 1..n : chosen(i) \in fresh /\ Cardinality(upTo(chosen(i))) = i
  BY <1>8
<1>10. Accepted(file) = [i \in 1..n |-> file[chosen(i)]]
  BY DEF Accepted
<1>11. \A k \in fresh : file[k] \in Prompts
  BY <1>1
<1>12. Accepted(file) \in Seq(Prompts)
  <2> HIDE DEF n, chosen, fresh, upTo
  <2>1. \A i \in 1..n : file[chosen(i)] \in Prompts
    BY <1>9, <1>11
  <2> QED
    BY <1>3, <1>10, <2>1
<1>13. \A k, l \in fresh : file[k] = file[l] => k = l
  <2> SUFFICES ASSUME NEW k \in fresh, NEW l \in fresh, k < l PROVE file[k] # file[l]
    BY <1>1
  <2> QED
    BY <1>1 DEF Fresh
<1>14. ASSUME NEW i \in 1..n, NEW j \in 1..n, file[chosen(i)] = file[chosen(j)]
       PROVE  i = j
  <2>1. chosen(i) = chosen(j)
    BY <1>9, <1>13, <1>14
  <2> QED
    BY <1>9, <2>1
<1> QED
  <2> HIDE DEF n, chosen, fresh, upTo
  <2> QED
    BY <1>10, <1>12, <1>14

----------------------------------------------------------------------------
(* The bank *)

\* The steps under the lock of the bank.
BankSteps == {"number", "insert", "judge", "update", "unhide", "hideLocked"}

AloneInBank == \A d, e \in Authors : author[d].step \in BankSteps /\ author[e].step \in BankSteps => d = e

\* Rows that may be inserted: a sequence of prompts without a repetition.
Distinct(prompts) == prompts \in Seq(Prompts) /\ \A i, j \in DOMAIN prompts : prompts[i] = prompts[j] => i = j

\* What a request r may rely on, given the added questions.
BankSound(r, rows) ==
  /\ "step" \in DOMAIN r
  /\ r.step \in {"wait", "number", "insert"} => {"prompts", "import"} \subseteq DOMAIN r /\ Distinct(r.prompts)
  /\ r.step = "wait" => r.import = TRUE
  /\ r.step \in {"number", "insert"} /\ r.import # TRUE =>
       \A i \in DOMAIN r.prompts : r.prompts[i] # Printed /\ \A n \in DOMAIN rows : rows[n] # r.prompts[i]
  /\ r.step = "insert" => r.first \in Nat \ {0}
  /\ r.step = "update" => r.prompt # Printed /\ \A n \in DOMAIN rows \ {r.number} : rows[n] # r.prompt

\* A prompt that no import put in a second time is in the bank once.
SeenOnce(rows, twins) ==
  /\ DOMAIN rows \subseteq 1..MaxIds
  /\ \A n \in DOMAIN rows :
       rows[n] \notin twins => rows[n] # Printed /\ \A m \in DOMAIN rows : rows[m] = rows[n] => m = n

BankInv ==
  /\ DOMAIN author = Authors
  /\ \A d \in Authors : BankSound(author[d], added)
  /\ SeenOnce(added, twinned)
  /\ AloneInBank

LEMMA BankTurned ==
  ASSUME BankInv, NEW d \in Authors, NEW r, Go(d, r),
         BankSound(r, added'), SeenOnce(added', twinned'),
         \A x \in Authors \ {d} : BankSound(author[x], added'),
         r.step \in BankSteps => \A x \in Authors \ {d} : author[x].step \notin BankSteps
  PROVE  BankInv'
<1>1. DOMAIN author' = Authors /\ \A x \in Authors : author'[x] = IF x = d THEN r ELSE author[x]
  BY DEF BankInv, Go
<1>2. \A x \in Authors : BankSound(author'[x], added')
  BY <1>1
<1>3. AloneInBank'
  BY <1>1 DEF BankInv, AloneInBank
<1> QED
  BY <1>1, <1>2, <1>3 DEF BankInv

\* A step that leaves the added questions alone.
LEMMA BankQuiet ==
  ASSUME BankInv, NEW d \in Authors, NEW r, Go(d, r), UNCHANGED <<added, twinned>>, BankSound(r, added),
         r.step \in BankSteps => BankFree(d) \/ author[d].step \in BankSteps
  PROVE  BankInv'
<1>1. r.step \in BankSteps => \A x \in Authors \ {d} : author[x].step \notin BankSteps
  BY DEF BankInv, AloneInBank, BankFree, BankSteps
<1> QED
  BY <1>1, BankTurned DEF BankInv

LEMMA SavingKeeps ==
  ASSUME BankInv, NEW d \in Authors, NEW p \in Prompts, SaveQuestion(d, p)
  PROVE  BankInv'
<1> DEFINE r == [step |-> "number", prompts |-> <<p>>, import |-> FALSE]
<1>1. Go(d, r) /\ UNCHANGED <<added, twinned>> /\ BankFree(d) /\ p \notin InBank
  BY DEF SaveQuestion, Told
<1>2. BankSound(r, added)
  BY <1>1 DEF BankSound, Distinct, InBank
<1> QED
  BY <1>1, <1>2, BankQuiet DEF BankSteps

LEMMA ReadingKeeps ==
  ASSUME BankInv, NEW d \in Authors, NEW file \in Files, ReadFile(d, file)
  PROVE  BankInv'
<1> DEFINE r == [step |-> "wait", prompts |-> Accepted(file), import |-> TRUE]
<1>1. Go(d, r) /\ UNCHANGED <<added, twinned>>
  BY DEF ReadFile, Told
<1>2. Distinct(Accepted(file))
  BY AcceptedOnce, BankAssumption DEF Distinct
<1>3. BankSound(r, added)
  BY <1>2 DEF BankSound
<1> QED
  BY <1>1, <1>3, BankQuiet DEF BankSteps

LEMMA NumberingKeeps ==
  ASSUME BankInv, NEW d \in Authors, TakeBank(d) \/ NumberRows(d)
  PROVE  BankInv'
<1> DEFINE r == author[d]
<1>1. BankSound(r, added)
  BY DEF BankInv
<1>2. CASE TakeBank(d)
  <2> DEFINE z == [r EXCEPT !.step = "number"]
  <2>1. Go(d, z) /\ UNCHANGED <<added, twinned>> /\ BankFree(d) /\ r.step = "wait"
    BY <1>2 DEF TakeBank, Told, Is
  <2>2. z.step = "number" /\ z.prompts = r.prompts /\ z.import = TRUE /\ DOMAIN z = DOMAIN r
    BY <1>1, <2>1 DEF BankSound
  <2>3. BankSound(z, added)
    BY <1>1, <2>1, <2>2 DEF BankSound
  <2> QED
    BY <2>1, <2>3, BankQuiet
<1>3. CASE NumberRows(d)
  <2> DEFINE z == [step |-> "insert", prompts |-> r.prompts, import |-> r.import, first |-> NextNumber]
  <2>1. Go(d, z) /\ UNCHANGED <<added, twinned>> /\ r.step = "number"
    BY <1>3 DEF NumberRows, Told, Is
  <2>2. NextNumber \in Nat \ {0}
    <3>1. {0} \cup DOMAIN added \in SUBSET (0..MaxIds) /\ MaxIds \in Nat
      BY BankAssumption DEF BankInv, SeenOnce
    <3>2. Max({0} \cup DOMAIN added) \in 0..MaxIds
      BY <3>1, GreatestNatural
    <3> QED
      BY <3>1, <3>2 DEF NextNumber
  <2>3. BankSound(z, added)
    BY <1>1, <2>1, <2>2 DEF BankSound
  <2> QED
    BY <2>1, <2>3, BankQuiet DEF BankSteps
<1> QED
  BY <1>2, <1>3

\* Rows that were judged under the lock repeat no question; those of an import that do are
\* the twins.
LEMMA InsertingKeeps ==
  ASSUME BankInv, NEW d \in Authors, InsertRows(d)
  PROVE  BankInv'
<1> DEFINE r == author[d]
           last == r.first + Len(r.prompts) - 1
           new == r.first..last
           more == [n \in DOMAIN added \cup new |->
                      IF n \in new THEN r.prompts[n - r.first + 1] ELSE added[n]]
<1>1. /\ r.step = "insert" /\ Go(d, Resting) /\ last <= MaxIds
      /\ BankSound(r, added) /\ SeenOnce(added, twinned) /\ DOMAIN author = Authors
  BY DEF BankInv, InsertRows, Is
<1>2. r.prompts \in Seq(Prompts) /\ Len(r.prompts) \in Nat /\ r.first \in Nat \ {0}
  BY <1>1 DEF BankSound, Distinct
<1>3. \A x \in Authors \ {d} : author[x].step \notin BankSteps
  BY <1>1 DEF BankInv, AloneInBank, BankSteps
<1>4. BankSound(Resting, added') /\ Resting.step = "idle"
  BY DEF BankSound, Resting
<1>5. \A x \in Authors \ {d} : BankSound(author[x], added')
  BY <1>3 DEF BankInv, BankSound, BankSteps
<1>6. SeenOnce(added', twinned')
  <2>1. CASE new \cap DOMAIN added # {}
    BY <1>1, <2>1 DEF InsertRows
  <2>2. CASE new \cap DOMAIN added = {}
    <3>1. /\ added' = more
          /\ twinned' = IF r.import THEN twinned \cup (ToSet(r.prompts) \cap InBank) ELSE twinned
      BY <2>2 DEF InsertRows
    <3>2. \A n \in new : n - r.first + 1 \in DOMAIN r.prompts
      BY <1>2
    <3>3. \A n, m \in new : r.prompts[n - r.first + 1] = r.prompts[m - r.first + 1] => n = m
      BY <1>1, <1>2, <3>2 DEF BankSound, Distinct
    <3>4. new \subseteq 1..MaxIds
      BY <1>1, <1>2, BankAssumption
    <3> HIDE DEF new
    <3>5. /\ DOMAIN added' = DOMAIN added \cup new
          /\ \A n \in new : added'[n] = r.prompts[n - r.first + 1]
          /\ \A n \in DOMAIN added : added'[n] = added[n]
      BY <2>2, <3>1
    <3>6. \A n \in new : added'[n] \notin twinned' => added'[n] \notin InBank
      <4> SUFFICES ASSUME NEW n \in new, added'[n] \notin twinned' PROVE added'[n] \notin InBank
        OBVIOUS
      <4>1. CASE r.import = TRUE
        <5>1. added'[n] \in ToSet(r.prompts)
          BY <3>2, <3>5 DEF ToSet
        <5> QED
          BY <3>1, <4>1, <5>1
      <4>2. CASE r.import # TRUE
        BY <1>1, <3>2, <3>5, <4>2 DEF BankSound, InBank
      <4> QED
        BY <4>1, <4>2
    <3>7. twinned \subseteq twinned'
      BY <3>1
    <3>8. ASSUME NEW n \in DOMAIN added', added'[n] \notin twinned',
                 NEW m \in DOMAIN added', added'[m] = added'[n]
          PROVE  m = n
      <4>1. CASE n \in new /\ m \in new
        BY <3>3, <3>5, <3>8, <4>1
      <4>2. CASE n \in new /\ m \notin new
        BY <3>5, <3>6, <3>8, <4>2 DEF InBank
      <4>3. CASE n \notin new /\ m \in new
        BY <3>5, <3>6, <3>8, <4>3 DEF InBank
      <4>4. CASE n \notin new /\ m \notin new
        BY <1>1, <3>5, <3>7, <3>8, <4>4 DEF SeenOnce
      <4> QED
        BY <4>1, <4>2, <4>3, <4>4
    <3>9. ASSUME NEW n \in DOMAIN added', added'[n] \notin twinned'
          PROVE  added'[n] # Printed
      BY <1>1, <3>5, <3>6, <3>7, <3>9 DEF SeenOnce, InBank
    <3>10. DOMAIN added' \subseteq 1..MaxIds
      BY <1>1, <3>4, <3>5 DEF SeenOnce
    <3> QED
      BY <3>8, <3>9, <3>10 DEF SeenOnce
  <2> QED
    BY <2>1, <2>2
<1> QED
  BY <1>1, <1>4, <1>5, <1>6, BankTurned DEF BankSteps

LEMMA EditingKeeps ==
  ASSUME BankInv, NEW d \in Authors,
         JudgeEdit(d) \/ UpdateQuestion(d) \/ \E n \in DOMAIN added, p \in Prompts : EditQuestion(d, n, p)
  PROVE  BankInv'
<1> DEFINE r == author[d]
<1>1. BankSound(r, added) /\ SeenOnce(added, twinned)
  BY DEF BankInv
<1>2. ASSUME NEW n \in DOMAIN added, NEW p \in Prompts, EditQuestion(d, n, p)
      PROVE  BankInv'
  <2> DEFINE z == [step |-> "judge", number |-> n, prompt |-> p]
  <2>1. Go(d, z) /\ UNCHANGED <<added, twinned>> /\ BankFree(d)
    BY <1>2 DEF EditQuestion, Told
  <2>2. BankSound(z, added)
    BY DEF BankSound
  <2> QED
    BY <2>1, <2>2, BankQuiet
<1>3. CASE JudgeEdit(d)
  <2>1. r.step = "judge" /\ UNCHANGED <<added, twinned>>
    BY <1>3 DEF JudgeEdit, Told, Is
  <2>2. CASE Clashes(r)
    <3>1. Go(d, Resting) /\ BankSound(Resting, added)
      BY <1>3, <2>2 DEF JudgeEdit, BankSound, Resting
    <3> QED
      BY <2>1, <3>1, BankQuiet DEF BankSteps
  <2>3. CASE ~Clashes(r)
    <3> DEFINE z == [r EXCEPT !.step = "update"]
    <3>1. Go(d, z)
      BY <1>3, <2>3 DEF JudgeEdit
    <3>2. z.step = "update" /\ z.number = r.number /\ z.prompt = r.prompt /\ DOMAIN z = DOMAIN r
      BY <1>1 DEF BankSound
    <3>3. BankSound(z, added)
      BY <1>1, <2>3, <3>2 DEF BankSound, Clashes
    <3> QED
      BY <2>1, <3>1, <3>3, BankQuiet DEF BankSteps
  <2> QED
    BY <2>2, <2>3
<1>4. CASE UpdateQuestion(d)
  <2>1. /\ r.step = "update" /\ Go(d, Resting) /\ UNCHANGED twinned
        /\ added' = IF r.number \in DOMAIN added THEN [added EXCEPT ![r.number] = r.prompt] ELSE added
    BY <1>4 DEF UpdateQuestion, Told, Is
  <2>2. DOMAIN added' = DOMAIN added /\ \A n \in DOMAIN added : added'[n] = IF n = r.number THEN r.prompt ELSE added[n]
    BY <2>1
  <2>3. r.prompt # Printed /\ \A n \in DOMAIN added \ {r.number} : added[n] # r.prompt
    BY <1>1, <2>1 DEF BankSound
  <2>4. SeenOnce(added', twinned')
    BY <1>1, <2>1, <2>2, <2>3 DEF SeenOnce
  <2>5. \A x \in Authors \ {d} : author[x].step \notin BankSteps
    BY <2>1 DEF BankInv, AloneInBank, BankSteps
  <2>6. \A x \in Authors \ {d} : BankSound(author[x], added')
    BY <2>5 DEF BankInv, BankSound, BankSteps
  <2>7. BankSound(Resting, added') /\ Resting.step = "idle"
    BY DEF BankSound, Resting
  <2> QED
    BY <2>1, <2>4, <2>6, <2>7, BankTurned DEF BankSteps
<1> QED
  BY <1>2, <1>3, <1>4

LEMMA RemovingKeeps ==
  ASSUME BankInv, NEW d \in Authors, RemoveQuestion(d) \/ \E n \in DOMAIN added : FindQuestion(d, n)
  PROVE  BankInv'
<1>1. ASSUME NEW n \in DOMAIN added, FindQuestion(d, n)
      PROVE  BankInv'
  <2>1. Go(d, [step |-> "remove", number |-> n]) /\ UNCHANGED <<added, twinned>>
    BY <1>1 DEF FindQuestion, Told
  <2>2. BankSound([step |-> "remove", number |-> n], added)
    BY DEF BankSound
  <2> QED
    BY <2>1, <2>2, BankQuiet DEF BankSteps
<1>2. CASE RemoveQuestion(d)
  <2>1. /\ Go(d, Resting) /\ UNCHANGED twinned
        /\ added' = [n \in DOMAIN added \ {author[d].number} |-> added[n]]
    BY <1>2 DEF RemoveQuestion, Told
  <2>2. DOMAIN added' \subseteq DOMAIN added /\ \A n \in DOMAIN added' : added'[n] = added[n]
    BY <2>1
  <2>3. SeenOnce(added', twinned')
    BY <2>1, <2>2 DEF BankInv, SeenOnce
  <2>4. \A x \in Authors \ {d} : BankSound(author[x], added')
    <3> SUFFICES ASSUME NEW x \in Authors PROVE BankSound(author[x], added')
      OBVIOUS
    <3>1. BankSound(author[x], added)
      BY DEF BankInv
    <3> HIDE DEF BankInv
    <3> QED
      BY <2>2, <3>1 DEF BankSound
  <2>5. BankSound(Resting, added') /\ Resting.step = "idle"
    BY DEF BankSound, Resting
  <2> QED
    BY <2>1, <2>3, <2>4, <2>5, BankTurned DEF BankSteps
<1> QED
  BY <1>1, <1>2

\* Hiding and restoring the published question, and a failure, change no added question.
LEMMA HidingKeeps ==
  ASSUME BankInv, NEW d \in Authors,
         \/ \E locked \in BOOLEAN : StartHiding(d, locked)
         \/ HidePublished(d) \/ StartRestoring(d) \/ RestorePublished(d) \/ AuthorFails(d)
  PROVE  BankInv'
<1>1. UNCHANGED <<added, twinned>>
  BY DEF StartHiding, HidePublished, StartRestoring, RestorePublished, AuthorFails, Told
<1>2. \E r : /\ Go(d, r) /\ "step" \in DOMAIN r /\ r.step \in {"idle", "hide", "hideLocked", "unhide"}
             /\ r.step \in {"hideLocked", "unhide"} => BankFree(d)
  <2>1. CASE HidePublished(d) \/ RestorePublished(d) \/ AuthorFails(d)
    <3>1. Go(d, Resting)
      BY <2>1 DEF HidePublished, RestorePublished, AuthorFails
    <3> QED
      BY <3>1 DEF Resting
  <2>2. CASE StartRestoring(d)
    <3>1. Go(d, [step |-> "unhide", rows |-> AllRemovals]) /\ BankFree(d)
      BY <2>2 DEF StartRestoring
    <3> QED
      BY <3>1
  <2>3. ASSUME NEW locked \in BOOLEAN, StartHiding(d, locked)
        PROVE  \E r : /\ Go(d, r) /\ "step" \in DOMAIN r /\ r.step \in {"idle", "hide", "hideLocked", "unhide"}
                      /\ r.step \in {"hideLocked", "unhide"} => BankFree(d)
    <3> DEFINE z == [step |-> IF locked THEN "hideLocked" ELSE "hide"]
    <3>1. (Go(d, Resting) \/ Go(d, z)) /\ (locked => BankFree(d))
      BY <2>3 DEF StartHiding
    <3>2. CASE Go(d, Resting)
      BY <3>2 DEF Resting
    <3>3. CASE Go(d, z)
      BY <3>1, <3>3
    <3> QED
      BY <3>1, <3>2, <3>3
  <2> QED
    BY <2>1, <2>2, <2>3
<1>3. PICK r : /\ Go(d, r) /\ "step" \in DOMAIN r /\ r.step \in {"idle", "hide", "hideLocked", "unhide"}
               /\ r.step \in {"hideLocked", "unhide"} => BankFree(d)
  BY <1>2
<1>4. BankSound(r, added)
  BY <1>3 DEF BankSound
<1> QED
  BY <1>1, <1>3, <1>4, BankQuiet DEF BankSteps

LEMMA BankStepKeeps ==
  ASSUME BankInv, [BankNext]_bankVars
  PROVE  BankInv'
<1>1. CASE UNCHANGED bankVars
  BY <1>1 DEF bankVars, BankInv, AloneInBank
<1>2. CASE BankNext
  <2>1. PICK d \in Authors :
          \/ \E p \in Prompts : SaveQuestion(d, p)
          \/ \E f \in Files : ReadFile(d, f)
          \/ TakeBank(d) \/ NumberRows(d) \/ InsertRows(d)
          \/ \E n \in DOMAIN added, p \in Prompts : EditQuestion(d, n, p)
          \/ JudgeEdit(d) \/ UpdateQuestion(d)
          \/ \E n \in DOMAIN added : FindQuestion(d, n)
          \/ RemoveQuestion(d)
          \/ \E locked \in BOOLEAN : StartHiding(d, locked)
          \/ HidePublished(d) \/ StartRestoring(d) \/ RestorePublished(d)
          \/ AuthorFails(d)
    BY <1>2 DEF BankNext
  <2> QED
    BY <2>1, SavingKeeps, ReadingKeeps, NumberingKeeps, InsertingKeeps, EditingKeeps, RemovingKeeps, HidingKeeps
<1> QED
  BY <1>1, <1>2

LEMMA BankStarts == BankInit => BankInv
<1> SUFFICES ASSUME BankInit PROVE BankInv
  OBVIOUS
<1>1. DOMAIN author = Authors /\ \A d \in Authors : author[d] = Resting
  BY DEF BankInit
<1>2. DOMAIN added = {}
  BY DEF BankInit
<1>3. BankSound(Resting, added) /\ Resting.step = "idle"
  BY DEF BankSound, Resting
<1> QED
  BY <1>1, <1>2, <1>3 DEF BankInv, SeenOnce, AloneInBank, BankSteps

LEMMA OnceMeansAtMostOne ==
  ASSUME BankInv
  PROVE  TwinsOnlyByImport
<1> SUFFICES ASSUME NEW p \in Prompts \ twinned
             PROVE  Cardinality({n \in DOMAIN added : added[n] = p}) + (IF p = Printed THEN 1 ELSE 0) <= 1
  BY DEF TwinsOnlyByImport
<1> DEFINE S == {n \in DOMAIN added : added[n] = p}
<1>1. \A n, m \in S : n = m /\ p # Printed
  BY DEF BankInv, SeenOnce
<1>2. CASE S = {}
  <2>1. Cardinality(S) = 0
    BY <1>2, FS_EmptySet
  <2> QED
    BY <2>1
<1>3. CASE S # {}
  <2>1. PICK n : S = {n}
    BY <1>1, <1>3
  <2>2. Cardinality(S) = 1 /\ p # Printed
    BY <1>1, <2>1, FS_Singleton
  <2> QED
    BY <2>2
<1> QED
  BY <1>2, <1>3

\* No two questions of the bank ask the same, unless an import put one in that had been judged
\* before the other came, for every interleaving of savings, imports, edits and deletions
\* (question-bank.mjs:139-144, question-intake.mjs:390-392).
THEOREM NoTwins == BankSpec => []TwinsOnlyByImport
<1>1. BankInit => BankInv
  BY BankStarts
<1>2. BankInv /\ [BankNext]_bankVars => BankInv'
  BY BankStepKeeps
<1>3. BankInv => TwinsOnlyByImport
  BY OnceMeansAtMostOne
<1> QED
  BY <1>1, <1>2, <1>3, PTL DEF BankSpec

----------------------------------------------------------------------------
(* The published question *)

\* While nobody has been hiding it since a restoration began, nobody is about to, and a
\* restoration that is under way takes out every row that hides it.
ShownInv ==
  /\ DOMAIN author = Authors
  /\ \A d \in Authors : "step" \in DOMAIN author[d]
  /\ shown => \A d \in Authors :
       /\ author[d].step \notin {"hide", "hideLocked"}
       /\ author[d].step = "unhide" => removals \subseteq author[d].rows
  /\ RestoredIsShown

\* A step that begins or ends neither a hiding nor a restoration.
LEMMA ElsewhereKeepsShown ==
  ASSUME ShownInv, NEW d \in Authors, NEW r, Go(d, r), UNCHANGED <<removals, shown>>,
         author[d].step # "unhide", "step" \in DOMAIN r, r.step \notin {"hide", "hideLocked", "unhide"}
  PROVE  ShownInv'
<1>1. DOMAIN author' = Authors /\ \A x \in Authors : author'[x] = IF x = d THEN r ELSE author[x]
  BY DEF ShownInv, Go
<1>2. RestoredIsShown'
  BY <1>1 DEF ShownInv, RestoredIsShown, Is
<1> QED
  BY <1>1, <1>2 DEF ShownInv

LEMMA QuestionsKeepShown ==
  ASSUME ShownInv, NEW d \in Authors,
         \/ \E p \in Prompts : SaveQuestion(d, p)
         \/ \E f \in Files : ReadFile(d, f)
         \/ TakeBank(d) \/ NumberRows(d) \/ InsertRows(d)
         \/ \E n \in DOMAIN added, p \in Prompts : EditQuestion(d, n, p)
         \/ JudgeEdit(d) \/ UpdateQuestion(d)
         \/ \E n \in DOMAIN added : FindQuestion(d, n)
         \/ RemoveQuestion(d)
  PROVE  ShownInv'
<1>1. UNCHANGED <<removals, shown>> /\ author[d].step # "unhide" /\ "step" \in DOMAIN author[d]
  BY DEF ShownInv, SaveQuestion, ReadFile, TakeBank, NumberRows, InsertRows, EditQuestion, JudgeEdit,
         UpdateQuestion, FindQuestion, RemoveQuestion, Told, Is
<1>2. \E r : Go(d, r) /\ "step" \in DOMAIN r /\ r.step \notin {"hide", "hideLocked", "unhide"}
  <2>1. ASSUME NEW p \in Prompts, SaveQuestion(d, p)
        PROVE  \E r : Go(d, r) /\ "step" \in DOMAIN r /\ r.step \notin {"hide", "hideLocked", "unhide"}
    <3>1. Go(d, [step |-> "number", prompts |-> <<p>>, import |-> FALSE])
      BY <2>1 DEF SaveQuestion
    <3> QED
      BY <3>1
  <2>2. ASSUME NEW f \in Files, ReadFile(d, f)
        PROVE  \E r : Go(d, r) /\ "step" \in DOMAIN r /\ r.step \notin {"hide", "hideLocked", "unhide"}
    <3>1. Go(d, [step |-> "wait", prompts |-> Accepted(f), import |-> TRUE])
      BY <2>2 DEF ReadFile
    <3> QED
      BY <3>1
  <2>3. ASSUME NEW n \in DOMAIN added,
               FindQuestion(d, n) \/ \E p \in Prompts : EditQuestion(d, n, p)
        PROVE  \E r : Go(d, r) /\ "step" \in DOMAIN r /\ r.step \notin {"hide", "hideLocked", "unhide"}
    <3>1. \/ Go(d, [step |-> "remove", number |-> n])
          \/ \E p \in Prompts : Go(d, [step |-> "judge", number |-> n, prompt |-> p])
      BY <2>3 DEF FindQuestion, EditQuestion
    <3>2. ASSUME NEW p \in Prompts, Go(d, [step |-> "judge", number |-> n, prompt |-> p])
          PROVE  \E r : Go(d, r) /\ "step" \in DOMAIN r /\ r.step \notin {"hide", "hideLocked", "unhide"}
      BY <3>2
    <3>3. CASE Go(d, [step |-> "remove", number |-> n])
      BY <3>3
    <3> QED
      BY <3>1, <3>2, <3>3
  <2>4. CASE TakeBank(d)
    <3>1. Go(d, [author[d] EXCEPT !.step = "number"])
      BY <2>4 DEF TakeBank
    <3> QED
      BY <1>1, <3>1
  <2>5. CASE NumberRows(d)
    <3>1. Go(d, [step |-> "insert", prompts |-> author[d].prompts, import |-> author[d].import,
                 first |-> NextNumber])
      BY <2>5 DEF NumberRows
    <3> QED
      BY <3>1
  <2>6. CASE InsertRows(d) \/ UpdateQuestion(d) \/ RemoveQuestion(d) \/ (JudgeEdit(d) /\ Clashes(author[d]))
    <3>1. Go(d, Resting)
      BY <2>6 DEF InsertRows, UpdateQuestion, RemoveQuestion, JudgeEdit
    <3> QED
      BY <3>1 DEF Resting
  <2>7. CASE JudgeEdit(d) /\ ~Clashes(author[d])
    <3>1. Go(d, [author[d] EXCEPT !.step = "update"])
      BY <2>7 DEF JudgeEdit
    <3> QED
      BY <1>1, <3>1
  <2> QED
    BY <2>1, <2>2, <2>3, <2>4, <2>5, <2>6, <2>7
<1>3. PICK r : Go(d, r) /\ "step" \in DOMAIN r /\ r.step \notin {"hide", "hideLocked", "unhide"}
  BY <1>2
<1> QED
  BY <1>1, <1>3, ElsewhereKeepsShown

LEMMA HidingKeepsShown ==
  ASSUME ShownInv, NEW d \in Authors, HidePublished(d) \/ \E locked \in BOOLEAN : StartHiding(d, locked)
  PROVE  ShownInv'
<1>1. shown' = FALSE
  <2>1. CASE HidePublished(d)
    BY <2>1 DEF HidePublished, ShownInv, Told
  <2>2. CASE \E locked \in BOOLEAN : StartHiding(d, locked)
    BY <2>2 DEF StartHiding
  <2> QED
    BY <2>1, <2>2
<1>2. \E r : Go(d, r) /\ "step" \in DOMAIN r
  <2>1. \/ Go(d, Resting)
        \/ \E locked \in BOOLEAN : Go(d, [step |-> IF locked THEN "hideLocked" ELSE "hide"])
    BY DEF HidePublished, StartHiding
  <2>2. CASE Go(d, Resting)
    BY <2>2 DEF Resting
  <2>3. ASSUME NEW locked \in BOOLEAN, Go(d, [step |-> IF locked THEN "hideLocked" ELSE "hide"])
        PROVE  \E r : Go(d, r) /\ "step" \in DOMAIN r
    BY <2>3
  <2> QED
    BY <2>1, <2>2, <2>3
<1>3. PICK r : Go(d, r) /\ "step" \in DOMAIN r
  BY <1>2
<1>4. DOMAIN author' = Authors /\ \A x \in Authors : author'[x] = IF x = d THEN r ELSE author[x]
  BY <1>3 DEF ShownInv, Go
<1>5. RestoredIsShown'
  BY <1>1 DEF RestoredIsShown
<1> QED
  BY <1>1, <1>3, <1>4, <1>5 DEF ShownInv

LEMMA RestoringKeepsShown ==
  ASSUME ShownInv, NEW d \in Authors, StartRestoring(d) \/ RestorePublished(d) \/ AuthorFails(d)
  PROVE  ShownInv'
<1>1. CASE StartRestoring(d)
  <2> DEFINE r == [step |-> "unhide", rows |-> removals]
  <2>1. /\ Go(d, r) /\ BankFree(d) /\ UNCHANGED removals
        /\ shown' = \A x \in Authors : author[x].step \notin {"hide", "hideLocked"}
    BY <1>1 DEF StartRestoring, AllRemovals
  <2>2. DOMAIN author' = Authors /\ \A x \in Authors : author'[x] = IF x = d THEN r ELSE author[x]
    BY <2>1 DEF ShownInv, Go
  <2>3. author'[d].step = "unhide"
    BY <2>2
  <2>4. RestoredIsShown'
    BY <2>3 DEF RestoredIsShown, Is
  <2>5. \A x \in Authors \ {d} : author[x].step # "unhide"
    BY <2>1 DEF BankFree
  <2> QED
    BY <2>1, <2>2, <2>4, <2>5 DEF ShownInv
<1>2. CASE RestorePublished(d)
  <2>1. Go(d, Resting) /\ removals' = removals \ author[d].rows /\ UNCHANGED shown /\ author[d].step = "unhide"
    BY <1>2 DEF RestorePublished, Told, Is
  <2>2. DOMAIN author' = Authors /\ \A x \in Authors : author'[x] = IF x = d THEN Resting ELSE author[x]
    BY <2>1 DEF ShownInv, Go
  <2>3. shown => removals' = {}
    BY <2>1 DEF ShownInv
  <2>4. RestoredIsShown'
    BY <2>1, <2>3 DEF RestoredIsShown
  <2> QED
    BY <2>1, <2>2, <2>3, <2>4 DEF ShownInv, Resting
<1>3. CASE AuthorFails(d)
  <2>1. Go(d, Resting) /\ UNCHANGED removals /\ shown' = (shown /\ author[d].step # "unhide")
    BY <1>3 DEF AuthorFails, Is
  <2>2. DOMAIN author' = Authors /\ \A x \in Authors : author'[x] = IF x = d THEN Resting ELSE author[x]
    BY <2>1 DEF ShownInv, Go
  <2>3. RestoredIsShown'
    BY <2>1, <2>2 DEF ShownInv, RestoredIsShown, Is
  <2>4. shown' => shown
    BY <2>1
  <2>5. Resting.step = "idle" /\ "step" \in DOMAIN Resting
    BY DEF Resting
  <2> QED
    BY <2>1, <2>2, <2>3, <2>4, <2>5 DEF ShownInv
<1> QED
  BY <1>1, <1>2, <1>3

LEMMA ShownStepKeeps ==
  ASSUME ShownInv, [BankNext]_bankVars
  PROVE  ShownInv'
<1>1. CASE UNCHANGED bankVars
  BY <1>1 DEF bankVars, ShownInv, RestoredIsShown, Is
<1>2. CASE BankNext
  BY <1>2, QuestionsKeepShown, HidingKeepsShown, RestoringKeepsShown DEF BankNext
<1> QED
  BY <1>1, <1>2

\* A published question that was restored is in circulation until somebody hides it again, for
\* every number of rows that hid it and every interleaving (shared.mjs:220-255).
THEOREM RestoringShows == BankSpec => []RestoredIsShown
<1>1. BankInit => ShownInv
  BY DEF BankInit, ShownInv, RestoredIsShown, Resting
<1>2. ShownInv /\ [BankNext]_bankVars => ShownInv'
  BY ShownStepKeeps
<1>3. ShownInv => RestoredIsShown
  BY DEF ShownInv
<1> QED
  BY <1>1, <1>2, <1>3, PTL DEF BankSpec

----------------------------------------------------------------------------
(* Tracks: the invariant *)

Going == {"goItems", "goComps", "goFrames", "goRow"}
AtTrack == {"frame", "waitPrompt", "insertItem"} \cup ToppingUp \cup Undoing \cup Going

\* A request h that holds the lock of the key; one whose answer will promise its track; one
\* that added its track itself and has not finished with it.
Locked(h) == h.step \in Adding \cup Undoing \/ (h.step \in ToppingUp /\ h.by # "sync")
Promising(h) == h.step \in ToppingUp /\ h.by # "sync" /\ h.clear
Owns(h) == h.step \in {"frame"} \cup Undoing \/ (h.step \in ToppingUp /\ h.fresh)

Shaped(h) ==
  /\ "step" \in DOMAIN h
  /\ h.step \in AtTrack => "role" \in DOMAIN h
  /\ h.step \in ToppingUp =>
       /\ {"by", "fresh", "clear"} \subseteq DOMAIN h /\ h.fresh \in BOOLEAN /\ h.clear \in BOOLEAN
       /\ h.by = "sync" => ~h.fresh /\ h.step \notin {"ensure", "addFrame"}
  /\ h.step = "addItems" => "add" \in DOMAIN h

\* What h has found of a track t that it will promise, and what it has left of one it undoes.
Found(h, t) ==
  /\ t.row
  /\ h.step \notin {"comps", "addComps"} => t.comps > 0
  /\ h.step = "addItems" => \A q \in Posted \ h.add : t.items[q] > 0
  /\ h.step \in {"ensure", "addFrame"} => \A q \in Posted : t.items[q] > 0
LeftOf(h, t) ==
  /\ h.step # "undoItems" => t.items = NoTrack.items
  /\ h.step \in {"undoFrames", "undoRow"} => t.comps = 0
  /\ h.step = "undoRow" => t.frames = 0

\* What h may rely on, given the tracks, the promised one, those undone and those met.
HelperSound(h, rows, told, gone, known) ==
  /\ Shaped(h)
  /\ h.step \in AtTrack => h.role \in DOMAIN rows /\ (Owns(h) \/ h.role \in known)
  /\ Owns(h) => h.role \notin gone
  /\ Owns(h) \/ h.step \in Going => h.role # told
  /\ h.step = "insert" => \A r \in DOMAIN rows : ~rows[r].row
  /\ h.step \in {"frame", "addFrame"} => rows[h.role].frames = 0
  /\ Promising(h) => Found(h, rows[h.role])
  /\ h.step \in Undoing /\ h.role \notin known => LeftOf(h, rows[h.role])

Track == [row : BOOLEAN, active : BOOLEAN, frames : {0, 1}, comps : Nat, items : [Posted -> Nat]]

Whole(t) == t.row /\ t.frames = 1 /\ t.comps > 0 /\ \A q \in Posted : t.items[q] > 0

TracksSound(rows, told, gone, known) ==
  /\ \E k \in Nat : DOMAIN rows = 1..k
  /\ \A r \in DOMAIN rows : rows[r] \in Track
  /\ \A r, s \in DOMAIN rows : rows[r].row /\ rows[s].row => r = s
  /\ told # 0 => told \in DOMAIN rows /\ Whole(rows[told])
  /\ gone \subseteq DOMAIN rows /\ \A r \in gone \ known : rows[r] = NoTrack

TracksInv ==
  /\ DOMAIN helper = Helpers
  /\ \A d \in Helpers : HelperSound(helper[d], roles, promised, undone, met)
  /\ TracksSound(roles, promised, undone, met)
  /\ \A d, e \in Helpers : Locked(helper[d]) /\ Locked(helper[e]) => d = e
  /\ \A d, e \in Helpers : Promising(helper[d]) /\ helper[e].step \in Going => helper[d].role # helper[e].role

----------------------------------------------------------------------------
(* Tracks: kinds of steps *)

LEMMA StepsApart ==
  /\ Adding \cap ToppingUp = {} /\ Adding \cap Undoing = {} /\ Adding \cap Going = {}
  /\ ToppingUp \cap Undoing = {} /\ ToppingUp \cap Going = {} /\ Undoing \cap Going = {}
  /\ "idle" \notin AtTrack \cup Adding
BY DEF Adding, ToppingUp, Undoing, Going, AtTrack

\* Whoever promises or owns a track, or is about to give it a framework, holds the lock.
LEMMA HoldsTheLock ==
  ASSUME NEW h, Shaped(h), Promising(h) \/ Owns(h) \/ h.step \in {"insert", "frame", "addFrame"}
  PROVE  Locked(h)
BY DEF Shaped, Promising, Owns, Locked, Adding, ToppingUp

\* A request without the lock relies on little.
LEMMA UnlockedSound ==
  ASSUME NEW h, NEW rows, NEW told, NEW gone, NEW known, HelperSound(h, rows, told, gone, known), ~Locked(h),
         NEW rows2, NEW told2, NEW gone2, NEW known2,
         DOMAIN rows \subseteq DOMAIN rows2, known \subseteq known2, h.step \in Going => h.role # told2
  PROVE  HelperSound(h, rows2, told2, gone2, known2)
<1>1. Shaped(h) /\ ~Promising(h) /\ ~Owns(h) /\ h.step \notin {"insert", "frame", "addFrame"}
  BY HoldsTheLock DEF HelperSound
<1>2. h.step \notin Undoing
  BY DEF Locked
<1> QED
  BY <1>1, <1>2 DEF HelperSound

\* A track that gains competencies and questions is as good to everybody but those who
\* are taking it apart.
LEMMA GrownSound ==
  ASSUME NEW h, NEW rows, NEW told, NEW gone, NEW known, HelperSound(h, rows, told, gone, known),
         NEW rows2, DOMAIN rows2 = DOMAIN rows,
         \A r \in DOMAIN rows : /\ rows[r] \in Track /\ rows2[r] \in Track
                                /\ rows2[r].row = rows[r].row /\ rows2[r].frames = rows[r].frames
                                /\ rows2[r].comps >= rows[r].comps
                                /\ \A q \in Posted : rows2[r].items[q] >= rows[r].items[q],
         h.step \in Undoing /\ h.role \notin known =>
           rows2[h.role].comps = rows[h.role].comps /\ rows2[h.role].items = rows[h.role].items
  PROVE  HelperSound(h, rows2, told, gone, known)
<1>1. Promising(h) \/ h.step \in Undoing \cup {"frame", "addFrame"} => h.role \in DOMAIN rows
  BY DEF HelperSound, Promising, AtTrack, ToppingUp
<1>2. Promising(h) => Found(h, rows2[h.role])
  <2> SUFFICES ASSUME Promising(h) PROVE Found(h, rows2[h.role])
    OBVIOUS
  <2> DEFINE t == rows[h.role]
             u == rows2[h.role]
  <2>1. Found(h, t) /\ u.row = t.row /\ u.comps >= t.comps /\ \A q \in Posted : u.items[q] >= t.items[q]
    BY <1>1 DEF HelperSound
  <2>2. t.comps \in Nat /\ u.comps \in Nat /\ \A q \in Posted : t.items[q] \in Nat /\ u.items[q] \in Nat
    BY <1>1 DEF Track
  <2> HIDE DEF t, u
  <2>3. \A q \in Posted : t.items[q] > 0 => u.items[q] > 0
    BY <2>1, <2>2
  <2>4. t.comps > 0 => u.comps > 0
    BY <2>1, <2>2
  <2>5. u.row
    BY <2>1 DEF Found
  <2>6. Found(h, u)
    BY <2>1, <2>3, <2>4, <2>5 DEF Found
  <2> QED
    BY <2>6 DEF u
<1>3. h.step \in Undoing /\ h.role \notin known => LeftOf(h, rows2[h.role])
  BY <1>1 DEF HelperSound, LeftOf
<1>4. h.step \in {"frame", "addFrame"} => rows2[h.role].frames = 0
  BY <1>1 DEF HelperSound
<1>5. h.step = "insert" => \A r \in DOMAIN rows2 : ~rows2[r].row
  BY DEF HelperSound
<1> QED
  BY <1>2, <1>3, <1>4, <1>5 DEF HelperSound

LEMMA HelperTurned ==
  ASSUME TracksInv, NEW d \in Helpers, NEW z, Then(d, z),
         HelperSound(z, roles', promised', undone', met'), TracksSound(roles', promised', undone', met'),
         \A x \in Helpers \ {d} : HelperSound(helper[x], roles', promised', undone', met'),
         Locked(z) => \A x \in Helpers \ {d} : ~Locked(helper[x]),
         Promising(z) => \A x \in Helpers \ {d} : helper[x].step \in Going => helper[x].role # z.role,
         z.step \in Going => \A x \in Helpers \ {d} : Promising(helper[x]) => helper[x].role # z.role
  PROVE  TracksInv'
<1>1. DOMAIN helper' = Helpers /\ \A x \in Helpers : helper'[x] = IF x = d THEN z ELSE helper[x]
  BY DEF TracksInv, Then
<1>2. \A x \in Helpers : HelperSound(helper'[x], roles', promised', undone', met')
  BY <1>1
<1>3. \A x, y \in Helpers : Locked(helper'[x]) /\ Locked(helper'[y]) => x = y
  BY <1>1 DEF TracksInv
<1>4. ~(Promising(z) /\ z.step \in Going)
  BY StepsApart DEF Promising
<1>5. \A x, y \in Helpers : Promising(helper'[x]) /\ helper'[y].step \in Going => helper'[x].role # helper'[y].role
  BY <1>1, <1>4 DEF TracksInv
<1> QED
  BY <1>1, <1>2, <1>3, <1>5 DEF TracksInv

\* A step that leaves the tracks alone.
LEMMA TracksStay ==
  ASSUME TracksInv, NEW d \in Helpers, NEW z, Then(d, z), UNCHANGED <<roles, promised, undone>>, met \subseteq met',
         HelperSound(z, roles, promised, undone, met'),
         Locked(z) => Locked(helper[d]) \/ \A x \in Helpers \ {d} : ~Locked(helper[x]),
         Promising(z) => \/ Promising(helper[d]) /\ helper[d].role = z.role
                         \/ \A x \in Helpers \ {d} : helper[x].step \in Going => helper[x].role # z.role,
         z.step \in Going => helper[d].step \in Going /\ helper[d].role = z.role
  PROVE  TracksInv'
<1>1. \A x \in Helpers : HelperSound(helper[x], roles, promised, undone, met')
  BY DEF TracksInv, HelperSound
<1>2. TracksSound(roles, promised, undone, met')
  BY DEF TracksInv, TracksSound
<1>3. Locked(z) => \A x \in Helpers \ {d} : ~Locked(helper[x])
  BY DEF TracksInv
<1>4. Promising(z) => \A x \in Helpers \ {d} : helper[x].step \in Going => helper[x].role # z.role
  BY DEF TracksInv
<1>5. z.step \in Going => \A x \in Helpers \ {d} : Promising(helper[x]) => helper[x].role # z.role
  BY DEF TracksInv
<1> QED
  BY <1>1, <1>2, <1>3, <1>4, <1>5, HelperTurned

\* A request that ends.
LEMMA EndsQuietly ==
  ASSUME TracksInv, NEW d \in Helpers, Then(d, Asleep), UNCHANGED <<roles, promised, undone, met>>
  PROVE  TracksInv'
<1>1. Asleep.step = "idle" /\ "step" \in DOMAIN Asleep
  BY DEF Asleep
<1>2. HelperSound(Asleep, roles, promised, undone, met) /\ ~Locked(Asleep) /\ ~Promising(Asleep)
  BY <1>1, StepsApart DEF HelperSound, Shaped, Locked, Promising, Owns, AtTrack, Adding, ToppingUp, Undoing, Going
<1> QED
  BY <1>1, <1>2, StepsApart, TracksStay DEF AtTrack

\* A request that goes on to another step is otherwise as it was.
LEMMA StagedAs ==
  ASSUME NEW h, "step" \in DOMAIN h, NEW step, NEW z, z = [h EXCEPT !.step = step]
  PROVE  /\ z.step = step /\ DOMAIN z = DOMAIN h
         /\ "role" \in DOMAIN h => z.role = h.role
         /\ "by" \in DOMAIN h => z.by = h.by
         /\ "fresh" \in DOMAIN h => z.fresh = h.fresh
         /\ "clear" \in DOMAIN h => z.clear = h.clear
OBVIOUS

----------------------------------------------------------------------------
(* Tracks: the steps *)

\* While a request holds the lock alone, nobody else relies on more than an unlocked one does.
LEMMA OthersUnlocked ==
  ASSUME TracksInv, NEW d \in Helpers, Locked(helper[d])
  PROVE  \A x \in Helpers \ {d} : ~Locked(helper[x])
BY DEF TracksInv

LEMMA KeyFreeMeans ==
  ASSUME TracksInv, NEW d \in Helpers, KeyFree(d)
  PROVE  \A x \in Helpers \ {d} : ~Locked(helper[x])
BY DEF KeyFree, Locked

LEMMA CreatingKeeps ==
  ASSUME TracksInv, NEW d \in Helpers, CreateTrack(d)
  PROVE  TracksInv'
<1> DEFINE z == [step |-> "insert", by |-> "hand"]
<1>1. Then(d, z) /\ UNCHANGED <<roles, promised, undone, met>> /\ KeyFree(d) /\ RoleRows = {}
  BY DEF CreateTrack, Untold
<1>2. z.step = "insert" /\ z.step \notin AtTrack
  BY DEF AtTrack, ToppingUp, Undoing, Going
<1>3. HelperSound(z, roles, promised, undone, met) /\ ~Promising(z)
  BY <1>1, <1>2 DEF HelperSound, Shaped, Promising, Owns, RoleRows, AtTrack
<1> QED
  BY <1>1, <1>2, <1>3, KeyFreeMeans, TracksStay DEF AtTrack

\* The new track is nobody's yet.
LEMMA InsertingTrackKeeps ==
  ASSUME TracksInv, NEW d \in Helpers, InsertTrack(d)
  PROVE  TracksInv'
<1> DEFINE n == Cardinality(DOMAIN roles) + 1
           new == [NoTrack EXCEPT !.row = TRUE, !.active = TRUE]
           more == [x \in DOMAIN roles \cup {n} |-> IF x = n THEN new ELSE roles[x]]
<1>1. /\ helper[d].step = "insert" /\ roles' = more /\ UNCHANGED <<promised, undone, met>>
      /\ HelperSound(helper[d], roles, promised, undone, met) /\ TracksSound(roles, promised, undone, met)
  BY DEF TracksInv, InsertTrack, Works, Untold
<1>2. PICK k \in Nat : DOMAIN roles = 1..k
  BY <1>1 DEF TracksSound
<1>3. n = k + 1
  <2>1. Cardinality(1..k) = k
    BY FS_Interval
  <2> QED
    BY <1>2, <2>1
<1>4. /\ DOMAIN roles' = 1..(k + 1) /\ n \notin DOMAIN roles /\ n # 0
      /\ \A r \in DOMAIN roles' : roles'[r] = IF r = n THEN new ELSE roles[r]
  BY <1>1, <1>2, <1>3
<1>5. new \in Track /\ new.row /\ new.frames = 0
  BY DEF Track, NoTrack
<1> HIDE DEF n, new
<1>6. \A r \in DOMAIN roles : ~roles[r].row
  BY <1>1 DEF HelperSound
<1>7. promised = 0
  BY <1>1, <1>6 DEF TracksSound, Whole
<1>8. Locked(helper[d])
  BY <1>1 DEF Locked, Adding
<1>9. \A x \in Helpers \ {d} : ~Locked(helper[x])
  BY <1>8, OthersUnlocked
<1>10. \A x \in Helpers \ {d} : helper[x].step \in AtTrack => helper[x].role \in DOMAIN roles
  BY DEF TracksInv, HelperSound
<1>11. TracksSound(roles', promised', undone', met')
  <2>1. \A r \in DOMAIN roles' : roles'[r] \in Track
    BY <1>1, <1>4, <1>5 DEF TracksSound
  <2>2. \A r, s \in DOMAIN roles' : roles'[r].row /\ roles'[s].row => r = s
    BY <1>2, <1>3, <1>4, <1>6
  <2>3. undone' \subseteq DOMAIN roles' /\ \A r \in undone' \ met' : roles'[r] = NoTrack
    BY <1>1, <1>2, <1>3, <1>4 DEF TracksSound
  <2>4. \E j \in Nat : DOMAIN roles' = 1..j
    <3>1. k + 1 \in Nat
      OBVIOUS
    <3> QED
      BY <1>4, <3>1
  <2>5. promised' = 0
    BY <1>1, <1>7
  <2> QED
    BY <2>1, <2>2, <2>3, <2>4, <2>5 DEF TracksSound
<1>12. \A x \in Helpers \ {d} : HelperSound(helper[x], roles', promised', undone', met')
  <2> SUFFICES ASSUME NEW x \in Helpers \ {d} PROVE HelperSound(helper[x], roles', promised', undone', met')
    OBVIOUS
  <2>1. HelperSound(helper[x], roles, promised, undone, met)
    BY DEF TracksInv
  <2>2. DOMAIN roles \subseteq DOMAIN roles' /\ met \subseteq met'
    BY <1>1, <1>2, <1>4
  <2>3. helper[x].step \in Going => helper[x].role # promised'
    BY <1>1, <2>1 DEF HelperSound
  <2> QED
    BY <1>9, <2>1, <2>2, <2>3, UnlockedSound
<1>13. n \in DOMAIN roles' /\ n \notin undone' /\ n # promised' /\ roles'[n] = new
  BY <1>1, <1>2, <1>3, <1>4, <1>7 DEF TracksSound
<1>14. PICK z : /\ Then(d, z) /\ "role" \in DOMAIN z /\ z.role = n
                /\ HelperSound(z, roles', promised', undone', met') /\ z.step \notin Going
  <2>1. CASE helper[d].by = "hand"
    <3> DEFINE y == [step |-> "frame", by |-> "hand", role |-> n]
    <3>1. Then(d, y)
      BY <2>1 DEF InsertTrack, n
    <3>2. y.step = "frame" /\ y.step \in AtTrack /\ y.step \notin ToppingUp \cup Undoing \cup Going
      BY DEF AtTrack, ToppingUp, Undoing, Going
    <3>3. HelperSound(y, roles', promised', undone', met')
      BY <1>5, <1>13, <3>2 DEF HelperSound, Shaped, Owns, Promising
    <3> QED
      BY <3>1, <3>2, <3>3
  <2>2. CASE helper[d].by # "hand"
    <3> DEFINE y == [step |-> "comps", by |-> "install", role |-> n, fresh |-> TRUE, clear |-> TRUE]
    <3>1. Then(d, y)
      BY <2>2 DEF InsertTrack, n
    <3>2. y.step = "comps" /\ y.step \in ToppingUp /\ y.step \in AtTrack /\ y.step \notin Undoing \cup Going
      BY DEF AtTrack, ToppingUp, Undoing, Going
    <3>3. HelperSound(y, roles', promised', undone', met')
      BY <1>5, <1>13, <3>2 DEF HelperSound, Shaped, Owns, Promising, Found
    <3> QED
      BY <3>1, <3>2, <3>3
  <2> QED
    BY <2>1, <2>2
<1>15. \A x \in Helpers \ {d} : helper[x].step \in Going => helper[x].role # z.role
  BY <1>4, <1>10, <1>14 DEF AtTrack
<1> QED
  BY <1>9, <1>11, <1>12, <1>14, <1>15, HelperTurned

\* A track gets its framework from whoever holds the lock.
LEMMA Framed ==
  ASSUME TracksInv, NEW d \in Helpers, helper[d].step \in {"frame", "addFrame"},
         roles' = [roles EXCEPT ![helper[d].role].frames = @ + 1]
  PROVE  LET r == helper[d].role IN
         /\ r \in DOMAIN roles /\ DOMAIN roles' = DOMAIN roles /\ roles'[r] \in Track
         /\ \A x \in DOMAIN roles : x # r => roles'[x] = roles[x]
         /\ roles'[r].row = roles[r].row /\ roles'[r].comps = roles[r].comps /\ roles'[r].items = roles[r].items
         /\ roles'[r].frames = 1 /\ roles[r].frames = 0
<1> DEFINE r == helper[d].role
<1>1. r \in DOMAIN roles /\ roles[r].frames = 0
  BY DEF TracksInv, HelperSound, AtTrack, ToppingUp
<1>2. roles[r] \in Track
  BY <1>1 DEF TracksInv, TracksSound
<1>3. roles'[r] = [roles[r] EXCEPT !.frames = 1]
  BY <1>1, <1>2 DEF Track
<1>4. roles'[r] \in Track
  BY <1>2, <1>3 DEF Track
<1> QED
  BY <1>1, <1>2, <1>3, <1>4 DEF Track

\* The tracks stay as good when one gets its framework.
LEMMA FramedSound ==
  ASSUME TracksInv, NEW r \in DOMAIN roles, r \notin undone \/ r \in met,
         DOMAIN roles' = DOMAIN roles, roles'[r] \in Track,
         \A x \in DOMAIN roles : x # r => roles'[x] = roles[x],
         roles'[r].row = roles[r].row, roles'[r].comps = roles[r].comps, roles'[r].items = roles[r].items,
         roles'[r].frames = 1, NEW told, told # 0 => told \in DOMAIN roles /\ Whole(roles'[told])
  PROVE  TracksSound(roles', told, undone, met)
<1>1. TracksSound(roles, promised, undone, met)
  BY DEF TracksInv
<1>2. \A x \in DOMAIN roles : roles'[x] \in Track /\ (roles'[x].row => roles[x].row)
  BY <1>1 DEF TracksSound
<1>3. \A x \in undone \ met : roles'[x] = NoTrack
  BY <1>1 DEF TracksSound
<1> QED
  BY <1>1, <1>2, <1>3 DEF TracksSound

LEMMA FramingKeeps ==
  ASSUME TracksInv, NEW d \in Helpers, InsertFrame(d)
  PROVE  TracksInv'
<1> DEFINE r == helper[d].role
<1>1. /\ helper[d].step = "frame" /\ Then(d, Asleep) /\ UNCHANGED <<promised, undone, met>>
      /\ roles' = [roles EXCEPT ![r].frames = @ + 1]
  BY DEF InsertFrame, Works, Untold
<1>2. /\ r \in DOMAIN roles /\ DOMAIN roles' = DOMAIN roles /\ roles'[r] \in Track
      /\ \A x \in DOMAIN roles : x # r => roles'[x] = roles[x]
      /\ roles'[r].row = roles[r].row /\ roles'[r].comps = roles[r].comps /\ roles'[r].items = roles[r].items
      /\ roles'[r].frames = 1 /\ roles[r].frames = 0
  BY <1>1, Framed
<1>3. Locked(helper[d]) /\ Owns(helper[d])
  BY <1>1 DEF Locked, Owns, Adding
<1>4. r \notin undone /\ r # promised
  BY <1>3 DEF TracksInv, HelperSound
<1>5. promised # 0 => promised \in DOMAIN roles /\ Whole(roles'[promised])
  BY <1>2, <1>4 DEF TracksInv, TracksSound
<1>6. TracksSound(roles', promised, undone, met)
  BY <1>2, <1>4, <1>5, FramedSound
<1>7. \A x \in Helpers \ {d} : HelperSound(helper[x], roles', promised, undone, met)
  <2>1. \A x \in Helpers \ {d} : ~Locked(helper[x]) /\ HelperSound(helper[x], roles, promised, undone, met)
    BY <1>3, OthersUnlocked DEF TracksInv
  <2>2. \A x \in Helpers \ {d} : helper[x].step \in Going => helper[x].role # promised
    BY <2>1 DEF HelperSound
  <2> QED
    BY <1>2, <2>1, <2>2, UnlockedSound
<1>8. Asleep.step = "idle" /\ "step" \in DOMAIN Asleep
  BY DEF Asleep
<1>9. HelperSound(Asleep, roles', promised, undone, met) /\ ~Locked(Asleep) /\ ~Promising(Asleep)
  BY <1>8, StepsApart DEF HelperSound, Shaped, Locked, Promising, Owns, AtTrack, Adding, ToppingUp, Undoing, Going
<1> QED
  BY <1>1, <1>6, <1>7, <1>8, <1>9, StepsApart, HelperTurned DEF AtTrack

\* The answer of an installation whose track has its framework by now.
LEMMA AnsweringKeeps ==
  ASSUME TracksInv, NEW d \in Helpers, Answered(d), helper[d].step \in {"ensure", "addFrame"},
         NEW r, r = helper[d].role, r \in DOMAIN roles,
         DOMAIN roles' = DOMAIN roles, roles'[r] \in Track,
         \A x \in DOMAIN roles : x # r => roles'[x] = roles[x],
         roles'[r].row = roles[r].row, roles'[r].comps = roles[r].comps, roles'[r].items = roles[r].items,
         roles'[r].frames = 1
  PROVE  TracksInv'
<1> DEFINE h == helper[d]
<1>1. /\ Then(d, Asleep) /\ UNCHANGED <<undone, met>>
      /\ promised' = IF h.clear THEN r ELSE promised
  BY DEF Answered
<1>2. h.step \in ToppingUp /\ h.step \in AtTrack /\ HelperSound(h, roles, promised, undone, met)
  BY DEF TracksInv, ToppingUp, AtTrack
<1>3. h.by # "sync" /\ Locked(h) /\ h.clear \in BOOLEAN /\ (h.clear => Promising(h))
  BY <1>2 DEF HelperSound, Shaped, Locked, Promising
<1>4. r \notin undone \/ r \in met
  BY <1>2 DEF HelperSound
<1>5. TracksSound(roles, promised, undone, met)
  BY DEF TracksInv
<1>6. promised' # 0 => promised' \in DOMAIN roles /\ Whole(roles'[promised'])
  <2>1. CASE h.clear
    <3>1. Found(h, roles[r])
      BY <1>2, <1>3, <2>1 DEF HelperSound
    <3>2. Whole(roles'[r])
      BY <3>1 DEF Found, Whole
    <3> QED
      BY <1>1, <2>1, <3>2
  <2>2. CASE ~h.clear
    <3>1. promised # 0 => promised \in DOMAIN roles /\ Whole(roles[promised])
      BY <1>5 DEF TracksSound
    <3>2. promised # 0 => Whole(roles'[promised])
      BY <3>1 DEF Whole
    <3> QED
      BY <1>1, <2>2, <3>1, <3>2
  <2> QED
    BY <1>3, <2>1, <2>2
<1>7. TracksSound(roles', promised', undone', met')
  BY <1>1, <1>4, <1>6, FramedSound
<1>8. \A x \in Helpers \ {d} : ~Locked(helper[x]) /\ HelperSound(helper[x], roles, promised, undone, met)
  BY <1>3, OthersUnlocked DEF TracksInv
<1>9. \A x \in Helpers \ {d} : helper[x].step \in Going => helper[x].role # promised'
  BY <1>1, <1>3, <1>8 DEF TracksInv, HelperSound
<1>10. \A x \in Helpers \ {d} : HelperSound(helper[x], roles', promised', undone', met')
  BY <1>1, <1>8, <1>9, UnlockedSound
<1>11. Asleep.step = "idle" /\ "step" \in DOMAIN Asleep
  BY DEF Asleep
<1>12. HelperSound(Asleep, roles', promised', undone', met') /\ ~Locked(Asleep) /\ ~Promising(Asleep)
  BY <1>11, StepsApart DEF HelperSound, Shaped, Locked, Promising, Owns, AtTrack, Adding, ToppingUp, Undoing, Going
<1> QED
  BY <1>1, <1>7, <1>10, <1>11, <1>12, StepsApart, HelperTurned DEF AtTrack

LEMMA AddingFrameKeeps ==
  ASSUME TracksInv, NEW d \in Helpers, AddFrame(d)
  PROVE  TracksInv'
<1>1. /\ helper[d].step = "addFrame" /\ Answered(d)
      /\ roles' = [roles EXCEPT ![helper[d].role].frames = @ + 1]
  BY DEF AddFrame, Works
<1> QED
  BY <1>1, Framed, AnsweringKeeps

LEMMA EnsuringKeeps ==
  ASSUME TracksInv, NEW d \in Helpers, Ensure(d)
  PROVE  TracksInv'
<1> DEFINE h == helper[d]
<1>1. h.step = "ensure" /\ UNCHANGED roles /\ HelperSound(h, roles, promised, undone, met)
  BY DEF Ensure, Works, TracksInv
<1>2. h.step \in ToppingUp /\ h.step \in AtTrack /\ h.step \notin Undoing \cup Going
  BY <1>1 DEF ToppingUp, AtTrack, Undoing, Going
<1>3. h.role \in DOMAIN roles /\ roles[h.role] \in Track
  BY <1>1, <1>2 DEF HelperSound, TracksInv, TracksSound
<1>4. CASE HasFrame(d)
  <2>1. Answered(d)
    BY <1>4 DEF Ensure
  <2>2. roles[h.role].frames = 1
    BY <1>3, <1>4 DEF HasFrame, Track
  <2> QED
    BY <1>1, <1>3, <2>1, <2>2, AnsweringKeeps
<1>5. CASE ~HasFrame(d)
  <2> DEFINE z == [h EXCEPT !.step = "addFrame"]
  <2>1. Then(d, z) /\ UNCHANGED <<promised, undone, met>>
    BY <1>5 DEF Ensure, Stage, Untold
  <2>2. /\ z.step = "addFrame" /\ DOMAIN z = DOMAIN h /\ z.role = h.role /\ z.by = h.by
        /\ z.fresh = h.fresh /\ z.clear = h.clear
    BY <1>1, <1>2 DEF HelperSound, Shaped
  <2>3. roles[h.role].frames = 0
    BY <1>3, <1>5 DEF HasFrame, Track
  <2> HIDE DEF z
  <2>4. z.step \in ToppingUp /\ z.step \in AtTrack /\ z.step \notin Undoing \cup Going
    BY <2>2 DEF ToppingUp, AtTrack, Undoing, Going
  <2>5. Shaped(z) /\ (Owns(z) <=> Owns(h)) /\ (Promising(z) <=> Promising(h)) /\ (Locked(z) <=> Locked(h))
    BY <1>1, <1>2, <2>2, <2>4 DEF HelperSound, Shaped, Owns, Promising, Locked, Adding
  <2>6. Promising(z) => Found(z, roles[z.role])
    BY <1>1, <2>2, <2>5 DEF HelperSound, Found
  <2>7. HelperSound(z, roles, promised, undone, met)
    BY <1>1, <1>2, <2>2, <2>3, <2>4, <2>5, <2>6 DEF HelperSound
  <2> QED
    BY <1>1, <2>1, <2>2, <2>4, <2>5, <2>7, TracksStay
<1> QED
  BY <1>4, <1>5

\* A request that tops a track up goes on to another step of doing so.
LEMMA Toppings ==
  ASSUME NEW h, Shaped(h), h.step \in ToppingUp, NEW z, Shaped(z), z.step \in ToppingUp,
         z.role = h.role, z.by = h.by, z.fresh = h.fresh, z.clear = h.clear
  PROVE  /\ (Owns(z) <=> Owns(h)) /\ (Promising(z) <=> Promising(h)) /\ (Locked(z) <=> Locked(h))
         /\ z.step \in AtTrack /\ h.step \in AtTrack /\ z.step \notin Undoing \cup Going \cup Adding
BY StepsApart DEF Owns, Promising, Locked, AtTrack, Adding

LEMMA ToppedSound ==
  ASSUME NEW h, NEW rows, NEW told, NEW gone, NEW known, HelperSound(h, rows, told, gone, known),
         h.step \in ToppingUp, NEW z, Shaped(z), z.step \in ToppingUp, z.step # "addFrame",
         z.role = h.role, z.by = h.by, z.fresh = h.fresh, z.clear = h.clear,
         NEW rows2, DOMAIN rows \subseteq DOMAIN rows2, Promising(h) => Found(z, rows2[z.role])
  PROVE  HelperSound(z, rows2, told, gone, known)
<1>1. /\ (Owns(z) <=> Owns(h)) /\ (Promising(z) <=> Promising(h)) /\ (Locked(z) <=> Locked(h))
      /\ z.step \in AtTrack /\ h.step \in AtTrack /\ z.step \notin Undoing \cup Going \cup Adding
  BY Toppings DEF HelperSound
<1>2. z.step \notin {"insert", "frame"}
  BY <1>1, StepsApart DEF Adding
<1> QED
  BY <1>1, <1>2 DEF HelperSound

LEMMA StagedTop ==
  ASSUME NEW h, Shaped(h), h.step \in ToppingUp, NEW step \in {"addComps", "items"},
         NEW z, z = [h EXCEPT !.step = step]
  PROVE  /\ z.step = step /\ z.step \in ToppingUp /\ Shaped(z)
         /\ z.role = h.role /\ z.by = h.by /\ z.fresh = h.fresh /\ z.clear = h.clear
<1>1. h.step \in AtTrack /\ {"step", "role", "by", "fresh", "clear"} \subseteq DOMAIN h
  BY StepsApart DEF Shaped, AtTrack
<1>2. /\ z.step = step /\ z.step \in ToppingUp /\ DOMAIN z = DOMAIN h
      /\ z.role = h.role /\ z.by = h.by /\ z.fresh = h.fresh /\ z.clear = h.clear
  BY <1>1 DEF ToppingUp
<1>3. h.fresh \in BOOLEAN /\ h.clear \in BOOLEAN /\ (h.by = "sync" => ~h.fresh)
  BY DEF Shaped
<1>4. z.step \notin {"ensure", "addFrame", "addItems"}
  BY <1>2
<1> QED
  BY <1>1, <1>2, <1>3, <1>4 DEF Shaped

LEMMA ReadingCompsKeeps ==
  ASSUME TracksInv, NEW d \in Helpers, ReadComps(d)
  PROVE  TracksInv'
<1> DEFINE h == helper[d]
           next == IF roles[h.role].comps > 0 THEN "items" ELSE "addComps"
           z == [h EXCEPT !.step = next]
<1>1. /\ h.step = "comps" /\ UNCHANGED <<roles, promised, undone, met>> /\ Then(d, z)
      /\ HelperSound(h, roles, promised, undone, met)
  BY DEF ReadComps, Works, Stage, Untold, TracksInv
<1>2. h.step \in ToppingUp /\ Shaped(h)
  BY <1>1 DEF ToppingUp, HelperSound
<1>3. /\ z.step = next /\ z.step \in ToppingUp /\ Shaped(z)
      /\ z.role = h.role /\ z.by = h.by /\ z.fresh = h.fresh /\ z.clear = h.clear
  BY <1>2, StagedTop
<1> HIDE DEF z
<1>4. z.step \in {"items", "addComps"}
  BY <1>3
<1>5. Promising(h) => Found(z, roles[z.role])
  BY <1>1, <1>3, <1>4 DEF HelperSound, Found
<1>6. HelperSound(z, roles, promised, undone, met)
  BY <1>1, <1>2, <1>3, <1>4, <1>5, ToppedSound
<1>7. (Promising(z) <=> Promising(h)) /\ (Locked(z) <=> Locked(h)) /\ z.step \notin Going
  BY <1>2, <1>3, Toppings
<1> QED
  BY <1>1, <1>3, <1>6, <1>7, TracksStay

LEMMA ReadingItemsKeeps ==
  ASSUME TracksInv, NEW d \in Helpers, ReadItems(d)
  PROVE  TracksInv'
<1> DEFINE h == helper[d]
           z == [step |-> "addItems", by |-> h.by, role |-> h.role, fresh |-> h.fresh, clear |-> h.clear,
                 add |-> Missing(h.role)]
<1>1. /\ h.step = "items" /\ UNCHANGED <<roles, promised, undone, met>> /\ Then(d, z)
      /\ HelperSound(h, roles, promised, undone, met)
  BY DEF ReadItems, Works, Untold, TracksInv
<1>2. h.step \in ToppingUp /\ h.step \in AtTrack /\ Shaped(h)
  BY <1>1 DEF ToppingUp, AtTrack, HelperSound
<1>3. /\ z.step = "addItems" /\ z.role = h.role /\ z.by = h.by /\ z.fresh = h.fresh /\ z.clear = h.clear
      /\ z.add = Missing(h.role) /\ DOMAIN z = {"step", "by", "role", "fresh", "clear", "add"}
  OBVIOUS
<1> HIDE DEF z
<1>4. z.step \in ToppingUp /\ Shaped(z)
  <2>1. z.step \in ToppingUp
    BY <1>3 DEF ToppingUp
  <2>2. h.fresh \in BOOLEAN /\ h.clear \in BOOLEAN /\ (h.by = "sync" => ~h.fresh)
    BY <1>2 DEF Shaped
  <2>3. "role" \in DOMAIN z /\ {"by", "fresh", "clear"} \subseteq DOMAIN z /\ "step" \in DOMAIN z /\ "add" \in DOMAIN z
    BY <1>3
  <2> QED
    BY <1>3, <2>1, <2>2, <2>3 DEF Shaped
<1>5. roles[h.role] \in Track
  BY <1>1, <1>2 DEF HelperSound, TracksInv, TracksSound
<1>6. \A q \in Posted \ z.add : roles[h.role].items[q] > 0
  BY <1>3, <1>5 DEF Missing, Track
<1>7. Promising(h) => Found(z, roles[z.role])
  BY <1>1, <1>3, <1>6 DEF HelperSound, Found
<1>8. HelperSound(z, roles, promised, undone, met)
  BY <1>1, <1>2, <1>3, <1>4, <1>7, ToppedSound
<1>9. (Promising(z) <=> Promising(h)) /\ (Locked(z) <=> Locked(h)) /\ z.step \notin Going
  BY <1>2, <1>3, <1>4, Toppings
<1> QED
  BY <1>1, <1>3, <1>8, <1>9, TracksStay

\* A track r gains competencies or questions.
LEMMA GrowingKeeps ==
  ASSUME TracksInv, NEW d \in Helpers, NEW z, Then(d, z), UNCHANGED <<promised, undone, met>>,
         helper[d].step \in {"addComps", "addItems", "insertItem"}, NEW r, r = helper[d].role,
         NEW t \in Track, t.row = roles[r].row, t.frames = roles[r].frames, t.comps >= roles[r].comps,
         \A q \in Posted : t.items[q] >= roles[r].items[q],
         roles' = [roles EXCEPT ![r] = t],
         HelperSound(z, roles', promised, undone, met),
         Locked(z) => Locked(helper[d]), Promising(z) => Promising(helper[d]) /\ z.role = r, z.step \notin Going
  PROVE  TracksInv'
<1> DEFINE h == helper[d]
<1>1. HelperSound(h, roles, promised, undone, met) /\ TracksSound(roles, promised, undone, met)
  BY DEF TracksInv
<1>2. h.step \in AtTrack /\ r \in DOMAIN roles /\ (Owns(h) \/ r \in met)
  BY <1>1 DEF HelperSound, AtTrack, ToppingUp
<1>3. DOMAIN roles' = DOMAIN roles /\ \A x \in DOMAIN roles : roles'[x] = IF x = r THEN t ELSE roles[x]
  BY <1>2
<1>4. \A x \in DOMAIN roles : /\ roles[x] \in Track /\ roles'[x] \in Track
                              /\ roles'[x].row = roles[x].row /\ roles'[x].frames = roles[x].frames
                              /\ roles'[x].comps >= roles[x].comps
                              /\ \A q \in Posted : roles'[x].items[q] >= roles[x].items[q]
  <2> SUFFICES ASSUME NEW x \in DOMAIN roles
               PROVE  /\ roles[x] \in Track /\ roles'[x] \in Track
                      /\ roles'[x].row = roles[x].row /\ roles'[x].frames = roles[x].frames
                      /\ roles'[x].comps >= roles[x].comps
                      /\ \A q \in Posted : roles'[x].items[q] >= roles[x].items[q]
    OBVIOUS
  <2>1. roles[x] \in Track
    BY <1>1 DEF TracksSound
  <2>2. roles[x].comps >= roles[x].comps /\ \A q \in Posted : roles[x].items[q] >= roles[x].items[q]
    BY <2>1 DEF Track
  <2> QED
    BY <1>3, <2>1, <2>2
<1>5. Owns(h) => r \notin undone
  BY <1>1 DEF HelperSound
<1>6. TracksSound(roles', promised, undone, met)
  <2>1. \A x \in undone \ met : roles'[x] = NoTrack
    BY <1>1, <1>2, <1>3, <1>5 DEF TracksSound
  <2>2. promised # 0 => Whole(roles'[promised])
    <3> SUFFICES ASSUME promised # 0 PROVE Whole(roles'[promised])
      OBVIOUS
    <3>1. promised \in DOMAIN roles /\ Whole(roles[promised])
      BY <1>1 DEF TracksSound
    <3>2. CASE promised # r
      BY <1>3, <3>1, <3>2
    <3>3. CASE promised = r
      <4>1. t.frames = 1 /\ t.row
        BY <3>1, <3>3 DEF Whole
      <4>2. roles[r].comps \in Nat /\ t.comps \in Nat /\ \A q \in Posted : roles[r].items[q] \in Nat /\ t.items[q] \in Nat
        BY <1>2, <1>4 DEF Track
      <4>3. t.comps > 0 /\ \A q \in Posted : t.items[q] > 0
        BY <3>1, <3>3, <4>2 DEF Whole
      <4> QED
        BY <1>3, <3>1, <3>3, <4>1, <4>3 DEF Whole
    <3> QED
      BY <3>2, <3>3
  <2>3. \A x, y \in DOMAIN roles' : roles'[x].row /\ roles'[y].row => x = y
    BY <1>1, <1>3, <1>4 DEF TracksSound
  <2> QED
    BY <1>1, <1>3, <1>4, <2>1, <2>2, <2>3 DEF TracksSound
<1>7. ASSUME NEW x \in Helpers \ {d}
      PROVE  HelperSound(helper[x], roles', promised, undone, met)
  <2>1. HelperSound(helper[x], roles, promised, undone, met)
    BY DEF TracksInv
  <2>2. helper[x].step \in Undoing /\ helper[x].role \notin met => helper[x].role # r
    <3>1. helper[x].step \in Undoing => Locked(helper[x])
      BY DEF Locked
    <3>2. Owns(h) => Locked(h)
      BY <1>1, HoldsTheLock DEF HelperSound
    <3> QED
      BY <1>2, <3>1, <3>2 DEF TracksInv
  <2>3. helper[x].step \in Undoing => helper[x].role \in DOMAIN roles
    BY <2>1 DEF HelperSound, AtTrack
  <2>4. helper[x].step \in Undoing /\ helper[x].role \notin met =>
          roles'[helper[x].role].comps = roles[helper[x].role].comps /\ roles'[helper[x].role].items = roles[helper[x].role].items
    BY <1>3, <2>2, <2>3
  <2> QED
    BY <1>3, <1>4, <2>1, <2>4, GrownSound
<1>8. Locked(z) => \A x \in Helpers \ {d} : ~Locked(helper[x])
  BY OthersUnlocked
<1>9. Promising(z) => \A x \in Helpers \ {d} : helper[x].step \in Going => helper[x].role # z.role
  BY DEF TracksInv
<1> QED
  BY <1>6, <1>7, <1>8, <1>9, HelperTurned

\* A record of a track with another number of competencies, or other questions.
LEMMA TrackWith ==
  ASSUME NEW t \in Track
  PROVE  /\ \A n \in Nat : LET u == [t EXCEPT !.comps = n] IN
              u \in Track /\ u.comps = n /\ u.row = t.row /\ u.frames = t.frames /\ u.items = t.items
         /\ \A f \in [Posted -> Nat] : LET u == [t EXCEPT !.items = f] IN
              u \in Track /\ u.items = f /\ u.row = t.row /\ u.frames = t.frames /\ u.comps = t.comps
BY DEF Track

LEMMA AddingCompsKeeps ==
  ASSUME TracksInv, NEW d \in Helpers, AddComps(d)
  PROVE  TracksInv'
<1> DEFINE h == helper[d]
           z == [h EXCEPT !.step = "items"]
           r == h.role
           t == [roles[r] EXCEPT !.comps = roles[r].comps + 1]
<1>1. /\ h.step = "addComps" /\ UNCHANGED <<promised, undone, met>> /\ Then(d, z)
      /\ roles' = [roles EXCEPT ![r] = t]
      /\ HelperSound(h, roles, promised, undone, met) /\ TracksSound(roles, promised, undone, met)
  BY DEF AddComps, Works, Stage, Untold, TracksInv
<1>2. h.step \in ToppingUp /\ h.step \in AtTrack /\ Shaped(h)
  BY <1>1 DEF ToppingUp, AtTrack, HelperSound
<1>3. /\ z.step = "items" /\ z.step \in ToppingUp /\ Shaped(z)
      /\ z.role = h.role /\ z.by = h.by /\ z.fresh = h.fresh /\ z.clear = h.clear
  BY <1>2, StagedTop
<1>4. r \in DOMAIN roles /\ roles[r] \in Track
  BY <1>1, <1>2 DEF HelperSound, TracksSound
<1>5. roles[r].comps \in Nat /\ \A q \in Posted : roles[r].items[q] \in Nat
  BY <1>4 DEF Track
<1>6. t \in Track /\ t.comps = roles[r].comps + 1 /\ t.row = roles[r].row /\ t.frames = roles[r].frames /\ t.items = roles[r].items
  <2>1. roles[r].comps + 1 \in Nat
    BY <1>5
  <2> QED
    BY <1>4, <2>1, TrackWith
<1> HIDE DEF z, t
<1>7. roles'[r] = t /\ DOMAIN roles' = DOMAIN roles
  BY <1>1, <1>4
<1>8. t.comps >= roles[r].comps /\ t.comps > 0 /\ \A q \in Posted : t.items[q] >= roles[r].items[q]
  BY <1>5, <1>6
<1>9. Promising(h) => Found(z, roles'[z.role])
  BY <1>1, <1>3, <1>6, <1>7, <1>8 DEF HelperSound, Found
<1>10. HelperSound(z, roles', promised, undone, met)
  BY <1>1, <1>2, <1>3, <1>7, <1>9, ToppedSound
<1>11. (Promising(z) <=> Promising(h)) /\ (Locked(z) <=> Locked(h)) /\ z.step \notin Going
  BY <1>2, <1>3, Toppings
<1> QED
  BY <1>1, <1>3, <1>6, <1>8, <1>10, <1>11, GrowingKeeps

\* After a question is in the track it is no longer missing.
LEMMA AddingItemsKeeps ==
  ASSUME TracksInv, NEW d \in Helpers, AddItems(d)
  PROVE  TracksInv'
<1> DEFINE h == helper[d]
           r == h.role
           f == [q \in Posted |-> IF q \in h.add THEN roles[r].items[q] + 1 ELSE roles[r].items[q]]
           t == [roles[r] EXCEPT !.items = f]
           z == IF h.by = "sync" THEN Asleep
                ELSE [step |-> "ensure", by |-> h.by, role |-> r, fresh |-> h.fresh, clear |-> h.clear]
<1>1. /\ h.step = "addItems" /\ UNCHANGED <<promised, undone, met>> /\ Then(d, z)
      /\ roles' = [roles EXCEPT ![r] = t]
      /\ HelperSound(h, roles, promised, undone, met) /\ TracksSound(roles, promised, undone, met)
  BY DEF AddItems, Works, Untold, TracksInv
<1>2. h.step \in ToppingUp /\ h.step \in AtTrack /\ Shaped(h)
  BY <1>1 DEF ToppingUp, AtTrack, HelperSound
<1>3. r \in DOMAIN roles /\ roles[r] \in Track
  BY <1>1, <1>2 DEF HelperSound, TracksSound
<1>4. roles[r].comps \in Nat /\ \A q \in Posted : roles[r].items[q] \in Nat
  BY <1>3 DEF Track
<1>5. f \in [Posted -> Nat] /\ \A q \in Posted : f[q] = IF q \in h.add THEN roles[r].items[q] + 1 ELSE roles[r].items[q]
  BY <1>4
<1>6. t \in Track /\ t.items = f /\ t.row = roles[r].row /\ t.frames = roles[r].frames /\ t.comps = roles[r].comps
  BY <1>3, <1>5, TrackWith
<1> HIDE DEF z, t, f
<1>7. roles'[r] = t /\ DOMAIN roles' = DOMAIN roles
  BY <1>1, <1>3
<1>8. t.comps >= roles[r].comps /\ \A q \in Posted : t.items[q] >= roles[r].items[q] /\ (q \in h.add => t.items[q] > 0)
  BY <1>4, <1>5, <1>6
<1>9. CASE h.by = "sync"
  <2>1. z.step = "idle" /\ "step" \in DOMAIN z
    BY <1>9 DEF z, Asleep
  <2>2. HelperSound(z, roles', promised, undone, met) /\ ~Locked(z) /\ ~Promising(z) /\ z.step \notin Going
    BY <2>1, StepsApart DEF HelperSound, Shaped, Locked, Promising, Owns, AtTrack, Adding, ToppingUp, Undoing, Going
  <2> QED
    BY <1>1, <1>6, <1>8, <2>2, GrowingKeeps
<1>10. CASE h.by # "sync"
  <2>1. /\ z.step = "ensure" /\ z.role = r /\ z.by = h.by /\ z.fresh = h.fresh /\ z.clear = h.clear
        /\ {"step", "by", "role", "fresh", "clear"} \subseteq DOMAIN z
    BY <1>10 DEF z
  <2>2. h.fresh \in BOOLEAN /\ h.clear \in BOOLEAN
    BY <1>2 DEF Shaped
  <2>3. z.step \in ToppingUp /\ Shaped(z)
    BY <1>10, <2>1, <2>2 DEF ToppingUp, Shaped
  <2>4. Promising(h) => Found(z, roles'[z.role])
    <3> SUFFICES ASSUME Promising(h) PROVE Found(z, t)
      BY <1>7, <2>1
    <3>1. Found(h, roles[r])
      BY <1>1 DEF HelperSound
    <3>2. \A q \in Posted : t.items[q] > 0
      <4>1. \A q \in Posted \ h.add : roles[r].items[q] > 0
        BY <1>1, <3>1 DEF Found
      <4> QED
        BY <1>5, <1>6, <1>8, <4>1
    <3>3. t.comps > 0
      BY <1>1, <1>6, <3>1 DEF Found
    <3>4. t.row
      BY <1>6, <3>1 DEF Found
    <3> QED
      BY <3>2, <3>3, <3>4 DEF Found
  <2>5. HelperSound(z, roles', promised, undone, met)
    BY <1>1, <1>2, <1>7, <2>1, <2>3, <2>4, ToppedSound
  <2>6. (Promising(z) <=> Promising(h)) /\ (Locked(z) <=> Locked(h)) /\ z.step \notin Going
    BY <1>2, <2>1, <2>3, Toppings
  <2> QED
    BY <1>1, <1>6, <1>8, <2>1, <2>5, <2>6, GrowingKeeps
<1> QED
  BY <1>9, <1>10

LEMMA InsertingItemKeeps ==
  ASSUME TracksInv, NEW d \in Helpers, InsertItem(d)
  PROVE  TracksInv'
<1> DEFINE h == helper[d]
           r == h.role
           f == [roles[r].items EXCEPT ![h.item] = @ + 1]
           t == [roles[r] EXCEPT !.items = f]
<1>1. /\ h.step = "insertItem" /\ UNCHANGED <<promised, undone, met>> /\ Then(d, Asleep)
      /\ roles' = [roles EXCEPT ![r] = t]
      /\ HelperSound(h, roles, promised, undone, met) /\ TracksSound(roles, promised, undone, met)
  BY DEF InsertItem, Works, Untold, TracksInv
<1>2. h.step \in AtTrack
  BY <1>1 DEF AtTrack
<1>3. r \in DOMAIN roles /\ roles[r] \in Track
  BY <1>1, <1>2 DEF HelperSound, TracksSound
<1>4. roles[r].comps \in Nat /\ roles[r].items \in [Posted -> Nat]
  BY <1>3 DEF Track
<1>5. f \in [Posted -> Nat] /\ \A q \in Posted : f[q] >= roles[r].items[q]
  <2>1. DOMAIN f = Posted /\ \A q \in Posted : f[q] = IF q = h.item THEN roles[r].items[q] + 1 ELSE roles[r].items[q]
    BY <1>4
  <2>2. \A q \in Posted : roles[r].items[q] \in Nat
    BY <1>4
  <2>3. \A q \in Posted : f[q] \in Nat /\ f[q] >= roles[r].items[q]
    BY <2>1, <2>2
  <2>4. f = [q \in Posted |-> f[q]]
    BY <2>1
  <2> QED
    BY <2>3, <2>4
<1>6. t \in Track /\ t.items = f /\ t.row = roles[r].row /\ t.frames = roles[r].frames /\ t.comps = roles[r].comps
  BY <1>3, <1>5, TrackWith
<1> HIDE DEF t, f
<1>7. t.comps >= roles[r].comps /\ \A q \in Posted : t.items[q] >= roles[r].items[q]
  BY <1>4, <1>5, <1>6
<1>8. Asleep.step = "idle" /\ "step" \in DOMAIN Asleep
  BY DEF Asleep
<1>9. HelperSound(Asleep, roles', promised, undone, met) /\ ~Locked(Asleep) /\ ~Promising(Asleep) /\ Asleep.step \notin Going
  BY <1>8, StepsApart DEF HelperSound, Shaped, Locked, Promising, Owns, AtTrack, Adding, ToppingUp, Undoing, Going
<1> QED
  BY <1>1, <1>6, <1>7, <1>9, GrowingKeeps

\* Topping up a track that is there begins by meeting it.
LEMMA MetSound ==
  ASSUME NEW rows, NEW told, NEW gone, NEW known, NEW r \in DOMAIN rows, r \in known, rows[r].row,
         NEW z, z.step = "comps", {"step", "by", "role", "fresh", "clear"} \subseteq DOMAIN z,
         z.role = r, z.fresh = FALSE, z.clear \in BOOLEAN
  PROVE  HelperSound(z, rows, told, gone, known) /\ z.step \notin Going /\ ~Owns(z)
<1>1. z.step \in ToppingUp /\ z.step \in AtTrack /\ z.step \notin Undoing \cup Going
  BY DEF ToppingUp, AtTrack, Undoing, Going
<1>2. Shaped(z)
  BY <1>1 DEF Shaped
<1>3. ~Owns(z)
  BY <1>1 DEF Owns
<1>4. Found(z, rows[r])
  BY DEF Found
<1> QED
  BY <1>1, <1>2, <1>3, <1>4 DEF HelperSound

LEMMA InstallingKeeps ==
  ASSUME TracksInv, NEW d \in Helpers, Install(d) \/ Sync(d)
  PROVE  TracksInv'
<1>1. UNCHANGED <<roles, promised, undone>> /\ met' = met \cup Live
  BY DEF Install, Sync
<1>2. CASE Install(d) /\ Live = {}
  <2> DEFINE z == [step |-> "insert", by |-> "install"]
  <2>1. Then(d, z) /\ KeyFree(d) /\ RoleRows = {}
    BY <1>2 DEF Install
  <2>2. z.step = "insert" /\ z.step \notin AtTrack
    BY DEF AtTrack, ToppingUp, Undoing, Going
  <2>3. HelperSound(z, roles, promised, undone, met') /\ ~Promising(z)
    BY <2>1, <2>2 DEF HelperSound, Shaped, Promising, Owns, RoleRows, AtTrack
  <2> QED
    BY <1>1, <2>1, <2>2, <2>3, KeyFreeMeans, TracksStay DEF AtTrack
<1>3. CASE Live # {}
  <2> DEFINE r == CHOOSE x \in Live : TRUE
  <2>1. r \in Live
    BY <1>3
  <2> HIDE DEF r
  <2>2. r \in DOMAIN roles /\ roles[r].row /\ r \in met'
    BY <1>1, <2>1 DEF Live, RoleRows
  <2>3. CASE Install(d)
    <3> DEFINE z == [step |-> "comps", by |-> "install", role |-> r, fresh |-> FALSE, clear |-> ~Deleting]
    <3>1. Then(d, z) /\ KeyFree(d)
      BY <1>3, <2>3 DEF Install, r
    <3>2. /\ z.step = "comps" /\ {"step", "by", "role", "fresh", "clear"} \subseteq DOMAIN z
          /\ z.role = r /\ z.fresh = FALSE /\ z.clear \in BOOLEAN /\ z.clear = ~Deleting
      BY DEF Deleting
    <3> HIDE DEF z
    <3>3. HelperSound(z, roles, promised, undone, met') /\ z.step \notin Going
      BY <2>2, <3>2, MetSound
    <3>4. Promising(z) => \A x \in Helpers : helper[x].step \notin Going
      BY <3>2 DEF Promising, Deleting, Going
    <3> QED
      BY <1>1, <3>1, <3>3, <3>4, KeyFreeMeans, TracksStay
  <2>4. CASE Sync(d)
    <3> DEFINE z == [step |-> "comps", by |-> "sync", role |-> r, fresh |-> FALSE, clear |-> TRUE]
    <3>1. Then(d, z)
      BY <2>4 DEF Sync, r
    <3>2. /\ z.step = "comps" /\ {"step", "by", "role", "fresh", "clear"} \subseteq DOMAIN z
          /\ z.role = r /\ z.fresh = FALSE /\ z.clear \in BOOLEAN /\ z.by = "sync"
      OBVIOUS
    <3> HIDE DEF z
    <3>3. HelperSound(z, roles, promised, undone, met') /\ z.step \notin Going /\ ~Owns(z)
      BY <2>2, <3>2, MetSound
    <3>4. ~Promising(z) /\ ~Locked(z)
      BY <3>2 DEF Promising, Locked, Adding, Undoing
    <3> QED
      BY <1>1, <3>1, <3>3, <3>4, TracksStay
  <2> QED
    BY <2>3, <2>4
<1> QED
  BY <1>2, <1>3 DEF Sync

LEMMA FailingKeeps ==
  ASSUME TracksInv, NEW d \in Helpers, HelperFails(d)
  PROVE  TracksInv'
<1> DEFINE h == helper[d]
<1>1. UNCHANGED <<roles, promised, undone, met>> /\ HelperSound(h, roles, promised, undone, met)
  BY DEF HelperFails, Untold, TracksInv
<1>2. CASE h.step \in ToppingUp /\ h.fresh
  <2> DEFINE z == [step |-> "undoItems", by |-> h.by, role |-> h.role]
  <2>1. Then(d, z)
    BY <1>2 DEF HelperFails
  <2>2. z.step = "undoItems" /\ z.role = h.role /\ {"step", "role"} \subseteq DOMAIN z
    OBVIOUS
  <2> HIDE DEF z
  <2>3. z.step \in Undoing /\ z.step \in AtTrack /\ z.step \notin ToppingUp \cup Going
    BY <2>2 DEF Undoing, AtTrack, ToppingUp, Going
  <2>4. Owns(h) /\ Owns(z) /\ Locked(h) /\ ~Promising(z) /\ h.step \in AtTrack
    BY <1>1, <1>2, <2>3, HoldsTheLock DEF Owns, Promising, HelperSound, AtTrack
  <2>5. HelperSound(z, roles, promised, undone, met)
    BY <1>1, <2>2, <2>3, <2>4 DEF HelperSound, Shaped, LeftOf
  <2> QED
    BY <1>1, <2>1, <2>3, <2>4, <2>5, TracksStay
<1>3. CASE ~(h.step \in ToppingUp /\ h.fresh)
  <2>1. Then(d, Asleep)
    BY <1>3 DEF HelperFails
  <2> QED
    BY <1>1, <2>1, EndsQuietly
<1> QED
  BY <1>2, <1>3

\* What taking a track apart leaves of it.
LEMMA ErasedLeaves ==
  ASSUME NEW t \in Track, NEW what \in {"items", "comps", "frames", "row"}, NEW u, u = Erased(t, what)
  PROVE  /\ u \in Track
         /\ u.row => t.row
         /\ what = "items" \/ t.items = NoTrack.items => u.items = NoTrack.items
         /\ what = "comps" \/ t.comps = 0 => u.comps = 0
         /\ what = "frames" \/ t.frames = 0 => u.frames = 0
         /\ what = "row" => ~u.row /\ ~u.active
<1>1. NoTrack.items \in [Posted -> Nat]
  BY DEF NoTrack
<1>2. CASE what = "items"
  BY <1>1, <1>2 DEF Erased, Track
<1>3. CASE what = "comps"
  BY <1>3 DEF Erased, Track
<1>4. CASE what = "frames"
  BY <1>4 DEF Erased, Track
<1>5. CASE what = "row"
  BY <1>5 DEF Erased, Track
<1> QED
  BY <1>2, <1>3, <1>4, <1>5

LEMMA NothingLeft ==
  ASSUME NEW t \in Track, ~t.row, ~t.active, t.frames = 0, t.comps = 0, t.items = NoTrack.items
  PROVE  t = NoTrack
BY DEF Track, NoTrack

\* The tracks stay as good when one that nobody promised loses something.
LEMMA ErasedSound ==
  ASSUME TracksSound(roles, promised, undone, met), NEW r \in DOMAIN roles, r # promised, r \notin undone \/ r \in met,
         NEW what \in {"items", "comps", "frames", "row"},
         roles' = [roles EXCEPT ![r] = Erased(@, what)]
  PROVE  /\ TracksSound(roles', promised, undone, met)
         /\ DOMAIN roles' = DOMAIN roles /\ \A x \in DOMAIN roles : x # r => roles'[x] = roles[x]
         /\ roles'[r] = Erased(roles[r], what) /\ roles[r] \in Track
<1>1. DOMAIN roles' = DOMAIN roles /\ \A x \in DOMAIN roles : roles'[x] = IF x = r THEN Erased(roles[r], what) ELSE roles[x]
  OBVIOUS
<1>2. roles[r] \in Track
  BY DEF TracksSound
<1>3. \A x \in DOMAIN roles : roles'[x] \in Track /\ (roles'[x].row => roles[x].row)
  BY <1>1, <1>2, ErasedLeaves DEF TracksSound
<1>4. \A x \in undone \ met : roles'[x] = NoTrack
  BY <1>1 DEF TracksSound
<1>5. promised # 0 => promised \in DOMAIN roles /\ Whole(roles'[promised])
  BY <1>1 DEF TracksSound
<1>6. TracksSound(roles', promised, undone, met)
  BY <1>1, <1>3, <1>4, <1>5 DEF TracksSound
<1> QED
  BY <1>1, <1>2, <1>6

LEMMA UndoingKeeps ==
  ASSUME TracksInv, NEW d \in Helpers, Undo(d)
  PROVE  TracksInv'
<1> DEFINE h == helper[d]
           r == h.role
<1>1. UNCHANGED <<promised, met>> /\ h.step \in Undoing
  BY DEF Undo, Works, Undoing
<1>2. HelperSound(h, roles, promised, undone, met) /\ TracksSound(roles, promised, undone, met)
  BY DEF TracksInv
<1>3. h.step \in AtTrack /\ Owns(h) /\ Locked(h) /\ "role" \in DOMAIN h /\ "step" \in DOMAIN h
  BY <1>1, <1>2 DEF AtTrack, Owns, Locked, HelperSound, Shaped
<1>4. r \in DOMAIN roles /\ r # promised /\ r \notin undone /\ (r \notin met => LeftOf(h, roles[r]))
  BY <1>1, <1>2, <1>3 DEF HelperSound
<1>5. \A x \in Helpers \ {d} : ~Locked(helper[x]) /\ HelperSound(helper[x], roles, promised, undone, met)
  BY <1>3, OthersUnlocked DEF TracksInv
<1>6. \A x \in Helpers \ {d} : helper[x].step \in Going => helper[x].role # promised
  BY <1>5 DEF HelperSound
<1>7. ASSUME NEW what \in {"items", "comps", "frames"}, NEW next, Erase(d, what), Stage(d, next), UNCHANGED undone,
             \/ h.step = "undoItems" /\ what = "items" /\ next = "undoComps"
             \/ h.step = "undoComps" /\ what = "comps" /\ next = "undoFrames"
             \/ h.step = "undoFrames" /\ what = "frames" /\ next = "undoRow"
      PROVE  TracksInv'
  <2> DEFINE z == [h EXCEPT !.step = next]
             u == Erased(roles[r], what)
  <2>1. Then(d, z) /\ z.step = next /\ DOMAIN z = DOMAIN h /\ z.role = r
    BY <1>3, <1>7 DEF Stage
  <2> HIDE DEF z
  <2>2. roles' = [roles EXCEPT ![r] = Erased(@, what)]
    BY <1>7 DEF Erase
  <2>3. /\ TracksSound(roles', promised, undone, met)
        /\ DOMAIN roles' = DOMAIN roles /\ roles'[r] = u /\ roles[r] \in Track
    BY <1>2, <1>4, <1>7, <2>2, ErasedSound
  <2>4. z.step \in Undoing /\ z.step \in AtTrack /\ z.step \notin ToppingUp \cup Going /\ z.step \in {"undoComps", "undoFrames", "undoRow"}
    BY <1>7, <2>1 DEF Undoing, AtTrack, ToppingUp, Going
  <2>5. Owns(z) /\ ~Promising(z) /\ Shaped(z)
    BY <1>3, <2>1, <2>4 DEF Owns, Promising, Shaped
  <2>6. r \notin met => LeftOf(z, u)
    BY <1>4, <1>7, <2>1, <2>3, ErasedLeaves DEF LeftOf
  <2>7. HelperSound(z, roles', promised, undone, met)
    BY <1>4, <2>1, <2>3, <2>4, <2>5, <2>6 DEF HelperSound
  <2>8. \A x \in Helpers \ {d} : HelperSound(helper[x], roles', promised, undone, met)
    BY <1>5, <1>6, <2>3, UnlockedSound
  <2> QED
    BY <1>1, <1>5, <1>7, <2>1, <2>3, <2>4, <2>5, <2>7, <2>8, HelperTurned
<1>8. ASSUME h.step = "undoRow", Erase(d, "row"), Then(d, Asleep), undone' = undone \cup {r}
      PROVE  TracksInv'
  <2>1. roles' = [roles EXCEPT ![r] = Erased(@, "row")]
    BY <1>8 DEF Erase
  <2>2. /\ TracksSound(roles', promised, undone, met)
        /\ DOMAIN roles' = DOMAIN roles /\ roles'[r] = Erased(roles[r], "row") /\ roles[r] \in Track
    BY <1>2, <1>4, <2>1, ErasedSound
  <2>3. r \notin met => roles'[r] = NoTrack
    BY <1>4, <1>8, <2>2, ErasedLeaves, NothingLeft DEF LeftOf
  <2>4. TracksSound(roles', promised', undone', met')
    BY <1>1, <1>4, <1>8, <2>2, <2>3 DEF TracksSound
  <2>5. \A x \in Helpers \ {d} : HelperSound(helper[x], roles', promised', undone', met')
    BY <1>1, <1>5, <1>6, <2>2, UnlockedSound
  <2>6. Asleep.step = "idle" /\ "step" \in DOMAIN Asleep
    BY DEF Asleep
  <2>7. HelperSound(Asleep, roles', promised', undone', met') /\ ~Locked(Asleep) /\ ~Promising(Asleep)
    BY <2>6, StepsApart DEF HelperSound, Shaped, Locked, Promising, Owns, AtTrack, Adding, ToppingUp, Undoing, Going
  <2> QED
    BY <1>8, <2>4, <2>5, <2>6, <2>7, StepsApart, HelperTurned DEF AtTrack
<1> QED
  BY <1>7, <1>8 DEF Undo, Works

\* A deletion takes apart a track that no installation under way will promise.
LEMMA DeletingNextKeeps ==
  ASSUME TracksInv, NEW d \in Helpers, DeleteNext(d)
  PROVE  TracksInv'
<1> DEFINE h == helper[d]
           r == h.role
<1>1. UNCHANGED <<promised, undone, met>> /\ h.step \in Going
  BY DEF DeleteNext, Works, Going, Untold
<1>2. HelperSound(h, roles, promised, undone, met) /\ TracksSound(roles, promised, undone, met)
  BY DEF TracksInv
<1>3. h.step \in AtTrack /\ ~Owns(h) /\ "role" \in DOMAIN h /\ "step" \in DOMAIN h
  BY <1>1, <1>2, StepsApart DEF AtTrack, Owns, HelperSound, Shaped, Going
<1>4. r \in DOMAIN roles /\ r # promised /\ r \in met
  BY <1>1, <1>2, <1>3 DEF HelperSound
<1>5. PICK what \in {"items", "comps", "frames", "row"} : Erase(d, what)
  BY DEF DeleteNext
<1>6. roles' = [roles EXCEPT ![r] = Erased(@, what)]
  BY <1>5 DEF Erase
<1>7. /\ TracksSound(roles', promised, undone, met)
      /\ DOMAIN roles' = DOMAIN roles /\ \A x \in DOMAIN roles : x # r => roles'[x] = roles[x]
      /\ roles'[r] = Erased(roles[r], what) /\ roles[r] \in Track
  BY <1>2, <1>4, <1>6, ErasedSound
<1>8. ASSUME NEW x \in Helpers \ {d}
      PROVE  HelperSound(helper[x], roles', promised, undone, met)
  <2> DEFINE y == helper[x]
  <2>1. HelperSound(y, roles, promised, undone, met) /\ (Promising(y) => y.role # r)
    BY <1>1 DEF TracksInv
  <2>2. Promising(y) \/ y.step \in {"frame", "addFrame"} \cup Undoing => y.role \in DOMAIN roles
    BY <2>1 DEF HelperSound, Promising, AtTrack, ToppingUp
  <2>3. Promising(y) => Found(y, roles'[y.role])
    BY <1>7, <2>1, <2>2 DEF HelperSound
  <2>4. y.step \in Undoing /\ y.role \notin met => LeftOf(y, roles'[y.role])
    BY <1>4, <1>7, <2>1, <2>2 DEF HelperSound
  <2>5. y.step \in {"frame", "addFrame"} => roles'[y.role].frames = 0
    <3>1. y.step \in {"frame", "addFrame"} => roles[y.role].frames = 0
      BY <2>1 DEF HelperSound
    <3>2. roles[r].frames = 0 => roles'[r].frames = 0
      BY <1>7, ErasedLeaves
    <3> QED
      BY <1>7, <2>2, <3>1, <3>2
  <2>6. y.step = "insert" => \A t \in DOMAIN roles' : ~roles'[t].row
    <3>1. roles'[r].row => roles[r].row
      BY <1>7, ErasedLeaves
    <3> QED
      BY <1>7, <2>1, <3>1 DEF HelperSound
  <2> QED
    BY <1>7, <2>1, <2>3, <2>4, <2>5, <2>6 DEF HelperSound
<1>9. PICK z : /\ Then(d, z) /\ "step" \in DOMAIN z /\ z.step \in Going \cup {"idle"}
               /\ z.step \in Going => "role" \in DOMAIN z /\ z.role = r
  <2>1. Then(d, Asleep) \/ \E next \in Going : Stage(d, next)
    BY DEF DeleteNext, Going
  <2>2. CASE Then(d, Asleep)
    BY <2>2, StepsApart DEF Asleep, AtTrack
  <2>3. ASSUME NEW next \in Going, Stage(d, next)
        PROVE  \E z : /\ Then(d, z) /\ "step" \in DOMAIN z /\ z.step \in Going \cup {"idle"}
                      /\ z.step \in Going => "role" \in DOMAIN z /\ z.role = r
    <3> DEFINE z == [h EXCEPT !.step = next]
    <3>1. Then(d, z) /\ z.step = next /\ DOMAIN z = DOMAIN h /\ z.role = r
      BY <1>3, <2>3 DEF Stage
    <3> QED
      BY <1>3, <3>1
  <2> QED
    BY <2>1, <2>2, <2>3
<1>10. z.step \in AtTrack => z.step \in Going
  BY <1>9, StepsApart
<1>11. z.step \notin {"insert", "frame", "addFrame"} \cup ToppingUp \cup Undoing \cup Adding
  BY <1>9 DEF Going, ToppingUp, Undoing, Adding
<1>12. HelperSound(z, roles', promised, undone, met) /\ ~Locked(z) /\ ~Promising(z)
  <2>1. ~Locked(z) /\ ~Promising(z) /\ ~Owns(z)
    BY <1>11 DEF Locked, Promising, Owns
  <2>2. Shaped(z)
    <3>1. z.step # "addItems"
      BY <1>11 DEF ToppingUp
    <3> QED
      BY <1>9, <1>10, <1>11, <3>1 DEF Shaped
  <2>3. z.step \in AtTrack => z.role \in DOMAIN roles' /\ z.role \in met /\ z.role # promised
    BY <1>4, <1>7, <1>9, <1>10
  <2>4. z.step \in Going => z.step \in AtTrack
    BY DEF AtTrack
  <2> QED
    BY <1>11, <2>1, <2>2, <2>3, <2>4 DEF HelperSound
<1>13. z.step \in Going => \A x \in Helpers \ {d} : Promising(helper[x]) => helper[x].role # z.role
  BY <1>1, <1>9 DEF TracksInv
<1> QED
  BY <1>1, <1>7, <1>8, <1>9, <1>12, <1>13, HelperTurned

LEMMA SwitchingKeeps ==
  ASSUME TracksInv, NEW d \in Helpers, SwitchTrackRow(d)
  PROVE  TracksInv'
<1>1. UNCHANGED <<helper, promised, undone, met>>
  BY DEF SwitchTrackRow, Untold
<1>2. PICK r \in RoleRows : roles' = [roles EXCEPT ![r].active = ~@]
  BY DEF SwitchTrackRow
<1>3. TracksSound(roles, promised, undone, met)
  BY DEF TracksInv
<1>4. r \in DOMAIN roles /\ roles[r].row /\ roles[r] \in Track
  BY <1>3 DEF RoleRows, TracksSound
<1>5. DOMAIN roles' = DOMAIN roles /\ \A x \in DOMAIN roles : x # r => roles'[x] = roles[x]
  BY <1>2
<1>6. roles'[r] = [roles[r] EXCEPT !.active = ~roles[r].active]
  BY <1>2, <1>4
<1>7. /\ roles'[r] \in Track /\ roles'[r].row = roles[r].row /\ roles'[r].frames = roles[r].frames
      /\ roles'[r].comps = roles[r].comps /\ roles'[r].items = roles[r].items
  BY <1>4, <1>6 DEF Track
<1>8. ASSUME NEW x \in DOMAIN roles
      PROVE  /\ roles[x] \in Track /\ roles'[x] \in Track
             /\ roles'[x].row = roles[x].row /\ roles'[x].frames = roles[x].frames
             /\ roles'[x].comps = roles[x].comps /\ roles'[x].items = roles[x].items
             /\ roles'[x].comps >= roles[x].comps
             /\ \A q \in Posted : roles'[x].items[q] >= roles[x].items[q]
  <2>1. /\ roles[x] \in Track /\ roles'[x] \in Track
        /\ roles'[x].row = roles[x].row /\ roles'[x].frames = roles[x].frames
        /\ roles'[x].comps = roles[x].comps /\ roles'[x].items = roles[x].items
    BY <1>3, <1>5, <1>7 DEF TracksSound
  <2>2. roles[x].comps \in Nat /\ \A q \in Posted : roles[x].items[q] \in Nat
    BY <2>1 DEF Track
  <2> QED
    BY <2>1, <2>2
<1>9. ASSUME NEW x \in Helpers
      PROVE  HelperSound(helper[x], roles', promised, undone, met)
  <2>1. HelperSound(helper[x], roles, promised, undone, met)
    BY DEF TracksInv
  <2>2. helper[x].step \in Undoing => helper[x].role \in DOMAIN roles
    BY <2>1 DEF HelperSound, AtTrack
  <2> QED
    BY <1>5, <1>8, <2>1, <2>2, GrownSound
<1>10. TracksSound(roles', promised, undone, met)
  <2>1. ~NoTrack.row
    BY DEF NoTrack
  <2>2. r \notin undone \ met
    BY <1>3, <1>4, <2>1 DEF TracksSound
  <2>3. \A x \in undone \ met : roles'[x] = NoTrack
    BY <1>3, <1>5, <2>2 DEF TracksSound
  <2>4. promised # 0 => promised \in DOMAIN roles /\ Whole(roles'[promised])
    BY <1>3, <1>8 DEF TracksSound, Whole
  <2>5. \A x, y \in DOMAIN roles' : roles'[x].row /\ roles'[y].row => x = y
    BY <1>3, <1>5, <1>8 DEF TracksSound
  <2> QED
    BY <1>3, <1>5, <1>8, <2>3, <2>4, <2>5 DEF TracksSound
<1> QED
  BY <1>1, <1>9, <1>10 DEF TracksInv

\* Whoever begins a deletion takes back every promise that is about to be made.
LEMMA DeletingKeeps ==
  ASSUME TracksInv, NEW d \in Helpers, Delete(d)
  PROVE  TracksInv'
<1>1. PICK r \in RoleRows :
        /\ helper' = [x \in Helpers |->
             IF x = d THEN [step |-> "goItems", role |-> r]
             ELSE IF Works(x, "idle") \/ helper[x].step \notin ToppingUp THEN helper[x]
             ELSE [helper[x] EXCEPT !.clear = FALSE]]
        /\ promised' = IF promised = r THEN 0 ELSE promised
        /\ met' = met \cup {r}
  BY DEF Delete, Meets
<1>2. UNCHANGED <<roles, undone>> /\ TracksSound(roles, promised, undone, met)
  BY DEF Delete, TracksInv
<1>3. r \in DOMAIN roles /\ roles[r].row /\ r # 0
  BY <1>2 DEF RoleRows, TracksSound
<1>4. promised' = 0
  BY <1>1, <1>2, <1>3 DEF TracksSound, Whole
<1>5. 0 \notin DOMAIN roles
  BY <1>2 DEF TracksSound
<1>6. TracksSound(roles, 0, undone, met')
  BY <1>1, <1>2 DEF TracksSound
<1>7. /\ helper'[d].step = "goItems" /\ helper'[d].role = r /\ {"step", "role"} \subseteq DOMAIN helper'[d]
  BY <1>1
<1>8. HelperSound(helper'[d], roles, 0, undone, met') /\ ~Locked(helper'[d]) /\ ~Promising(helper'[d])
  <2>1. helper'[d].step \in Going /\ helper'[d].step \in AtTrack /\ helper'[d].step \notin ToppingUp \cup Undoing \cup Adding
    BY <1>7 DEF Going, AtTrack, ToppingUp, Undoing, Adding
  <2>2. ~Locked(helper'[d]) /\ ~Promising(helper'[d]) /\ ~Owns(helper'[d])
    BY <1>7, <2>1 DEF Locked, Promising, Owns
  <2>3. Shaped(helper'[d])
    BY <1>7, <2>1 DEF Shaped
  <2> QED
    BY <1>1, <1>3, <1>7, <2>1, <2>2, <2>3 DEF HelperSound
<1>9. ASSUME NEW x \in Helpers \ {d}
      PROVE  /\ HelperSound(helper'[x], roles, 0, undone, met') /\ ~Promising(helper'[x])
             /\ Locked(helper'[x]) => Locked(helper[x])
  <2> DEFINE h == helper[x]
             z == helper'[x]
  <2>1. HelperSound(h, roles, promised, undone, met)
    BY DEF TracksInv
  <2>2. h.step \in AtTrack => h.role # 0
    BY <1>5, <2>1 DEF HelperSound
  <2>3. Owns(h) \/ h.step \in Going => h.step \in AtTrack
    BY DEF Owns, AtTrack
  <2>4. HelperSound(h, roles, 0, undone, met')
    BY <1>1, <2>1, <2>2, <2>3 DEF HelperSound
  <2>5. CASE h.step \notin ToppingUp
    <3>1. z = h
      BY <1>1, <2>5
    <3> QED
      BY <2>4, <2>5, <3>1 DEF Promising
  <2>6. CASE h.step \in ToppingUp
    <3>1. z = [h EXCEPT !.clear = FALSE]
      BY <1>1, <2>6, StepsApart DEF Works, AtTrack
    <3>2. /\ DOMAIN z = DOMAIN h /\ z.step = h.step /\ z.role = h.role /\ z.by = h.by /\ z.fresh = h.fresh
          /\ z.clear = FALSE /\ ("add" \in DOMAIN h => z.add = h.add)
      BY <2>1, <2>6, <3>1, StepsApart DEF HelperSound, Shaped, AtTrack
    <3> HIDE DEF z
    <3>3. Shaped(z) /\ ~Promising(z) /\ (Owns(z) <=> Owns(h)) /\ (Locked(z) <=> Locked(h))
      BY <2>1, <2>6, <3>2 DEF HelperSound, Shaped, Promising, Owns, Locked
    <3>4. HelperSound(z, roles, 0, undone, met')
      BY <2>4, <2>6, <3>2, <3>3, StepsApart DEF HelperSound
    <3> QED
      BY <3>3, <3>4 DEF z
  <2> QED
    BY <2>5, <2>6
<1>10. DOMAIN helper' = Helpers
  BY <1>1
<1>11. \A x \in Helpers : HelperSound(helper'[x], roles', promised', undone', met') /\ ~Promising(helper'[x])
  BY <1>2, <1>4, <1>8, <1>9
<1>12. \A x, y \in Helpers : Locked(helper'[x]) /\ Locked(helper'[y]) => x = y
  BY <1>8, <1>9 DEF TracksInv
<1>13. TracksSound(roles', promised', undone', met')
  BY <1>2, <1>4, <1>6
<1> QED
  BY <1>10, <1>11, <1>12, <1>13 DEF TracksInv

LEMMA AskingKeeps ==
  ASSUME TracksInv, NEW d \in Helpers, AskToAdd(d) \/ LookForPrompt(d)
  PROVE  TracksInv'
<1> DEFINE h == helper[d]
<1>1. UNCHANGED <<roles, promised, undone>> /\ HelperSound(h, roles, promised, undone, met)
  BY DEF AskToAdd, LookForPrompt, Untold, TracksInv
<1>2. ASSUME NEW z, {"step", "role"} \subseteq DOMAIN z, z.step \in {"waitPrompt", "insertItem"},
             z.role \in DOMAIN roles, z.role \in met'
      PROVE  HelperSound(z, roles, promised, undone, met') /\ ~Locked(z) /\ ~Promising(z) /\ z.step \notin Going
  <2>1. z.step \in AtTrack /\ z.step \notin ToppingUp \cup Undoing \cup Going \cup Adding
    BY <1>2 DEF AtTrack, ToppingUp, Undoing, Going, Adding
  <2>2. ~Locked(z) /\ ~Promising(z) /\ ~Owns(z)
    BY <1>2, <2>1 DEF Locked, Promising, Owns
  <2> QED
    BY <1>2, <2>1, <2>2 DEF HelperSound, Shaped
<1>3. CASE AskToAdd(d)
  <2>1. PICK r \in RoleRows, q \in Posted : Meets(r) /\ Then(d, [step |-> "waitPrompt", role |-> r, item |-> q])
    BY <1>3 DEF AskToAdd
  <2> DEFINE z == [step |-> "waitPrompt", role |-> r, item |-> q]
  <2>2. /\ {"step", "role"} \subseteq DOMAIN z /\ z.step = "waitPrompt" /\ z.role \in DOMAIN roles
        /\ z.role \in met' /\ met \subseteq met'
    BY <2>1 DEF RoleRows, Meets
  <2>3. Then(d, z)
    BY <2>1
  <2> HIDE DEF z
  <2>4. HelperSound(z, roles, promised, undone, met') /\ ~Locked(z) /\ ~Promising(z) /\ z.step \notin Going
    BY <1>2, <2>2
  <2> QED
    BY <1>1, <2>2, <2>3, <2>4, TracksStay
<1>4. CASE LookForPrompt(d)
  <2>1. h.step = "waitPrompt" /\ UNCHANGED met /\ (Then(d, Asleep) \/ Stage(d, "insertItem"))
    BY <1>4 DEF LookForPrompt, Works, Untold
  <2>2. CASE Then(d, Asleep)
    BY <1>1, <2>1, <2>2, EndsQuietly
  <2>3. CASE Stage(d, "insertItem")
    <3> DEFINE z == [h EXCEPT !.step = "insertItem"]
    <3>1. h.step \in AtTrack /\ h.step \notin ToppingUp \cup Undoing
      BY <2>1 DEF AtTrack, ToppingUp, Undoing
    <3>2. {"step", "role"} \subseteq DOMAIN h /\ h.role \in DOMAIN roles /\ h.role \in met
      BY <1>1, <2>1, <3>1 DEF HelperSound, Shaped, Owns
    <3>3. Then(d, z) /\ z.step = "insertItem" /\ z.role = h.role /\ DOMAIN z = DOMAIN h
      BY <2>3, <3>2 DEF Stage
    <3> HIDE DEF z
    <3>4. HelperSound(z, roles, promised, undone, met') /\ ~Locked(z) /\ ~Promising(z) /\ z.step \notin Going
      BY <1>2, <2>1, <3>2, <3>3
    <3> QED
      BY <1>1, <2>1, <3>3, <3>4, TracksStay
  <2> QED
    BY <2>1, <2>2, <2>3
<1> QED
  BY <1>3, <1>4

LEMMA TracksStepKeeps ==
  ASSUME TracksInv, [TracksNext]_tracksVars
  PROVE  TracksInv'
<1>1. CASE UNCHANGED tracksVars
  BY <1>1 DEF tracksVars, TracksInv
<1>2. CASE TracksNext
  <2>1. PICK d \in Helpers :
          \/ CreateTrack(d) \/ InsertTrack(d) \/ InsertFrame(d)
          \/ Install(d) \/ Sync(d) \/ ReadComps(d) \/ AddComps(d) \/ ReadItems(d) \/ AddItems(d)
          \/ Ensure(d) \/ AddFrame(d) \/ HelperFails(d) \/ Undo(d)
          \/ SwitchTrackRow(d) \/ Delete(d) \/ DeleteNext(d)
          \/ AskToAdd(d) \/ LookForPrompt(d) \/ InsertItem(d)
    BY <1>2 DEF TracksNext
  <2> QED
    BY <2>1, CreatingKeeps, InsertingTrackKeeps, FramingKeeps, InstallingKeeps, ReadingCompsKeeps,
       AddingCompsKeeps, ReadingItemsKeeps, AddingItemsKeeps, EnsuringKeeps, AddingFrameKeeps, FailingKeeps,
       UndoingKeeps, SwitchingKeeps, DeletingKeeps, DeletingNextKeeps, AskingKeeps, InsertingItemKeeps
<1> QED
  BY <1>1, <1>2

LEMMA TracksStart == TracksInit => TracksInv
<1> SUFFICES ASSUME TracksInit PROVE TracksInv
  OBVIOUS
<1>1. DOMAIN roles = {} /\ DOMAIN helper = Helpers /\ promised = 0 /\ undone = {} /\ met = {}
  BY DEF TracksInit
<1>2. \A d \in Helpers : helper[d] = Asleep
  BY DEF TracksInit
<1>3. Asleep.step = "idle" /\ "step" \in DOMAIN Asleep
  BY DEF Asleep
<1>4. HelperSound(Asleep, roles, promised, undone, met) /\ ~Locked(Asleep) /\ ~Promising(Asleep)
  BY <1>3, StepsApart DEF HelperSound, Shaped, Locked, Promising, Owns, AtTrack, Adding, ToppingUp, Undoing, Going
<1>5. TracksSound(roles, promised, undone, met)
  <2>1. DOMAIN roles = 1..0 /\ 0 \in Nat
    BY <1>1
  <2>2. \E k \in Nat : DOMAIN roles = 1..k
    BY <2>1
  <2> QED
    BY <1>1, <2>2 DEF TracksSound
<1> QED
  BY <1>1, <1>2, <1>4, <1>5 DEF TracksInv

\* However many add the track at once, by hand or from the catalogue, there is one
\* (content.mjs:35-38, tracks.mjs:44-47).
THEOREM OneTrack == TracksSpec => []OneTrackPerKey
<1>1. TracksInit => TracksInv
  BY TracksStart
<1>2. TracksInv /\ [TracksNext]_tracksVars => TracksInv'
  BY TracksStepKeeps
<1>3. TracksInv => OneTrackPerKey
  <2> SUFFICES ASSUME TracksInv PROVE Cardinality(RoleRows) <= 1
    BY DEF OneTrackPerKey
  <2>1. \A r, s \in RoleRows : r = s
    BY DEF TracksInv, TracksSound, RoleRows
  <2>2. CASE RoleRows = {}
    <3>1. Cardinality(RoleRows) = 0
      BY <2>2, FS_EmptySet
    <3> QED
      BY <3>1
  <2>3. CASE RoleRows # {}
    <3>1. PICK r : RoleRows = {r}
      BY <2>1, <2>3
    <3>2. Cardinality(RoleRows) = 1
      BY <3>1, FS_Singleton
    <3> QED
      BY <3>2
  <2> QED
    BY <2>2, <2>3
<1> QED
  BY <1>1, <1>2, <1>3, PTL DEF TracksSpec

\* An installation that was answered left a whole track, until somebody deletes it; one that was
\* undone leaves nothing behind unless another request had found the track, through every
\* interleaving of installations, top-ups, deletions and failures (catalogue-service.mjs:270-295).
THEOREM InstallsWhole == TracksSpec => []AllOrNothing
<1>1. TracksInit => TracksInv
  BY TracksStart
<1>2. TracksInv /\ [TracksNext]_tracksVars => TracksInv'
  BY TracksStepKeeps
<1>3. TracksInv => AllOrNothing
  BY DEF TracksInv, TracksSound, Whole, AllOrNothing
<1> QED
  BY <1>1, <1>2, <1>3, PTL DEF TracksSpec

----------------------------------------------------------------------------
(* Sums *)

\* The element a sum takes next.
Chosen(s) == CHOOSE x \in s : TRUE

\* g adds f up over every subset of S of at most k elements.
Adds(g, f, S, k) ==
  \A s \in SUBSET S : Cardinality(s) <= k =>
    g[s] = IF s = {} THEN 0 ELSE f[Chosen(s)] + g[s \ {Chosen(s)}]

LEMMA ChosenLeft ==
  ASSUME NEW S, IsFiniteSet(S), NEW s \in SUBSET S
  PROVE  /\ IsFiniteSet(s) /\ Cardinality(s) \in Nat /\ (Cardinality(s) = 0 <=> s = {})
         /\ s # {} => /\ Chosen(s) \in s /\ s \ {Chosen(s)} \in SUBSET S
                      /\ Cardinality(s \ {Chosen(s)}) = Cardinality(s) - 1
<1>1. IsFiniteSet(s)
  BY FS_Subset
<1>2. Cardinality(s) \in Nat /\ (Cardinality(s) = 0 <=> s = {})
  BY <1>1, FS_CardinalityType, FS_EmptySet
<1>3. s # {} => Chosen(s) \in s
  BY DEF Chosen
<1> QED
  BY <1>1, <1>2, <1>3, FS_RemoveElement

LEMMA SumsExist ==
  ASSUME NEW S, IsFiniteSet(S), NEW f, NEW n \in Nat
  PROVE  \E g : DOMAIN g = SUBSET S /\ g = [s \in SUBSET S |-> g[s]] /\ Adds(g, f, S, n)
<1> DEFINE Good(k) == \E g : DOMAIN g = SUBSET S /\ g = [s \in SUBSET S |-> g[s]] /\ Adds(g, f, S, k)
           Bad == {k \in Nat : ~Good(k)}
<1>1. SUFFICES ASSUME Bad # {} PROVE FALSE
  OBVIOUS
<1>2. PICK k \in Bad : \A j \in Bad : k <= j
  <2>1. Bad \in SUBSET Nat
    OBVIOUS
  <2> HIDE DEF Bad
  <2> QED
    BY <1>1, <2>1, LeastNatural
<1>3. CASE k = 0
  <2> DEFINE g == [s \in SUBSET S |-> 0]
  <2>1. ASSUME NEW s \in SUBSET S, Cardinality(s) <= 0 PROVE s = {}
    <3>1. Cardinality(s) \in Nat
      BY ChosenLeft
    <3>2. Cardinality(s) = 0
      BY <2>1, <3>1
    <3> QED
      BY <3>2, ChosenLeft
  <2>4. Adds(g, f, S, 0)
    BY <2>1 DEF Adds
  <2>2. DOMAIN g = SUBSET S /\ g = [s \in SUBSET S |-> g[s]]
    OBVIOUS
  <2> HIDE DEF g
  <2> QED
    BY <1>3, <2>2, <2>4
<1>4. CASE k # 0
  <2>1. k \in Nat /\ k - 1 \in Nat /\ k - 1 \notin Bad
    <3>1. k \in Nat
      OBVIOUS
    <3>2. k - 1 \in Nat /\ ~(k <= k - 1)
      BY <1>4, <3>1
    <3> HIDE DEF Bad
    <3> QED
      BY <1>2, <3>1, <3>2
  <2>2. PICK g : Adds(g, f, S, k - 1)
    BY <2>1
  <2> DEFINE h == [s \in SUBSET S |-> IF Cardinality(s) <= k - 1 THEN g[s]
                                      ELSE f[Chosen(s)] + g[s \ {Chosen(s)}]]
  <2>3. DOMAIN h = SUBSET S /\ h = [s \in SUBSET S |-> h[s]]
    OBVIOUS
  <2>4. Adds(h, f, S, k)
    <3> SUFFICES ASSUME NEW s \in SUBSET S, Cardinality(s) <= k
                 PROVE  h[s] = IF s = {} THEN 0 ELSE f[Chosen(s)] + h[s \ {Chosen(s)}]
      BY DEF Adds
    <3>1. Cardinality(s) \in Nat /\ k \in Nat
      BY ChosenLeft
    <3>2. CASE s = {}
      <4>1. Cardinality(s) <= k - 1
        BY <2>1, <3>2, FS_EmptySet
      <4>2. g[s] = 0
        BY <2>2, <3>2, <4>1 DEF Adds
      <4> QED
        BY <3>2, <4>1, <4>2
    <3>3. CASE s # {}
      <4>1. s \ {Chosen(s)} \in SUBSET S /\ Cardinality(s \ {Chosen(s)}) = Cardinality(s) - 1
        BY <3>3, ChosenLeft
      <4>2. h[s \ {Chosen(s)}] = g[s \ {Chosen(s)}]
        BY <3>1, <4>1
      <4>3. CASE Cardinality(s) <= k - 1
        <5>1. g[s] = f[Chosen(s)] + g[s \ {Chosen(s)}]
          BY <2>2, <3>3, <4>3 DEF Adds
        <5> QED
          BY <3>3, <4>2, <4>3, <5>1
      <4>4. CASE ~(Cardinality(s) <= k - 1)
        BY <3>3, <4>2, <4>4
      <4> QED
        BY <4>3, <4>4
    <3> QED
      BY <3>2, <3>3
  <2> HIDE DEF h
  <2> QED
    BY <2>3, <2>4
<1> QED
  BY <1>3, <1>4

\* Two such sums agree where both add up.
LEMMA SumsAgree ==
  ASSUME NEW S, IsFiniteSet(S), NEW f, NEW n \in Nat, NEW g, NEW h,
         Adds(g, f, S, n), Adds(h, f, S, n)
  PROVE  \A s \in SUBSET S : Cardinality(s) <= n => g[s] = h[s]
<1> DEFINE Bad == {Cardinality(s) : s \in {t \in SUBSET S : Cardinality(t) <= n /\ g[t] # h[t]}}
<1>1. SUFFICES ASSUME Bad # {} PROVE FALSE
  OBVIOUS
<1>2. Bad \in SUBSET Nat
  <2>1. \A t \in SUBSET S : Cardinality(t) \in Nat
    BY ChosenLeft
  <2> QED
    BY <2>1
<1>3. PICK k \in Bad : \A j \in Bad : k <= j
  <2> HIDE DEF Bad
  <2> QED
    BY <1>1, <1>2, LeastNatural
<1>4. PICK s \in SUBSET S : Cardinality(s) = k /\ k <= n /\ g[s] # h[s]
  OBVIOUS
<1>5. s # {}
  BY <1>4, ChosenLeft DEF Adds
<1>6. /\ s \ {Chosen(s)} \in SUBSET S /\ Cardinality(s \ {Chosen(s)}) = k - 1 /\ k \in Nat
  BY <1>2, <1>4, <1>5, ChosenLeft
<1>7. g[s \ {Chosen(s)}] = h[s \ {Chosen(s)}]
  BY <1>3, <1>4, <1>6
<1> QED
  BY <1>4, <1>5, <1>7 DEF Adds

\* What SumFunctionOnSet is: nothing for no elements, else one and the rest.
LEMMA SumUnfolds ==
  ASSUME NEW S, IsFiniteSet(S), NEW f
  PROVE  SumFunctionOnSet(f, S) =
           IF S = {} THEN 0 ELSE f[Chosen(S)] + SumFunctionOnSet(f, S \ {Chosen(S)})
<1> DEFINE Sums(T, g) == g = [s \in SUBSET T |-> IF s = {} THEN 0
                                                 ELSE f[Chosen(s)] + g[s \ {Chosen(s)}]]
<1>1. ASSUME NEW T PROVE SumFunctionOnSet(f, T) = (CHOOSE g : Sums(T, g))[T]
  BY DEF SumFunctionOnSet, FoldFunctionOnSet, MapThenFoldSet, Chosen
<1>2. ASSUME NEW T \in SUBSET S
      PROVE  \E g : Sums(T, g)
  <2>1. IsFiniteSet(T) /\ Cardinality(T) \in Nat
    BY ChosenLeft
  <2>2. PICK g : DOMAIN g = SUBSET T /\ g = [s \in SUBSET T |-> g[s]] /\ Adds(g, f, T, Cardinality(T))
    BY <2>1, SumsExist
  <2>3. \A s \in SUBSET T : Cardinality(s) <= Cardinality(T)
    BY <2>1, FS_Subset
  <2>4. \A s \in SUBSET T : g[s] = IF s = {} THEN 0 ELSE f[Chosen(s)] + g[s \ {Chosen(s)}]
    BY <2>2, <2>3 DEF Adds
  <2> QED
    BY <2>2, <2>4
<1>3. ASSUME NEW T \in SUBSET S
      PROVE  \E g : /\ SumFunctionOnSet(f, T) = g[T]
                    /\ \A s \in SUBSET T : g[s] = IF s = {} THEN 0 ELSE f[Chosen(s)] + g[s \ {Chosen(s)}]
  <2>1. PICK g : g = CHOOSE x : Sums(T, x)
    OBVIOUS
  <2>2. Sums(T, g)
    BY <1>2, <2>1
  <2> QED
    <3> HIDE DEF Sums
    <3>1. SumFunctionOnSet(f, T) = g[T]
      BY <1>1, <2>1
    <3>2. g = [s \in SUBSET T |-> IF s = {} THEN 0 ELSE f[Chosen(s)] + g[s \ {Chosen(s)}]]
      BY <2>2 DEF Sums
    <3>3. \A s \in SUBSET T : g[s] = IF s = {} THEN 0 ELSE f[Chosen(s)] + g[s \ {Chosen(s)}]
      BY <3>2
    <3> QED
      BY <3>1, <3>3
<1> HIDE DEF Sums
<1>4. PICK g : /\ SumFunctionOnSet(f, S) = g[S]
               /\ \A s \in SUBSET S : g[s] = IF s = {} THEN 0 ELSE f[Chosen(s)] + g[s \ {Chosen(s)}]
  BY <1>3
<1>5. CASE S = {}
  BY <1>4, <1>5
<1>6. CASE S # {}
  <2> DEFINE T == S \ {Chosen(S)}
  <2>1. T \in SUBSET S
    OBVIOUS
  <2>6. IsFiniteSet(T) /\ Cardinality(T) \in Nat
    BY <2>1, FS_Subset, FS_CardinalityType
  <2> HIDE DEF T
  <2>2. PICK h : /\ SumFunctionOnSet(f, T) = h[T]
                 /\ \A s \in SUBSET T : h[s] = IF s = {} THEN 0 ELSE f[Chosen(s)] + h[s \ {Chosen(s)}]
    BY <1>3, <2>1
  <2>3. Adds(g, f, T, Cardinality(T)) /\ Adds(h, f, T, Cardinality(T))
    BY <1>4, <2>1, <2>2 DEF Adds
  <2>4. g[T] = h[T]
    BY <2>3, <2>6, SumsAgree
  <2>5. g[S] = f[Chosen(S)] + g[T]
    BY <1>4, <1>6 DEF T
  <2> QED
    BY <1>4, <1>6, <2>2, <2>4, <2>5 DEF T
<1> QED
  BY <1>5, <1>6

\* Induction over the subsets of a finite set, for the set of those that are Good.
LEMMA SubsetsGrow ==
  ASSUME NEW S, IsFiniteSet(S), NEW Good,
         \A s \in SUBSET S :
           (\A t \in SUBSET S : Cardinality(t) < Cardinality(s) => t \in Good) => s \in Good
  PROVE  \A s \in SUBSET S : s \in Good
<1> DEFINE Bad == {Cardinality(s) : s \in (SUBSET S) \ Good}
<1>1. SUFFICES ASSUME Bad # {} PROVE FALSE
  OBVIOUS
<1>2. \A s \in SUBSET S : Cardinality(s) \in Nat
  BY ChosenLeft
<1>3. PICK k \in Bad : \A j \in Bad : k <= j
  <2>1. Bad \in SUBSET Nat
    BY <1>2
  <2> HIDE DEF Bad
  <2> QED
    BY <1>1, <2>1, LeastNatural
<1>4. PICK s \in (SUBSET S) \ Good : Cardinality(s) = k
  OBVIOUS
<1>5. ASSUME NEW t \in SUBSET S, Cardinality(t) < k PROVE t \in Good
  <2>1. Cardinality(t) \in Bad => k <= Cardinality(t)
    BY <1>3
  <2>2. Cardinality(t) \in Nat /\ k \in Nat
    BY <1>2, <1>4
  <2>3. Cardinality(t) \notin Bad
    BY <1>5, <2>1, <2>2
  <2> QED
    BY <2>3
<1> QED
  BY <1>4, <1>5

\* A sum over a set is one and a sum over the rest, whichever one.
LEMMA SumRemoves ==
  ASSUME NEW S, IsFiniteSet(S), NEW f, \A x \in S : f[x] \in Nat
  PROVE  /\ SumFunctionOnSet(f, S) \in Nat
         /\ \A x \in S : SumFunctionOnSet(f, S) = f[x] + SumFunctionOnSet(f, S \ {x})
<1> DEFINE Sum(s) == SumFunctionOnSet(f, s)
           Good == {s \in SUBSET S : /\ Sum(s) \in Nat
                                     /\ \A x \in s : Sum(s) = f[x] + Sum(s \ {x})}
<1>1. ASSUME NEW s \in SUBSET S, \A t \in SUBSET S : Cardinality(t) < Cardinality(s) => t \in Good
      PROVE  s \in Good
  <2>1. IsFiniteSet(s) /\ Cardinality(s) \in Nat
    BY ChosenLeft
  <2>2. CASE s = {}
    <3>1. Sum(s) = 0
      BY <2>1, <2>2, SumUnfolds
    <3> QED
      BY <2>2, <3>1
  <2>3. CASE s # {}
    <3>1. PICK y \in s : Sum(s) = f[y] + Sum(s \ {y})
      BY <2>1, <2>3, SumUnfolds, ChosenLeft
    <3>2. ASSUME NEW x \in s
          PROVE  s \ {x} \in Good
      <4>1. Cardinality(s \ {x}) = Cardinality(s) - 1
        BY <2>1, FS_RemoveElement
      <4>2. Cardinality(s \ {x}) < Cardinality(s)
        BY <2>1, <4>1
      <4>3. s \ {x} \in SUBSET S
        OBVIOUS
      <4> QED
        BY <1>1, <4>2, <4>3
    <3>3. Sum(s) \in Nat
      BY <3>1, <3>2
    <3>4. ASSUME NEW x \in s, x # y
          PROVE  Sum(s) = f[x] + Sum(s \ {x})
      <4>1. Sum(s \ {y}) = f[x] + Sum((s \ {y}) \ {x})
        BY <3>2, <3>4
      <4>2. Sum(s \ {x}) = f[y] + Sum((s \ {x}) \ {y})
        BY <3>2, <3>4
      <4>3. (s \ {y}) \ {x} = (s \ {x}) \ {y} /\ (s \ {y}) \ {x} \in SUBSET S
        OBVIOUS
      <4>4. Sum((s \ {y}) \ {x}) \in Nat
        <5>1. IsFiniteSet(s \ {y}) /\ Cardinality(s \ {y}) = Cardinality(s) - 1
          BY <2>1, FS_RemoveElement
        <5>2. Cardinality((s \ {y}) \ {x}) = Cardinality(s) - 2
          <6>1. x \in s \ {y}
            BY <3>4
          <6>2. Cardinality((s \ {y}) \ {x}) = Cardinality(s \ {y}) - 1
            BY <5>1, <6>1, FS_RemoveElement
          <6> QED
            BY <2>1, <5>1, <6>2
        <5>3. Cardinality((s \ {y}) \ {x}) < Cardinality(s)
          BY <2>1, <5>2
        <5> QED
          BY <1>1, <4>3, <5>3
      <4>5. f[x] \in Nat /\ f[y] \in Nat
        OBVIOUS
      <4> HIDE DEF Sum, Good
      <4> QED
        BY <3>1, <4>1, <4>2, <4>3, <4>4, <4>5
    <3> QED
      BY <3>1, <3>3, <3>4
  <2> QED
    BY <2>2, <2>3
<1>2. S \in Good
  <2> HIDE DEF Good
  <2> QED
    BY <1>1, SubsetsGrow
<1> QED
  BY <1>2

LEMMA SumOfNone == \A f : SumFunctionOnSet(f, {}) = 0
  BY SumUnfolds, FS_EmptySet

\* Sums of the sums and of the multiples of numbers.
LEMMA SumsAdd ==
  ASSUME NEW S, IsFiniteSet(S), NEW f, NEW g, NEW h, NEW k \in Nat,
         \A x \in S : f[x] \in Nat /\ g[x] \in Nat /\ h[x] = f[x] + k * g[x]
  PROVE  SumFunctionOnSet(h, S) = SumFunctionOnSet(f, S) + k * SumFunctionOnSet(g, S)
<1> DEFINE Good == {s \in SUBSET S : SumFunctionOnSet(h, s) = SumFunctionOnSet(f, s) + k * SumFunctionOnSet(g, s)}
<1>1. ASSUME NEW s \in SUBSET S, \A t \in SUBSET S : Cardinality(t) < Cardinality(s) => t \in Good
      PROVE  s \in Good
  <2>1. IsFiniteSet(s) /\ Cardinality(s) \in Nat
    BY ChosenLeft
  <2>2. CASE s = {}
    BY <2>2, SumOfNone
  <2>3. CASE s # {}
    <3>1. PICK x \in s : TRUE
      BY <2>3
    <3> DEFINE t == s \ {x}
    <3>2. Cardinality(t) = Cardinality(s) - 1
      BY <2>1, FS_RemoveElement
    <3>3. t \in Good
      <4>1. Cardinality(t) < Cardinality(s)
        BY <2>1, <3>2
      <4> QED
        BY <1>1, <4>1
    <3>4. \A y \in s : f[y] \in Nat /\ g[y] \in Nat /\ h[y] \in Nat
      OBVIOUS
    <3>5. /\ SumFunctionOnSet(h, s) = h[x] + SumFunctionOnSet(h, t)
          /\ SumFunctionOnSet(f, s) = f[x] + SumFunctionOnSet(f, t)
          /\ SumFunctionOnSet(g, s) = g[x] + SumFunctionOnSet(g, t)
      BY <2>1, <3>4, SumRemoves
    <3>6. IsFiniteSet(t)
      BY <2>1, FS_RemoveElement
    <3>7. \A y \in t : f[y] \in Nat /\ g[y] \in Nat
      BY <3>4
    <3>8. SumFunctionOnSet(f, t) \in Nat /\ SumFunctionOnSet(g, t) \in Nat
      <4> HIDE DEF t
      <4> QED
        BY <3>6, <3>7, SumRemoves
    <3>9. SumFunctionOnSet(h, t) = SumFunctionOnSet(f, t) + k * SumFunctionOnSet(g, t)
      BY <3>3
    <3>10. h[x] = f[x] + k * g[x]
      OBVIOUS
    <3> HIDE DEF t
    <3>11. PICK a, b \in Nat : a = SumFunctionOnSet(f, t) /\ b = SumFunctionOnSet(g, t)
      BY <3>8
    <3>12. k * (g[x] + b) = k * g[x] + k * b /\ k * g[x] \in Nat /\ k * b \in Nat
      BY <3>4, <3>11
    <3>13. SumFunctionOnSet(h, s) = (f[x] + k * g[x]) + (a + k * b)
      BY <3>5, <3>9, <3>10, <3>11
    <3>14. SumFunctionOnSet(h, s) = (f[x] + a) + k * (g[x] + b)
      BY <3>4, <3>11, <3>12, <3>13
    <3> QED
      BY <3>5, <3>11, <3>14
  <2> QED
    BY <2>2, <2>3
<1> HIDE DEF Good
<1>2. S \in Good
  BY <1>1, SubsetsGrow
<1> QED
  BY <1>2 DEF Good

\* A sum grows with what it adds up, and stays only if nothing grows.
LEMMA SumsCompare ==
  ASSUME NEW S, IsFiniteSet(S), NEW f, NEW g,
         \A x \in S : f[x] \in Nat /\ g[x] \in Nat /\ f[x] <= g[x]
  PROVE  /\ SumFunctionOnSet(f, S) <= SumFunctionOnSet(g, S)
         /\ SumFunctionOnSet(f, S) = SumFunctionOnSet(g, S) => \A x \in S : f[x] = g[x]
<1> DEFINE d == [x \in S |-> g[x] - f[x]]
<1>1. \A x \in S : d[x] \in Nat /\ g[x] = f[x] + 1 * d[x]
  OBVIOUS
<1>2. SumFunctionOnSet(g, S) = SumFunctionOnSet(f, S) + 1 * SumFunctionOnSet(d, S)
  <2> HIDE DEF d
  <2> QED
    BY <1>1, SumsAdd
<1>3. SumFunctionOnSet(f, S) \in Nat /\ SumFunctionOnSet(d, S) \in Nat
  <2> HIDE DEF d
  <2> QED
    BY <1>1, SumRemoves
<1>4. ASSUME SumFunctionOnSet(d, S) = 0, NEW x \in S PROVE d[x] = 0
  <2>1. \A y \in S \ {x} : d[y] \in Nat
    BY <1>1
  <2>2. IsFiniteSet(S \ {x})
    BY FS_RemoveElement
  <2> HIDE DEF d
  <2>3. SumFunctionOnSet(d, S \ {x}) \in Nat
    BY <2>1, <2>2, SumRemoves
  <2>4. SumFunctionOnSet(d, S) = d[x] + SumFunctionOnSet(d, S \ {x})
    BY <1>1, SumRemoves
  <2> QED
    BY <1>1, <1>4, <2>3, <2>4
<1>5. ASSUME SumFunctionOnSet(f, S) = SumFunctionOnSet(g, S), NEW x \in S PROVE f[x] = g[x]
  <2>1. d[x] = 0
    BY <1>2, <1>3, <1>4, <1>5
  <2>2. g[x] = f[x] + 1 * d[x] /\ f[x] \in Nat
    BY <1>1
  <2> HIDE DEF d
  <2> QED
    BY <2>1, <2>2
<1> HIDE DEF d
<1> QED
  BY <1>2, <1>3, <1>5

\* What is zero outside T adds up over T alone; what is one there counts it.
LEMMA SumsWithin ==
  ASSUME NEW S, IsFiniteSet(S), NEW T \in SUBSET S, NEW f, NEW g, 
         \A x \in S : f[x] \in Nat /\ g[x] = IF x \in T THEN f[x] ELSE 0
  PROVE  /\ SumFunctionOnSet(g, S) = SumFunctionOnSet(f, T)
         /\ (\A x \in T : f[x] = 1) => SumFunctionOnSet(f, T) = Cardinality(T)
<1> DEFINE Good == {s \in SUBSET S : /\ SumFunctionOnSet(g, s) = SumFunctionOnSet(f, s \cap T)
                                     /\ (\A x \in T : f[x] = 1) =>
                                          SumFunctionOnSet(f, s \cap T) = Cardinality(s \cap T)}
<1>1. ASSUME NEW s \in SUBSET S, \A t \in SUBSET S : Cardinality(t) < Cardinality(s) => t \in Good
      PROVE  s \in Good
  <2>1. IsFiniteSet(s) /\ Cardinality(s) \in Nat
    BY ChosenLeft
  <2>2. CASE s = {}
    <3>1. s \cap T = {}
      BY <2>2
    <3>2. SumFunctionOnSet(g, s) = 0 /\ SumFunctionOnSet(f, s \cap T) = 0 /\ Cardinality(s \cap T) = 0
      BY <2>2, <3>1, SumOfNone, FS_EmptySet
    <3> QED
      BY <3>2
  <2>3. CASE s # {}
    <3>1. PICK x \in s : TRUE
      BY <2>3
    <3>2. Cardinality(s \ {x}) = Cardinality(s) - 1
      BY <2>1, FS_RemoveElement
    <3>3. s \ {x} \in Good
      <4>1. Cardinality(s \ {x}) < Cardinality(s)
        BY <2>1, <3>2
      <4> QED
        BY <1>1, <4>1
    <3>4. SumFunctionOnSet(g, s) = g[x] + SumFunctionOnSet(g, s \ {x})
      <4>1. \A y \in s : g[y] \in Nat
        OBVIOUS
      <4> QED
        BY <2>1, <4>1, SumRemoves
    <3>5. IsFiniteSet(s \cap T) /\ \A y \in s \cap T : f[y] \in Nat
      BY <2>1, FS_Intersection
    <3>6. CASE x \in T
      <4>1. x \in s \cap T /\ (s \cap T) \ {x} = (s \ {x}) \cap T
        BY <3>6
      <4>2. SumFunctionOnSet(f, s \cap T) = f[x] + SumFunctionOnSet(f, (s \cap T) \ {x})
        BY <3>5, <4>1, SumRemoves
      <4>3. /\ Cardinality((s \cap T) \ {x}) = Cardinality(s \cap T) - 1
            /\ Cardinality(s \cap T) \in Nat
        BY <3>5, <4>1, FS_RemoveElement, FS_CardinalityType
      <4>4. g[x] = f[x]
        BY <3>6
      <4>5. SumFunctionOnSet(g, s) = SumFunctionOnSet(f, s \cap T)
        BY <3>3, <3>4, <4>1, <4>2, <4>4
      <4>6. ASSUME \A y \in T : f[y] = 1
            PROVE  SumFunctionOnSet(f, s \cap T) = Cardinality(s \cap T)
        <5>1. SumFunctionOnSet(f, (s \cap T) \ {x}) = Cardinality((s \cap T) \ {x})
          BY <3>3, <4>1, <4>6
        <5>2. f[x] = 1
          BY <3>6, <4>6
        <5> QED
          BY <4>2, <4>3, <5>1, <5>2
      <4> QED
        BY <4>5, <4>6
    <3>7. CASE x \notin T
      <4>1. s \cap T = (s \ {x}) \cap T /\ g[x] = 0
        BY <3>7
      <4>2. SumFunctionOnSet(g, s \ {x}) \in Nat
        <5>1. IsFiniteSet(s \ {x})
          BY <2>1, FS_RemoveElement
        <5>2. \A y \in s \ {x} : g[y] \in Nat
          OBVIOUS
        <5> QED
          BY <5>1, <5>2, SumRemoves
      <4>3. SumFunctionOnSet(g, s) = SumFunctionOnSet(g, s \ {x})
        BY <3>4, <4>1, <4>2
      <4> QED
        BY <3>3, <4>1, <4>3
    <3> QED
      BY <3>6, <3>7
  <2> QED
    BY <2>2, <2>3
<1> HIDE DEF Good
<1>2. S \in Good
  BY <1>1, SubsetsGrow
<1>3. S \cap T = T
  OBVIOUS
<1> QED
  BY <1>2, <1>3 DEF Good

----------------------------------------------------------------------------
(* Ranks and quotients *)

LEMMA Quotients ==
  ASSUME NEW n \in Nat, NEW d \in Nat \ {0}
  PROVE  \E q \in Nat, r \in 0..(d - 1) : q = n \div d /\ r = n % d /\ n = d * q + r
<1>1. n % d \in 0..(d - 1) /\ n \div d \in Int
  OBVIOUS
<1>2. n \div d >= 0
  BY Z3
<1>3. n % d = n - d * (n \div d)
  BY Z3
<1>4. PICK q \in Int, r \in 0..(d - 1) : q = n \div d /\ r = n % d
  BY <1>1
<1>5. r = n - d * q /\ d * q \in Int
  BY <1>3, <1>4
<1>6. n = d * q + r
  BY <1>5
<1>7. q >= 0
  BY <1>2, <1>4
<1>8. q \in Nat
  BY <1>7
<1> QED
  BY <1>4, <1>6, <1>8, Zenon

LEMMA Products ==
  ASSUME NEW d \in Nat, NEW x \in Nat, NEW y \in Nat
  PROVE  /\ d * x \in Nat
         /\ x <= y => d * x <= d * y
         /\ x < y => d * x + d <= d * y
<1>1. d * x \in Nat /\ d * y \in Nat
  OBVIOUS
<1>2. ASSUME x <= y PROVE d * x <= d * y
  <2>1. PICK z \in Nat : y = x + z
    <3>1. y - x \in Nat /\ y = x + (y - x)
      BY <1>2
    <3> QED
      BY <3>1
  <2>2. d * y = d * x + d * z /\ d * z \in Nat
    BY <2>1
  <2> QED
    BY <1>1, <2>2
<1>3. ASSUME x < y PROVE d * x + d <= d * y
  <2>1. PICK z \in Nat : y = x + 1 + z
    <3>1. y - x - 1 \in Nat /\ y = x + 1 + (y - x - 1)
      BY <1>3
    <3> QED
      BY <3>1
  <2>2. d * y = d * x + d + d * z /\ d * z \in Nat
    BY <2>1
  <2> QED
    BY <1>1, <2>2
<1> QED
  BY <1>1, <1>2, <1>3

LEMMA QuotientsGrow ==
  ASSUME NEW m \in Nat, NEW n \in Nat, NEW d \in Nat \ {0}, m <= n
  PROVE  m \div d <= n \div d /\ (m \div d = n \div d => m % d <= n % d)
<1>1. PICK a \in Nat, r \in 0..(d - 1) : a = m \div d /\ r = m % d /\ m = d * a + r
  BY Quotients
<1>2. PICK b \in Nat, s \in 0..(d - 1) : b = n \div d /\ s = n % d /\ n = d * b + s
  BY Quotients
<1>3. m = d * a + r /\ n = d * b + s
  BY <1>1, <1>2
<1>4. d * a \in Nat /\ d * b \in Nat
  BY Products
<1>5. ~(b < a)
  <2> SUFFICES ASSUME b < a PROVE FALSE
    OBVIOUS
  <2>1. d * b + d <= d * a
    BY Products
  <2> QED
    BY <1>2, <1>3, <1>4, <2>1
<1>6. a = b => r <= s
  BY <1>2, <1>3, <1>4
<1> QED
  BY <1>1, <1>2, <1>5, <1>6

Ahead(R, S, c) == {d \in S : <<d, c>> \in R}

\* The first n of a finite set in a strict order R are at most n, a beginning of the
\* order, and everybody unless the set has more than n.
LEMMA Ranks ==
  ASSUME NEW S, IsFiniteSet(S), NEW R, NEW n \in Nat,
         \A x \in S : <<x, x>> \notin R,
         \A x, y \in S : x # y => <<x, y>> \in R \/ <<y, x>> \in R,
         \A x, y, z \in S : <<x, y>> \in R /\ <<y, z>> \in R => <<x, z>> \in R,
         NEW first \in SUBSET S, \A c \in S : c \in first <=> Cardinality(Ahead(R, S, c)) < n
  PROVE  /\ IsFiniteSet(first) /\ Cardinality(first) \in Nat /\ Cardinality(first) <= n
         /\ \A a \in S, b \in first : <<a, b>> \in R => a \in first
         /\ first # S => n < Cardinality(S)
<1> DEFINE ahead(c) == {d \in S : <<d, c>> \in R}
           rank(c) == Cardinality(ahead(c))
<1>1. ASSUME NEW c \in S
      PROVE  IsFiniteSet(ahead(c)) /\ rank(c) \in Nat /\ rank(c) < Cardinality(S)
  <2>1. ahead(c) \in SUBSET S /\ ahead(c) # S
    OBVIOUS
  <2>2. IsFiniteSet(ahead(c)) /\ rank(c) <= Cardinality(S) /\ rank(c) # Cardinality(S)
    BY <2>1, FS_Subset
  <2>3. rank(c) \in Nat /\ Cardinality(S) \in Nat
    BY <2>2, FS_CardinalityType
  <2> QED
    BY <2>2, <2>3
<1>2. ASSUME NEW a \in S, NEW b \in S, <<a, b>> \in R
      PROVE  rank(a) < rank(b)
  <2>1. ahead(a) \in SUBSET ahead(b) /\ a \in ahead(b) /\ a \notin ahead(a)
    BY <1>2
  <2>2. rank(a) <= rank(b) /\ rank(a) # rank(b)
    BY <1>1, <2>1, FS_Subset
  <2>3. rank(a) \in Nat /\ rank(b) \in Nat
    BY <1>1
  <2> HIDE DEF rank
  <2> QED
    BY <2>2, <2>3
<1>3. first = {c \in S : rank(c) < n}
  BY DEF Ahead
<1> HIDE DEF rank
<1>4. IsFiniteSet(first) /\ Cardinality(first) <= n
  <2> DEFINE place == [c \in first |-> rank(c)]
  <2>1. \A c \in first : place[c] \in 0..(n - 1)
    <3> SUFFICES ASSUME NEW c \in first PROVE rank(c) \in 0..(n - 1)
      OBVIOUS
    <3>1. c \in S /\ rank(c) < n
      BY <1>3
    <3>2. rank(c) \in Nat
      BY <1>1, <3>1
    <3> QED
      BY <3>1, <3>2
  <2>2. \A a, b \in first : a # b => place[a] # place[b]
    <3> SUFFICES ASSUME NEW a \in first, NEW b \in first, a # b PROVE rank(a) # rank(b)
      OBVIOUS
    <3>1. a \in S /\ b \in S
      BY <1>3
    <3>2. rank(a) \in Nat /\ rank(b) \in Nat
      BY <1>1, <3>1
    <3>3. rank(a) < rank(b) \/ rank(b) < rank(a)
      BY <1>2, <3>1
    <3> QED
      BY <3>2, <3>3
  <2>3. place \in Injection(first, 0..(n - 1))
    BY <2>1, <2>2 DEF Injection, IsInjective
  <2>4. IsFiniteSet(0..(n - 1)) /\ Cardinality(0..(n - 1)) = n
    BY FS_Interval
  <2> QED
    BY <2>3, <2>4, FS_Injection
<1>5. Cardinality(first) \in Nat
  BY <1>4, FS_CardinalityType
<1>6. ASSUME NEW a \in S, NEW b \in first, <<a, b>> \in R PROVE a \in first
  <2>1. b \in S /\ rank(b) < n
    BY <1>3
  <2>2. rank(a) \in Nat /\ rank(b) \in Nat /\ rank(a) < rank(b)
    BY <1>1, <1>2, <1>6, <2>1
  <2>3. rank(a) < n
    BY <2>1, <2>2
  <2> QED
    BY <1>3, <2>3
<1>7. ASSUME first # S PROVE n < Cardinality(S)
  <2>1. PICK c \in S : ~(rank(c) < n)
    BY <1>3, <1>7
  <2>2. rank(c) \in Nat /\ rank(c) < Cardinality(S) /\ Cardinality(S) \in Nat
    BY <1>1, FS_CardinalityType
  <2> QED
    BY <2>1, <2>2
<1> QED
  BY <1>4, <1>5, <1>6, <1>7

----------------------------------------------------------------------------
(* Drawing a paper *)

Total(f) == SumFunction(f)

\* The stages of a capped paper up to the draw.
Capped == {"reserve", "all", "apportion", "share", "draw"}

\* There is a seat for every pinned question.
Fits == Total(Pins) <= Seats

\* The pinned questions are there and more of the spoken set up to its cap, as far as there
\* are seats; or the pinned ones leave no seat.
Reserved ==
  /\ pins \in [Comps -> Nat] /\ orals \in [Comps -> Nat]
  /\ Fits => /\ pins = Pins
             /\ Total(orals) = Lesser(MoreSpoken(Total(Leads)), Seats - Total(Pins))
  /\ ~Fits => Seats <= Total(pins) /\ Total(orals) = 0

\* The seats that no reservation takes.
Unreserved == IF Fits THEN Seats - Total(Pins) - Total(orals) ELSE 0

\* The seats the quotas and the seats left over have to fill: fewer than there are questions.
Sharing ==
  /\ Reserved /\ left \in Nat /\ quota \in [Comps -> Nat]
  /\ \A c \in Comps : quota[c] <= Plain[c]
  /\ Total(quota) + left = Unreserved
  /\ Total(quota) + left < Total(Plain)

Heavier == \A a, b \in Comps : weight[a] > weight[b] /\ quota[a] < Plain[a] => quota[a] >= quota[b]

\* Everybody has a seat, or there were never enough.
Seated == (\A c \in Served : quota[c] > 0) \/ Total(quota) + left < Cardinality(Served)

Filled ==
  /\ Fits => Size <= Seats
  /\ Total(orals) > 0 => Total(Leads) + Total(orals) <= OralCap
  /\ Size < Seats => /\ quota = Plain /\ pins = Pins
                     /\ Total(Leads) + Total(orals) >= Lesser(OralCap, Total(Leads) + Total(Orals))

DrawInv ==
  /\ stage \in Capped => bank \in Banks /\ weight \in Weights /\ limit \in Limits
  /\ stage = "all" => /\ Reserved /\ left = Unreserved
                      /\ FullBank \/ left >= Total(Plain)
  /\ stage \in {"apportion", "share"} => Sharing
  /\ stage \in {"reserve", "apportion"} => quota = None
  /\ stage = "share" => Heavier /\ Seated
  /\ stage = "draw" => Filled /\ quota \in [Comps -> Nat] /\ orals \in [Comps -> Nat]
  /\ WeightsDecide
  /\ stage = "modules" => bank \in Supplies
  /\ stage \in {"arrange", "done"} => bank \in Supplies \/ Filled

LEMMA CompsFact == IsFiniteSet(Comps) /\ Comps \subseteq Nat /\ None \in [Comps -> Nat]
<1>1. IsFiniteSet(Comps) /\ Comps = 1..Cardinality(Comps)
  BY DrawingAssumption
<1>2. Cardinality(Comps) \in Nat
  BY <1>1, FS_CardinalityType
<1> QED
  BY <1>1, <1>2 DEF None

LEMMA Totals ==
  ASSUME NEW f \in [Comps -> Nat]
  PROVE  Total(f) \in Nat /\ Total(f) = SumFunctionOnSet(f, Comps)
<1>1. SumFunctionOnSet(f, Comps) \in Nat
  BY CompsFact, SumRemoves
<1> QED
  BY <1>1 DEF Total, SumFunction

LEMMA TotalsCompare ==
  ASSUME NEW f \in [Comps -> Nat], NEW g \in [Comps -> Nat], \A c \in Comps : f[c] <= g[c]
  PROVE  Total(f) <= Total(g) /\ (Total(f) = Total(g) => f = g)
<1>1. \A c \in Comps : f[c] \in Nat /\ g[c] \in Nat /\ f[c] <= g[c]
  OBVIOUS
<1>2. /\ SumFunctionOnSet(f, Comps) <= SumFunctionOnSet(g, Comps)
      /\ SumFunctionOnSet(f, Comps) = SumFunctionOnSet(g, Comps) => \A c \in Comps : f[c] = g[c]
  <2>1. IsFiniteSet(Comps)
    BY CompsFact
  <2> QED
    BY <1>1, <2>1, SumsCompare
<1> QED
  BY <1>2, Totals

LEMMA TotalsAdd ==
  ASSUME NEW f \in [Comps -> Nat], NEW g \in [Comps -> Nat], NEW h \in [Comps -> Nat],
         \A c \in Comps : h[c] = f[c] + g[c]
  PROVE  Total(h) = Total(f) + Total(g)
<1>1. \A c \in Comps : f[c] \in Nat /\ g[c] \in Nat /\ h[c] = f[c] + 1 * g[c]
  OBVIOUS
<1>2. SumFunctionOnSet(h, Comps) = SumFunctionOnSet(f, Comps) + 1 * SumFunctionOnSet(g, Comps)
  <2>1. IsFiniteSet(Comps) /\ 1 \in Nat
    BY CompsFact
  <2> QED
    BY <1>1, <2>1, SumsAdd
<1> QED
  BY <1>2, Totals

\* One each for the members of S.
LEMMA TotalOfOnes ==
  ASSUME NEW S \in SUBSET Comps, NEW f \in [Comps -> Nat], \A c \in Comps : f[c] = IF c \in S THEN 1 ELSE 0
  PROVE  Total(f) = Cardinality(S) /\ IsFiniteSet(S) /\ Cardinality(S) \in Nat
<1> DEFINE ones == [c \in Comps |-> 1]
<1>1. \A c \in Comps : ones[c] \in Nat /\ f[c] = IF c \in S THEN ones[c] ELSE 0
  OBVIOUS
<1>2. \A c \in S : ones[c] = 1
  OBVIOUS
<1> HIDE DEF ones
<1>3. SumFunctionOnSet(f, Comps) = Cardinality(S)
  <2>1. IsFiniteSet(Comps)
    BY CompsFact
  <2> QED
    BY <1>1, <1>2, <2>1, SumsWithin
<1> QED
  BY <1>3, Totals, CompsFact, FS_Subset, FS_CardinalityType

\* What the bank and the cap fix.
LEMMA BankFacts ==
  ASSUME bank \in Banks, limit \in Limits, weight \in Weights
  PROVE  /\ Pins \in [Comps -> Nat] /\ Leads \in [Comps -> Nat]
         /\ Orals \in [Comps -> Nat] /\ Plain \in [Comps -> Nat]
         /\ Total(Pins) \in Nat /\ Total(Leads) \in Nat /\ Total(Orals) \in Nat /\ Total(Plain) \in Nat
         /\ Pool = Total(Pins) + Total(Orals) + Total(Plain) /\ Seats \in Nat
         /\ Total(Leads) <= Total(Pins)
         /\ weight \in [Comps -> Nat] /\ OralCap \in Nat
         /\ Served \in SUBSET Comps /\ IsFiniteSet(Served) /\ Cardinality(Served) \in Nat
<1>1. /\ bank \in [Comps -> [pin : Nat, lead : Nat, oral : Nat, choice : Nat, open : Nat]] /\ limit \in Nat
      /\ weight \in [Comps -> Nat] /\ OralCap \in Nat
  BY DrawingAssumption
<1>2. /\ Pins \in [Comps -> Nat] /\ Leads \in [Comps -> Nat]
      /\ Orals \in [Comps -> Nat] /\ Plain \in [Comps -> Nat]
  BY <1>1 DEF Pins, Leads, Orals, Plain
<1>3. Total(Pins) \in Nat /\ Total(Leads) \in Nat /\ Total(Orals) \in Nat /\ Total(Plain) \in Nat
  BY <1>2, Totals
<1>4. Pool = Total(Pins) + Total(Orals) + Total(Plain)
  BY DEF Pool, Total
<1>5. Seats \in Nat
  BY <1>1, <1>3, <1>4 DEF Seats
<1>6. Served \in SUBSET Comps
  BY DEF Served
<1>7. IsFiniteSet(Served) /\ Cardinality(Served) \in Nat
  BY <1>6, CompsFact, FS_Subset, FS_CardinalityType
<1>8. Total(Leads) <= Total(Pins)
  <2>1. \A c \in Comps : Leads[c] <= Pins[c]
    BY <1>1 DEF Leads, Pins
  <2> QED
    BY <1>2, <2>1, TotalsCompare
<1> QED
  BY <1>1, <1>2, <1>3, <1>4, <1>5, <1>6, <1>7, <1>8

LEMMA SameBank ==
  ASSUME UNCHANGED <<bank, weight, limit>>
  PROVE  /\ Pins' = Pins /\ Leads' = Leads /\ Orals' = Orals /\ Plain' = Plain /\ Pool' = Pool
         /\ Seats' = Seats /\ FullBank' = FullBank /\ Served' = Served /\ Fits' = Fits
         /\ MostSpoken' = MostSpoken
  BY DEF Pins, Leads, Orals, Plain, Pool, Seats, FullBank, Served, Fits, MostSpoken, Total

LEMMA SameReserve ==
  ASSUME UNCHANGED <<bank, weight, limit, pins, orals>>
  PROVE  Reserved' = Reserved /\ Unreserved' = Unreserved
  BY SameBank DEF Reserved, Unreserved, MoreSpoken

LEMMA LesserFact ==
  ASSUME NEW a \in Int, NEW b \in Int
  PROVE  Lesser(a, b) \in Int /\ Lesser(a, b) <= a /\ Lesser(a, b) <= b /\ (Lesser(a, b) = a \/ Lesser(a, b) = b)
  BY DEF Lesser

----------------------------------------------------------------------------
(* Seats *)

LEMMA PartsAre ==
  ASSUME NEW most \in [Comps -> Nat], NEW f \in Parts(most)
  PROVE  f \in [Comps -> Nat] /\ \A c \in Comps : f[c] <= most[c]
<1>1. {n \in 0..SumFunction(most) : \E c \in Comps : n <= most[c]} \subseteq Nat
  BY Totals DEF Total
<1> QED
  BY <1>1 DEF Parts

\* What more of the spoken set may come, in numbers: m of it at most, l pinned, t in all.
LEMMA SpokenNumbers ==
  ASSUME NEW cap \in Nat, NEW n \in Nat, NEW l \in Nat, NEW t \in Nat,
         MostSpoken = Lesser(Lesser(cap, n), l + t)
  PROVE  /\ MostSpoken \in Nat /\ MostSpoken <= cap /\ MostSpoken <= n /\ MostSpoken <= l + t
         /\ MostSpoken = cap \/ MostSpoken = n \/ MostSpoken = l + t
         /\ \A k \in Nat : MoreSpoken(k) \in Nat /\ MoreSpoken(k) = IF k < MostSpoken THEN MostSpoken - k ELSE 0
<1>1. PICK m \in Nat : m = MostSpoken /\ m <= cap /\ m <= n /\ m <= l + t /\ (m = cap \/ m = n \/ m = l + t)
  <2>1. Lesser(Lesser(cap, n), l + t) \in Nat
    BY DEF Lesser
  <2>2. /\ Lesser(Lesser(cap, n), l + t) <= cap /\ Lesser(Lesser(cap, n), l + t) <= n
        /\ Lesser(Lesser(cap, n), l + t) <= l + t
        /\ \/ Lesser(Lesser(cap, n), l + t) = cap \/ Lesser(Lesser(cap, n), l + t) = n
           \/ Lesser(Lesser(cap, n), l + t) = l + t
    BY DEF Lesser
  <2> QED
    BY <2>1, <2>2
<1>2. ASSUME NEW k \in Nat PROVE MoreSpoken(k) \in Nat /\ MoreSpoken(k) = IF k < m THEN m - k ELSE 0
  BY <1>1 DEF MoreSpoken, Lesser
<1> QED
  BY <1>1, <1>2

\* The seats after the reservation.
LEMMA PinsFirst ==
  ASSUME bank \in Banks, limit \in Limits, weight \in Weights, Reserve
  PROVE  /\ pins' \in [Comps -> Nat] /\ orals' \in [Comps -> Nat] /\ left' \in Nat
         /\ Fits => /\ pins' = Pins /\ left' = Seats - Total(Pins) - Total(orals')
                    /\ Total(orals') = Lesser(MoreSpoken(Total(Leads)), Seats - Total(Pins))
         /\ ~Fits => Seats <= Total(pins') /\ Total(orals') = 0 /\ left' = 0
<1>1. PICK n, P, L, T \in Nat : n = Seats /\ P = Total(Pins) /\ L = Total(Leads) /\ T = Total(Orals)
  BY BankFacts
<1>2. PICK first \in Nat : first = Lesser(n, P)
  BY DEF Lesser
<1> DEFINE more(k) == MoreSpoken(Total(k))
           room(late) == n - Lesser(n, first + Total(late))
<1>3. PICK f \in Reservations(Pins, first), k \in Parts(Leads), late \in Parts(Leads) :
        /\ \A c \in Comps : k[c] <= f[c] /\ f[c] - k[c] <= bank[c].pin /\ k[c] + late[c] <= bank[c].lead
        /\ Total(late) <= more(k)
        /\ pins' = [c \in Comps |-> f[c] + late[c]]
        /\ orals' \in Reservations(Orals, Lesser(more(k) - Total(late), room(late)))
        /\ left' = room(late) - Total(orals')
  BY <1>1, <1>2 DEF Reserve, Total
<1>4. /\ f \in [Comps -> Nat] /\ k \in [Comps -> Nat] /\ late \in [Comps -> Nat] /\ Total(f) = first
      /\ Pins \in [Comps -> Nat] /\ Leads \in [Comps -> Nat]
      /\ \A c \in Comps : f[c] <= Pins[c] /\ k[c] <= Leads[c] /\ late[c] <= Leads[c]
  <2>1. f \in Parts(Pins) /\ Total(f) = first /\ Pins \in [Comps -> Nat] /\ Leads \in [Comps -> Nat]
    BY BankFacts DEF Reservations, Total
  <2> QED
    BY <2>1, PartsAre
<1>5. orals' \in [Comps -> Nat] /\ Total(orals') = Lesser(more(k) - Total(late), room(late))
  <2>1. orals' \in Parts(Orals) /\ Orals \in [Comps -> Nat]
    BY <1>3, BankFacts DEF Reservations
  <2> QED
    BY <1>3, <2>1, PartsAre DEF Reservations, Total
<1>6. PICK o, e, q \in Nat : o = Total(orals') /\ e = Total(late) /\ q = Total(k)
  BY <1>4, <1>5, Totals
<1>7. /\ pins' \in [Comps -> Nat] /\ Total(pins') = first + e
  <2>1. pins' \in [Comps -> Nat] /\ \A c \in Comps : pins'[c] = f[c] + late[c]
    BY <1>3, <1>4
  <2> QED
    BY <1>4, <1>6, <2>1, TotalsAdd
<1>8. more(k) \in Nat
  <2>1. OralCap \in Nat /\ MostSpoken = Lesser(Lesser(OralCap, n), L + T)
    BY <1>1, BankFacts DEF MostSpoken, Total
  <2> QED
    BY <1>1, <1>3, <1>6, <2>1, SpokenNumbers
<1>9. CASE ~Fits
  <2>1. n < P /\ first = n
    BY <1>1, <1>2, <1>9 DEF Fits, Lesser
  <2>2. room(late) = 0
    BY <1>3, <1>6, <2>1 DEF Lesser
  <2>3. o = 0
    BY <1>3, <1>5, <1>6, <1>8, <2>2 DEF Lesser
  <2> QED
    BY <1>1, <1>3, <1>5, <1>6, <1>7, <1>9, <2>1, <2>2, <2>3
<1>10. CASE Fits
  <2>1. P <= n /\ first = P
    BY <1>1, <1>2, <1>10 DEF Fits, Lesser
  <2>2. f = Pins
    BY <1>1, <1>4, <2>1, TotalsCompare
  <2>3. \A c \in Comps : k[c] = Leads[c] /\ late[c] = 0
    <3> SUFFICES ASSUME NEW c \in Comps PROVE k[c] = Leads[c] /\ late[c] = 0
      OBVIOUS
    <3>1. PICK a, b \in Nat : a = bank[c].pin /\ b = bank[c].lead
      BY DrawingAssumption
    <3>2. f[c] = a + b /\ Leads[c] = b
      BY <2>2, <3>1 DEF Pins, Leads
    <3>3. k[c] \in Nat /\ late[c] \in Nat /\ (a + b) - k[c] <= a /\ k[c] + late[c] <= b
      BY <1>3, <1>4, <3>1, <3>2
    <3> QED
      BY <3>2, <3>3
  <2>4. k = Leads /\ late = None
    BY <1>4, <2>3 DEF None
  <2>5. e = 0
    <3>1. Total(None) = Cardinality({})
      BY CompsFact, TotalOfOnes DEF None
    <3> QED
      BY <1>6, <2>4, <3>1, FS_EmptySet
  <2>6. pins' = Pins
    <3>1. \A c \in Comps : pins'[c] = Pins[c]
      BY <1>3, <1>4, <2>2, <2>3
    <3> QED
      BY <1>4, <1>7, <3>1
  <2>7. room(late) = n - P /\ more(k) = MoreSpoken(L)
    BY <1>1, <1>3, <1>6, <2>1, <2>4, <2>5 DEF Lesser
  <2>8. o = Lesser(more(k), n - P) /\ o <= n - P
    BY <1>5, <1>6, <1>8, <2>1, <2>5, <2>7 DEF Lesser
  <2>9. left' = n - P - o
    BY <1>3, <1>6, <2>1, <2>7
  <2> QED
    BY <1>1, <1>5, <1>6, <1>7, <1>10, <2>1, <2>6, <2>7, <2>8, <2>9
<1> QED
  BY <1>9, <1>10

LEMMA ReserveKeeps == DrawInv /\ Reserve => DrawInv'
<1> SUFFICES ASSUME DrawInv, Reserve PROVE DrawInv'
  OBVIOUS
<1>1. /\ bank \in Banks /\ weight \in Weights /\ limit \in Limits /\ stage = "reserve"
      /\ UNCHANGED <<bank, weight, limit, quota>>
  BY DEF Reserve, DrawInv, Capped
<1>2. /\ pins' \in [Comps -> Nat] /\ orals' \in [Comps -> Nat] /\ left' \in Nat
      /\ Fits => /\ pins' = Pins /\ left' = Seats - Total(Pins) - Total(orals')
                 /\ Total(orals') = Lesser(MoreSpoken(Total(Leads)), Seats - Total(Pins))
      /\ ~Fits => Seats <= Total(pins') /\ Total(orals') = 0 /\ left' = 0
  BY <1>1, PinsFirst
<1>3. /\ Pins' = Pins /\ Leads' = Leads /\ Plain' = Plain /\ Seats' = Seats /\ FullBank' = FullBank
      /\ Fits' = Fits /\ MostSpoken' = MostSpoken
  BY <1>1, SameBank
<1>4. Reserved' /\ left' = Unreserved'
  BY <1>2, <1>3 DEF Reserved, Unreserved, MoreSpoken, Total
<1>5. stage' \in {"all", "apportion"} /\ (stage' = "all" <=> FullBank \/ left' >= Total(Plain))
  BY DEF Reserve, Total
<1>6. CASE stage' = "all"
  <2>1. FullBank' \/ left' >= Total(Plain)'
    BY <1>3, <1>5, <1>6 DEF Total
  <2> QED
    BY <1>1, <1>4, <1>6, <2>1 DEF DrawInv, Capped, WeightsDecide
<1>7. CASE stage' = "apportion"
  <2>1. quota' = None /\ Total(None) = 0
    <3>1. Total(None) = Cardinality({})
      BY CompsFact, TotalOfOnes DEF None
    <3> QED
      BY <1>1, <3>1, FS_EmptySet DEF DrawInv
  <2>2. \A c \in Comps : quota'[c] <= Plain[c]
    BY <1>1, <2>1, BankFacts DEF None
  <2>3. Total(quota') + left' = left' /\ left' < Total(Plain)
    <3>1. PICK l, all \in Nat : l = left' /\ all = Total(Plain)
      BY <1>1, <1>2, BankFacts
    <3>2. ~(l >= all)
      BY <1>5, <1>7, <3>1
    <3>3. Total(quota') = 0
      BY <2>1
    <3>4. 0 + l = l /\ l < all
      BY <3>2
    <3> QED
      BY <3>1, <3>3, <3>4
  <2>4. Sharing'
    BY <1>2, <1>3, <1>4, <2>1, <2>2, <2>3, CompsFact DEF Sharing, Total
  <2> QED
    BY <1>1, <1>7, <2>1, <2>4 DEF DrawInv, Capped, WeightsDecide
<1> QED
  BY <1>5, <1>6, <1>7

\* The seats of a capped paper in numbers, and what the reservation promises of them.
LEMMA SeatNumbers ==
  ASSUME bank \in Banks, limit \in Limits, weight \in Weights, Reserved,
         NEW n \in Nat, NEW P \in Nat, NEW L \in Nat, NEW T \in Nat, NEW o \in Nat, NEW cap \in Nat,
         n = Seats, P = Total(Pins), L = Total(Leads), T = Total(Orals), o = Total(orals), cap = OralCap
  PROVE  /\ o > 0 => L + o <= cap
         /\ Fits => P <= n /\ o <= n - P /\ o <= T
         /\ Fits /\ P + o < n => L + o >= Lesser(cap, L + T)
         /\ ~Fits => n < P
<1>1. /\ MostSpoken \in Nat /\ MostSpoken <= cap /\ MostSpoken <= n /\ MostSpoken <= L + T
      /\ MostSpoken = cap \/ MostSpoken = n \/ MostSpoken = L + T
      /\ \A k \in Nat : MoreSpoken(k) \in Nat /\ MoreSpoken(k) = IF k < MostSpoken THEN MostSpoken - k ELSE 0
  <2>1. MostSpoken = Lesser(Lesser(cap, n), L + T)
    BY DEF MostSpoken, Total
  <2> QED
    BY ONLY <2>1, SpokenNumbers
<1>2. PICK m \in Nat : m = MostSpoken
  BY <1>1
<1>3. PICK more \in Nat : more = MoreSpoken(L) /\ more = IF L < m THEN m - L ELSE 0
  BY <1>1, <1>2
<1>4. L <= P
  BY BankFacts
<1>5. Fits => P <= n /\ o = Lesser(more, n - P)
  BY <1>3 DEF Fits, Reserved
<1>6. ~Fits => o = 0 /\ n < P
  BY DEF Fits, Reserved
<1>7. CASE Fits
  <2>1. P <= n /\ (o = more \/ o = n - P) /\ o <= more /\ o <= n - P
    BY <1>5, <1>7 DEF Lesser
  <2>2. Lesser(cap, L + T) <= cap /\ Lesser(cap, L + T) <= L + T /\ Lesser(cap, L + T) \in Nat
    BY DEF Lesser
  <2> QED
    BY <1>1, <1>2, <1>3, <1>4, <1>7, <2>1, <2>2
<1> QED
  BY <1>6, <1>7

\* What is reserved beyond a paper that takes every plain question is what the caps keep out.
LEMMA TakeAllKeeps == DrawInv /\ TakeAll => DrawInv'
<1> SUFFICES ASSUME DrawInv, TakeAll PROVE DrawInv'
  OBVIOUS
<1>1. /\ bank \in Banks /\ weight \in Weights /\ limit \in Limits /\ stage' = "draw"
      /\ Reserved /\ left = Unreserved /\ (FullBank \/ left >= Total(Plain))
      /\ UNCHANGED <<bank, weight, limit, pins, orals>> /\ quota' = Plain
  BY DEF TakeAll, DrawInv, Capped
<1>2. PICK P, L, T, Q, n, cap, p, o \in Nat :
        /\ P = Total(Pins) /\ L = Total(Leads) /\ T = Total(Orals) /\ Q = Total(Plain) /\ n = Seats /\ cap = OralCap
        /\ p = Total(pins) /\ o = Total(orals)
  BY <1>1, BankFacts, Totals DEF Reserved
<1>3. /\ o > 0 => L + o <= cap
      /\ Fits => P <= n /\ o <= n - P /\ o <= T
      /\ Fits /\ P + o < n => L + o >= Lesser(cap, L + T)
      /\ ~Fits => n < P
  BY <1>1, <1>2, SeatNumbers
<1>4. FullBank => n = P + T + Q
  BY <1>1, <1>2, BankFacts DEF Seats
<1>5. /\ Fits => p = P /\ pins = Pins /\ left = n - P - o
      /\ ~Fits => n <= p
  BY <1>1, <1>2 DEF Reserved, Unreserved
<1>6. Fits => p + o + Q <= n
  BY <1>1, <1>2, <1>3, <1>4, <1>5
<1>7. Size' = p + o + Q
  BY <1>1, <1>2 DEF Size, Total
<1>8. p + o + Q < n => pins = Pins /\ L + o >= Lesser(cap, L + T)
  BY <1>3, <1>5
<1>9. Filled'
  <2>1. /\ Total(orals)' = o /\ Total(Leads)' = L /\ Total(Orals)' = T /\ Seats' = n /\ Fits' = Fits
        /\ Pins' = Pins /\ Plain' = Plain
    BY <1>1, <1>2, SameBank DEF Total
  <2> QED
    BY <1>1, <1>2, <1>3, <1>6, <1>7, <1>8, <2>1 DEF Filled, Lesser
<1>11. WeightsDecide'
  <2>1. \A c \in Served : Plain[c] > 0
    BY DEF Served
  <2>2. \A c \in Comps : Plain[c] \in Nat
    BY <1>1, BankFacts
  <2> QED
    BY <1>1, <2>1, <2>2, SameBank DEF WeightsDecide
<1>12. quota' \in [Comps -> Nat] /\ orals' \in [Comps -> Nat]
  BY <1>1, BankFacts DEF Reserved
<1> QED
  BY <1>1, <1>9, <1>11, <1>12 DEF DrawInv, Capped

\* The orders of the draw are strict and total.
LEMMA BeforeIsOrder ==
  ASSUME weight \in [Comps -> Nat], Plain \in [Comps -> Nat]
  PROVE  /\ \A a \in Comps : ~Before(a, a)
         /\ \A a, b \in Comps : a # b => Before(a, b) \/ Before(b, a)
         /\ \A a, b, c \in Comps : Before(a, b) /\ Before(b, c) => Before(a, c)
<1>1. Comps \subseteq Nat
  BY CompsFact
<1>2. \A a \in Comps : weight[a] \in Nat /\ Plain[a] \in Nat /\ a \in Nat
  BY <1>1
<1> QED
  BY <1>2 DEF Before

LEMMA SeatEachKeeps == DrawInv /\ SeatEach => DrawInv'
<1> SUFFICES ASSUME DrawInv, SeatEach PROVE DrawInv'
  OBVIOUS
<1> DEFINE R == {p \in Comps \X Comps : Before(p[1], p[2])}
<1>1. /\ bank \in Banks /\ weight \in Weights /\ limit \in Limits /\ stage' = "share"
      /\ Sharing /\ quota = None /\ UNCHANGED <<bank, weight, limit, pins, orals>>
  BY DEF SeatEach, DrawInv, Capped
<1>2. PICK first : /\ first = {c \in Served : Cardinality({d \in Served : Before(d, c)}) < left}
                   /\ quota' = [c \in Comps |-> IF c \in first THEN 1 ELSE 0]
                   /\ left' = left - Cardinality(first)
  BY DEF SeatEach
<1>3. /\ \A c \in Comps : weight[c] \in Nat /\ Plain[c] \in Nat
      /\ Served \in SUBSET Comps /\ IsFiniteSet(Served) /\ Cardinality(Served) \in Nat
      /\ \A c \in Comps : c \in Served <=> Plain[c] > 0
  BY <1>1, BankFacts DEF Served
<1>4. /\ \A a, b \in Comps : <<a, b>> \in R <=> Before(a, b)
  OBVIOUS
<1>5. first \in SUBSET Served /\ \A c \in Served : c \in first <=> Cardinality(Ahead(R, Served, c)) < left
  <2>1. \A c \in Served : {d \in Served : Before(d, c)} = Ahead(R, Served, c)
    BY <1>3 DEF Ahead
  <2> QED
    BY <1>2, <2>1
<1>6. /\ \A x \in Served : <<x, x>> \notin R
      /\ \A x, y \in Served : x # y => <<x, y>> \in R \/ <<y, x>> \in R
      /\ \A x, y, z \in Served : <<x, y>> \in R /\ <<y, z>> \in R => <<x, z>> \in R
  BY <1>1, <1>3, <1>4, BeforeIsOrder, BankFacts
<1> HIDE DEF R
<1>7. left \in Nat
  BY <1>1 DEF Sharing
<1>8. /\ IsFiniteSet(first) /\ Cardinality(first) \in Nat /\ Cardinality(first) <= left
      /\ \A a \in Served, b \in first : <<a, b>> \in R => a \in first
      /\ first # Served => left < Cardinality(Served)
  <2>1. IsFiniteSet(Served)
    BY <1>3
  <2> QED
    BY <1>5, <1>6, <1>7, <2>1, Ranks
<1>9. first \in SUBSET Served /\ first \in SUBSET Comps
  BY <1>2, <1>3
<1>10. quota' \in [Comps -> Nat] /\ Total(quota') = Cardinality(first)
  BY <1>2, <1>9, TotalOfOnes
<1>11. Total(quota) = 0
  <2>1. Total(None) = Cardinality({})
    BY CompsFact, TotalOfOnes DEF None
  <2> QED
    BY <1>1, <2>1, FS_EmptySet
<1>12. \A c \in Comps : quota'[c] <= Plain[c]
  BY <1>2, <1>3, <1>9
<1>13. /\ Total(quota') + left' = Total(quota) + left /\ left' \in Nat
  BY <1>2, <1>7, <1>8, <1>10, <1>11
<1>14. Reserved' /\ Unreserved' = Unreserved
  BY <1>1, SameReserve DEF Sharing
<1>15. Sharing'
  <2>1. Total(quota') + left' = Unreserved' /\ Total(quota') + left' < Total(Plain)
    BY <1>1, <1>13, <1>14 DEF Sharing
  <2> QED
    BY <1>1, <1>10, <1>12, <1>13, <1>14, <2>1, SameBank DEF Sharing, Total
<1>16. Heavier'
  <2> SUFFICES ASSUME NEW a \in Comps, NEW b \in Comps, weight[a] > weight[b], quota'[a] < Plain[a]
               PROVE  quota'[a] >= quota'[b]
    BY <1>1, SameBank DEF Heavier
  <2>1. CASE b \in first
    <3>1. a \in Served
      BY <1>2, <1>3
    <3>2. <<a, b>> \in R
      BY <1>4 DEF Before
    <3> QED
      BY <1>2, <1>8, <2>1, <3>1, <3>2
  <2>2. CASE b \notin first
    BY <1>2, <2>2
  <2> QED
    BY <2>1, <2>2
<1>17. Seated'
  <2>1. CASE first = Served
    BY <1>1, <1>2, <1>3, <2>1, SameBank DEF Seated
  <2>2. CASE first # Served
    BY <1>1, <1>7, <1>8, <1>11, <1>13, <2>2, SameBank DEF Seated
  <2> QED
    BY <2>1, <2>2
<1> QED
  BY <1>1, <1>15, <1>16, <1>17 DEF DrawInv, Capped, WeightsDecide

LEMMA TotalsScale ==
  ASSUME NEW k \in Nat, NEW f \in [Comps -> Nat], NEW h \in [Comps -> Nat], \A c \in Comps : h[c] = k * f[c]
  PROVE  Total(h) = k * Total(f)
<1> DEFINE zero == [c \in Comps |-> 0]
<1>1. Total(zero) = 0 /\ zero \in [Comps -> Nat]
  <2>1. Total(zero) = Cardinality({})
    BY TotalOfOnes
  <2> QED
    BY <2>1, FS_EmptySet
<1>2. IsFiniteSet(Comps)
  BY CompsFact
<1>3. \A c \in Comps : zero[c] \in Nat /\ f[c] \in Nat /\ h[c] = zero[c] + k * f[c]
  <2> SUFFICES ASSUME NEW c \in Comps PROVE f[c] \in Nat /\ h[c] = 0 + k * f[c]
    OBVIOUS
  <2>1. f[c] \in Nat /\ k * f[c] \in Nat
    OBVIOUS
  <2> QED
    BY <2>1
<1> HIDE DEF zero
<1>4. SumFunctionOnSet(h, Comps) = SumFunctionOnSet(zero, Comps) + k * SumFunctionOnSet(f, Comps)
  BY <1>2, <1>3, SumsAdd
<1>5. k * Total(f) \in Nat
  BY Totals
<1> QED
  BY <1>1, <1>4, <1>5, Totals

\* Who has room, and the shares of a pass: whole numbers over one denominator.
LEMMA ShareFacts ==
  ASSUME bank \in Banks, limit \in Limits, weight \in Weights, Sharing, ~Settled
  PROVE  /\ Roomy(quota) \in SUBSET Comps /\ \A c \in Comps : c \in Roomy(quota) <=> quota[c] < Plain[c]
         /\ Denominator \in Nat \ {0}
         /\ \E u \in [Comps -> Nat] :
              /\ \A c \in Comps : Numerator(c) = left * u[c]
              /\ Denominator = SumFunctionOnSet(u, Roomy(quota))
              /\ \A a, b \in Comps : weight[a] > weight[b] => u[a] >= u[b]
<1>1. /\ \A c \in Comps : quota[c] \in Nat /\ Plain[c] \in Nat /\ weight[c] \in Nat
      /\ weight \in [Comps -> Nat] /\ left \in Nat
  BY BankFacts DEF Sharing
<1>2. PICK Room : Room = Roomy(quota)
  OBVIOUS
<1>3. Room \in SUBSET Comps /\ \A c \in Comps : c \in Room <=> quota[c] < Plain[c]
  BY <1>1, <1>2 DEF Roomy, Served
<1>4. IsFiniteSet(Room) /\ Room # {} /\ Cardinality(Room) \in Nat \ {0}
  BY <1>2, <1>3, CompsFact, FS_Subset, FS_CardinalityType, FS_EmptySet DEF Settled
<1>5. TotalWeight = SumFunctionOnSet(weight, Room) /\ TotalWeight \in Nat
  <2>1. \A c \in Room : weight[c] \in Nat
    BY <1>1, <1>3
  <2>2. SumFunctionOnSet(weight, Room) \in Nat
    BY <1>4, <2>1, SumRemoves
  <2> QED
    BY <1>2, <2>2 DEF TotalWeight
<1>6. CASE TotalWeight > 0
  <2>1. \A c \in Comps : Numerator(c) = left * weight[c]
    BY <1>6 DEF Numerator
  <2>2. Denominator = SumFunctionOnSet(weight, Room) /\ Denominator \in Nat \ {0}
    BY <1>5, <1>6 DEF Denominator
  <2>3. \A a, b \in Comps : weight[a] > weight[b] => weight[a] >= weight[b]
    BY <1>1
  <2> QED
    BY <1>1, <1>2, <1>3, <2>1, <2>2, <2>3
<1>7. CASE ~(TotalWeight > 0)
  <2> DEFINE u == [c \in Comps |-> 1]
  <2>1. TotalWeight = 0
    BY <1>5, <1>7
  <2>2. \A c \in Comps : Numerator(c) = left * u[c]
    BY <1>7 DEF Numerator
  <2>3. Denominator = Cardinality(Room)
    BY <1>2, <1>7 DEF Denominator
  <2>4. SumFunctionOnSet(u, Room) = Cardinality(Room)
    <3> DEFINE g == [c \in Comps |-> IF c \in Room THEN 1 ELSE 0]
    <3>1. \A c \in Comps : u[c] \in Nat /\ g[c] = IF c \in Room THEN u[c] ELSE 0
      OBVIOUS
    <3>2. \A c \in Room : u[c] = 1
      BY <1>3
    <3>3. IsFiniteSet(Comps)
      BY CompsFact
    <3> HIDE DEF u, g
    <3> QED
      BY <1>3, <3>1, <3>2, <3>3, SumsWithin
  <2>5. u \in [Comps -> Nat] /\ \A a, b \in Comps : u[a] >= u[b]
    OBVIOUS
  <2> HIDE DEF u
  <2> QED
    BY <1>2, <1>3, <1>4, <2>2, <2>3, <2>4, <2>5
<1> QED
  BY <1>6, <1>7

LEMMA RestIsOrder ==
  ASSUME bank \in Banks, limit \in Limits, weight \in Weights, Sharing, ~Settled
  PROVE  /\ \A a \in Comps : ~LargerRest(a, a)
         /\ \A a, b \in Comps : a # b => LargerRest(a, b) \/ LargerRest(b, a)
         /\ \A a, b, c \in Comps : LargerRest(a, b) /\ LargerRest(b, c) => LargerRest(a, c)
<1> DEFINE rest(c) == Numerator(c) % Denominator
<1>1. \A c \in Comps : rest(c) \in Nat
  <2> SUFFICES ASSUME NEW c \in Comps PROVE rest(c) \in Nat
    OBVIOUS
  <2>1. PICK u \in [Comps -> Nat] : Numerator(c) = left * u[c]
    BY ShareFacts
  <2>2. left \in Nat /\ u[c] \in Nat /\ Denominator \in Nat \ {0}
    BY ShareFacts DEF Sharing
  <2>3. Numerator(c) \in Nat
    BY <2>1, <2>2, Products
  <2> QED
    BY <2>2, <2>3, Quotients
<1>2. \A a, b \in Comps : LargerRest(a, b) <=> rest(a) > rest(b) \/ (rest(a) = rest(b) /\ Before(a, b))
  BY DEF LargerRest
<1>3. weight \in [Comps -> Nat] /\ Plain \in [Comps -> Nat]
  BY BankFacts
<1> HIDE DEF rest
<1> QED
  BY <1>1, <1>2, <1>3, BeforeIsOrder

\* The whole seats of a pass are not more than there are.
LEMMA WholeSeatsFit ==
  ASSUME bank \in Banks, limit \in Limits, weight \in Weights, Sharing, ~Settled,
         NEW fl \in [Comps -> Nat],
         \A c \in Comps : fl[c] = IF c \in Roomy(quota)
                                  THEN Lesser(Numerator(c) \div Denominator, Plain[c] - quota[c]) ELSE 0
  PROVE  Total(fl) <= left
<1>1. PICK u \in [Comps -> Nat], d \in Nat \ {0}, Room \in SUBSET Comps :
        /\ \A c \in Comps : Numerator(c) = left * u[c]
        /\ d = Denominator /\ Room = Roomy(quota) /\ d = SumFunctionOnSet(u, Room)
  BY ShareFacts
<1>2. left \in Nat /\ Total(fl) \in Nat
  BY Totals DEF Sharing
<1> DEFINE ur == [c \in Comps |-> IF c \in Room THEN u[c] ELSE 0]
           A == [c \in Comps |-> d * fl[c]]
           B == [c \in Comps |-> left * ur[c]]
<1>3. ur \in [Comps -> Nat] /\ Total(ur) = d
  <2>1. ur \in [Comps -> Nat]
    OBVIOUS
  <2>2. \A c \in Comps : u[c] \in Nat /\ ur[c] = IF c \in Room THEN u[c] ELSE 0
    OBVIOUS
  <2>3. IsFiniteSet(Comps)
    BY CompsFact
  <2>5. Room \in SUBSET Comps
    BY <1>1
  <2> HIDE DEF ur
  <2>4. SumFunctionOnSet(ur, Comps) = SumFunctionOnSet(u, Room)
    BY ONLY <2>2, <2>3, <2>5, SumsWithin
  <2> QED
    BY <1>1, <2>1, <2>4, Totals
<1>4. A \in [Comps -> Nat] /\ Total(A) = d * Total(fl)
  <2>1. \A c \in Comps : d * fl[c] \in Nat
    BY Products
  <2>2. A \in [Comps -> Nat] /\ \A c \in Comps : A[c] = d * fl[c]
    BY <2>1
  <2> HIDE DEF A
  <2> QED
    BY <2>2, TotalsScale
<1>5. B \in [Comps -> Nat] /\ Total(B) = left * d
  <2>1. \A c \in Comps : left * ur[c] \in Nat
    BY <1>2, <1>3, Products
  <2>2. B \in [Comps -> Nat] /\ \A c \in Comps : B[c] = left * ur[c]
    BY <2>1
  <2> HIDE DEF B, ur
  <2>3. Total(B) = left * Total(ur)
    BY <1>2, <1>3, <2>2, TotalsScale
  <2> QED
    BY <1>3, <2>2, <2>3
<1>6. ASSUME NEW c \in Comps PROVE A[c] <= B[c]
  <2>1. CASE c \notin Room
    <3>1. fl[c] = 0 /\ ur[c] = 0
      BY <1>1, <2>1
    <3> QED
      BY <1>2, <3>1
  <2>2. CASE c \in Room
    <3>1. PICK n \in Nat : n = left * u[c] /\ n = Numerator(c)
      BY <1>1, <1>2, Products
    <3>2. PICK q \in Nat, r \in 0..(d - 1) : q = n \div d /\ n = d * q + r
      BY Quotients
    <3>3. Plain[c] - quota[c] \in Int
      BY BankFacts DEF Sharing
    <3>4. fl[c] = Lesser(q, Plain[c] - quota[c])
      BY <1>1, <2>2, <3>1, <3>2
    <3>5. fl[c] <= q /\ fl[c] \in Nat
      <4>1. q \in Int
        BY <3>2
      <4>2. Lesser(q, Plain[c] - quota[c]) <= q
        BY <3>3, <4>1, LesserFact
      <4> QED
        BY <3>4, <4>2
    <3>6. d * fl[c] <= d * q /\ d * q \in Nat /\ d * fl[c] \in Nat
      BY <3>5, Products
    <3>7. d * fl[c] <= n
      BY <3>2, <3>6
    <3> QED
      BY <2>2, <3>1, <3>7
  <2> QED
    BY <2>1, <2>2
<1> HIDE DEF A, B, ur
<1>7. Total(A) <= Total(B)
  BY <1>4, <1>5, <1>6, TotalsCompare
<1>8. d * Total(fl) <= d * left
  BY <1>2, <1>4, <1>5, <1>7
<1>9. ~(left < Total(fl))
  <2> SUFFICES ASSUME left < Total(fl) PROVE FALSE
    OBVIOUS
  <2>1. d * left + d <= d * Total(fl) /\ d * left \in Nat /\ d * Total(fl) \in Nat
    BY <1>2, Products
  <2> QED
    BY <1>8, <2>1
<1> QED
  BY <1>2, <1>9

LEMMA ShareKeeps == DrawInv /\ Share => DrawInv'
<1> SUFFICES ASSUME DrawInv, Share PROVE DrawInv'
  OBVIOUS
<1>1. /\ bank \in Banks /\ weight \in Weights /\ limit \in Limits /\ stage = "share" /\ ~Settled
      /\ Sharing /\ Heavier /\ Seated /\ UNCHANGED <<bank, weight, limit, pins, orals, stage>>
  BY DEF Share, DrawInv, Capped
<1>2. /\ \A c \in Comps : quota[c] \in Nat /\ Plain[c] \in Nat /\ weight[c] \in Nat
      /\ quota \in [Comps -> Nat] /\ left \in Nat /\ \A c \in Comps : quota[c] <= Plain[c]
      /\ Served \in SUBSET Comps
  BY <1>1, BankFacts DEF Sharing
<1>3. PICK u \in [Comps -> Nat], d \in Nat \ {0}, Room \in SUBSET Comps :
        /\ \A c \in Comps : Numerator(c) = left * u[c]
        /\ d = Denominator /\ Room = Roomy(quota) /\ \A c \in Comps : c \in Room <=> quota[c] < Plain[c]
        /\ \A a, b \in Comps : weight[a] > weight[b] => u[a] >= u[b]
  BY <1>1, ShareFacts
<1>4. PICK num \in [Comps -> Nat] : \A c \in Comps : num[c] = Numerator(c) /\ num[c] = left * u[c]
  <2> DEFINE n == [c \in Comps |-> left * u[c]]
  <2>1. n \in [Comps -> Nat] /\ \A c \in Comps : n[c] = Numerator(c) /\ n[c] = left * u[c]
    BY <1>2, <1>3, Products
  <2> QED
    BY <2>1
<1>5. PICK whole \in [Comps -> Nat], rest \in [Comps -> Nat] :
        \A c \in Comps : whole[c] = num[c] \div d /\ rest[c] = num[c] % d
  <2>1. \A c \in Comps : num[c] \div d \in Nat /\ num[c] % d \in Nat
    <3> SUFFICES ASSUME NEW c \in Comps PROVE num[c] \div d \in Nat /\ num[c] % d \in Nat
      OBVIOUS
    <3>1. num[c] \in Nat
      OBVIOUS
    <3>2. PICK q \in Nat, r \in 0..(d - 1) : q = num[c] \div d /\ r = num[c] % d
      BY <3>1, Quotients
    <3> QED
      BY <3>2
  <2> DEFINE w == [c \in Comps |-> num[c] \div d]
             t == [c \in Comps |-> num[c] % d]
  <2>2. w \in [Comps -> Nat] /\ t \in [Comps -> Nat] /\ \A c \in Comps : w[c] = num[c] \div d /\ t[c] = num[c] % d
    BY <2>1
  <2> QED
    BY <2>2
<1> DEFINE given == [c \in Comps |-> IF c \in Roomy(quota)
                                     THEN quota[c] + Lesser(Numerator(c) \div Denominator, Plain[c] - quota[c])
                                     ELSE quota[c]]
           over == left - (Total(given) - Total(quota))
           lucky == {c \in Roomy(given) : Cardinality({e \in Roomy(given) : LargerRest(e, c)}) < over}
<1>6. /\ given = [c \in Comps |-> IF c \in Room THEN quota[c] + Lesser(Numerator(c) \div d, Plain[c] - quota[c])
                                  ELSE quota[c]]
      /\ over = left - (Total(given) - Total(quota))
      /\ lucky = {c \in Roomy(given) : Cardinality({e \in Roomy(given) : LargerRest(e, c)}) < over}
      /\ quota' = [c \in Comps |-> IF c \in lucky THEN given[c] + 1 ELSE given[c]]
      /\ left' = over - Cardinality(lucky)
  <2>1. quota' = [c \in Comps |-> IF c \in lucky THEN given[c] + 1 ELSE given[c]] /\ left' = over - Cardinality(lucky)
    BY DEF Share, Total
  <2>2. given = [c \in Comps |-> IF c \in Room THEN quota[c] + Lesser(Numerator(c) \div d, Plain[c] - quota[c])
                                 ELSE quota[c]]
    BY <1>3
  <2> QED
    BY <2>1, <2>2
<1> HIDE DEF given, over, lucky
<1> DEFINE fl == [c \in Comps |-> IF c \in Room THEN Lesser(whole[c], Plain[c] - quota[c]) ELSE 0]
<1>7. \A c \in Comps : fl[c] \in Nat /\ given[c] = quota[c] + fl[c] /\ given[c] <= Plain[c]
                       /\ (fl[c] <= whole[c]) /\ (given[c] < Plain[c] => fl[c] = whole[c])
  <2> SUFFICES ASSUME NEW c \in Comps
               PROVE  fl[c] \in Nat /\ given[c] = quota[c] + fl[c] /\ given[c] <= Plain[c]
                       /\ (fl[c] <= whole[c]) /\ (given[c] < Plain[c] => fl[c] = whole[c])
    OBVIOUS
  <2>1. quota[c] \in Nat /\ Plain[c] \in Nat /\ whole[c] \in Nat /\ (c \in Room <=> quota[c] < Plain[c]) /\ quota[c] <= Plain[c]
    BY <1>2, <1>3
  <2>2. CASE c \in Room
    <3>1. fl[c] = Lesser(whole[c], Plain[c] - quota[c]) /\ given[c] = quota[c] + fl[c]
      BY <1>3, <1>4, <1>5, <1>6, <2>2
    <3> HIDE DEF fl
    <3> QED
      BY <2>1, <2>2, <3>1 DEF Lesser
  <2>3. CASE c \notin Room
    <3>1. fl[c] = 0 /\ given[c] = quota[c]
      BY <1>6, <2>3
    <3> HIDE DEF fl
    <3> QED
      BY <2>1, <2>3, <3>1
  <2> QED
    BY <2>2, <2>3
<1>8. fl \in [Comps -> Nat] /\ Total(fl) <= left
  <2>1. fl \in [Comps -> Nat]
    BY <1>7
  <2>2. \A c \in Comps : fl[c] = IF c \in Roomy(quota)
                                 THEN Lesser(Numerator(c) \div Denominator, Plain[c] - quota[c]) ELSE 0
    BY <1>3, <1>4, <1>5
  <2> HIDE DEF fl
  <2> QED
    BY <1>1, <2>1, <2>2, WholeSeatsFit
<1> HIDE DEF fl
<1>9. given \in [Comps -> Nat] /\ Total(given) = Total(quota) + Total(fl)
  <2>1. \A c \in Comps : given[c] \in Nat
    BY <1>2, <1>7
  <2>2. given \in [Comps -> Nat]
    BY <1>6, <2>1
  <2> QED
    BY <1>2, <1>7, <1>8, <2>2, TotalsAdd
<1>10. over \in Nat /\ over = left - Total(fl)
  <2>1. Total(fl) \in Nat /\ Total(quota) \in Nat
    BY <1>2, <1>8, Totals
  <2> QED
    BY <1>2, <1>6, <1>8, <1>9, <2>1
<1>11. PICK open \in SUBSET Comps : open = Roomy(given) /\ \A c \in Comps : c \in open <=> given[c] < Plain[c]
  <2>1. \A c \in Comps : given[c] < Plain[c] => Plain[c] > 0
    BY <1>2, <1>9
  <2>2. Roomy(given) \in SUBSET Comps
    BY DEF Roomy, Served
  <2>3. \A c \in Comps : c \in Roomy(given) <=> given[c] < Plain[c]
    BY <2>1 DEF Roomy, Served
  <2> QED
    BY <2>2, <2>3
<1> DEFINE R == {p \in Comps \X Comps : LargerRest(p[1], p[2])}
<1>12. \A a, b \in Comps : <<a, b>> \in R <=> LargerRest(a, b)
  OBVIOUS
<1>13. /\ \A x \in open : <<x, x>> \notin R
       /\ \A x, y \in open : x # y => <<x, y>> \in R \/ <<y, x>> \in R
       /\ \A x, y, z \in open : <<x, y>> \in R /\ <<y, z>> \in R => <<x, z>> \in R
  BY <1>1, <1>12, RestIsOrder
<1> HIDE DEF R
<1>14. lucky \in SUBSET open /\ \A c \in open : c \in lucky <=> Cardinality(Ahead(R, open, c)) < over
  <2>1. \A c \in open : {e \in open : LargerRest(e, c)} = Ahead(R, open, c)
    BY <1>12 DEF Ahead
  <2> QED
    BY <1>6, <1>11, <2>1
<1>15. /\ IsFiniteSet(lucky) /\ Cardinality(lucky) \in Nat /\ Cardinality(lucky) <= over
       /\ \A a \in open, b \in lucky : <<a, b>> \in R => a \in lucky
  <2>1. IsFiniteSet(open)
    BY <1>11, CompsFact, FS_Subset
  <2>2. over \in Nat
    BY <1>10
  <2> QED
    BY ONLY <1>13, <1>14, <2>1, <2>2, Ranks
<1> DEFINE extra == [c \in Comps |-> IF c \in lucky THEN 1 ELSE 0]
<1>16. extra \in [Comps -> Nat] /\ Total(extra) = Cardinality(lucky)
  <2>1. extra \in [Comps -> Nat] /\ lucky \in SUBSET Comps /\ \A c \in Comps : extra[c] = IF c \in lucky THEN 1 ELSE 0
    BY <1>14
  <2> HIDE DEF extra
  <2> QED
    BY <2>1, TotalOfOnes
<1>17. /\ \A c \in Comps : quota'[c] = given[c] + extra[c] /\ quota'[c] <= Plain[c] /\ quota'[c] >= quota[c]
       /\ quota' \in [Comps -> Nat]
  <2>1. ASSUME NEW c \in Comps
        PROVE  quota'[c] = given[c] + extra[c] /\ quota'[c] <= Plain[c] /\ quota'[c] >= quota[c] /\ quota'[c] \in Nat
    <3>1. given[c] \in Nat /\ Plain[c] \in Nat /\ quota[c] \in Nat /\ given[c] = quota[c] + fl[c] /\ fl[c] \in Nat
      BY <1>2, <1>7, <1>9
    <3>2. CASE c \in lucky
      BY <1>6, <1>11, <1>14, <3>1, <3>2
    <3>3. CASE c \notin lucky
      BY <1>6, <1>7, <3>1, <3>3
    <3> QED
      BY <3>2, <3>3
  <2> QED
    BY <1>6, <2>1
<1>18. Total(quota') = Total(given) + Cardinality(lucky)
  <2> HIDE DEF extra
  <2> QED
    BY <1>9, <1>16, <1>17, TotalsAdd
<1>19. left' \in Nat /\ Total(quota') + left' = Total(quota) + left /\ Total(quota) \in Nat /\ Total(quota') \in Nat
  <2>1. Total(fl) \in Nat /\ Total(quota) \in Nat /\ Total(quota') \in Nat /\ Total(given) \in Nat
    BY <1>2, <1>8, <1>9, <1>17, Totals
  <2>2. PICK f, t, n, l \in Nat : f = Total(fl) /\ t = Total(quota) /\ n = Cardinality(lucky) /\ l = left
    BY <1>2, <1>15, <2>1
  <2>3. Total(quota') = t + f + n
    BY <1>9, <1>18, <2>2
  <2>4. over = l - f /\ over \in Nat /\ n <= over
    BY <1>10, <1>15, <2>2
  <2>5. left' = over - n
    BY <1>6, <2>2
  <2>6. left' \in Nat /\ t + f + n + left' = t + l
    BY <2>4, <2>5
  <2> QED
    BY <2>1, <2>2, <2>3, <2>6
<1>20. Sharing'
  <2>1. Reserved' /\ Unreserved' = Unreserved
    BY <1>1, SameReserve DEF Sharing
  <2>2. Total(quota') + left' = Unreserved' /\ Total(quota') + left' < Total(Plain)
    BY <1>1, <1>19, <2>1 DEF Sharing
  <2> QED
    BY <1>1, <1>17, <1>19, <2>1, <2>2, SameBank DEF Sharing, Total
<1>21. Heavier'
  <2> SUFFICES ASSUME NEW a \in Comps, NEW b \in Comps, weight[a] > weight[b], quota'[a] < Plain[a]
               PROVE  quota'[a] >= quota'[b]
    BY <1>1, SameBank DEF Heavier
  <2>1. /\ given[a] \in Nat /\ given[b] \in Nat /\ quota[a] \in Nat /\ quota[b] \in Nat /\ fl[a] \in Nat /\ fl[b] \in Nat
        /\ given[a] = quota[a] + fl[a] /\ given[b] = quota[b] + fl[b] /\ Plain[a] \in Nat
        /\ whole[a] \in Nat /\ whole[b] \in Nat /\ rest[a] \in Nat /\ rest[b] \in Nat
    BY <1>2, <1>7, <1>9
  <2>2. /\ quota'[a] = IF a \in lucky THEN given[a] + 1 ELSE given[a]
        /\ quota'[b] = IF b \in lucky THEN given[b] + 1 ELSE given[b]
    BY <1>6
  <2>3. given[a] < Plain[a] /\ quota[a] < Plain[a]
    BY <2>1, <2>2
  <2>4. quota[a] >= quota[b]
    BY <1>1, <2>3 DEF Heavier
  <2>5. a \in open /\ fl[a] = whole[a] /\ fl[b] <= whole[b]
    BY <1>7, <1>11, <2>3
  <2>6. num[b] <= num[a]
    <3>1. u[b] <= u[a] /\ u[a] \in Nat /\ u[b] \in Nat
      BY <1>3
    <3>2. left * u[b] <= left * u[a]
      BY <1>2, <3>1, Products
    <3> QED
      BY <1>4, <3>2
  <2>7. whole[b] <= whole[a] /\ (whole[b] = whole[a] => rest[b] <= rest[a])
    <3>1. num[a] \in Nat /\ num[b] \in Nat
      OBVIOUS
    <3> QED
      BY <1>5, <2>6, <3>1, QuotientsGrow
  <2>8. CASE whole[b] < whole[a]
    BY <2>1, <2>2, <2>4, <2>5, <2>8
  <2>9. CASE whole[b] = whole[a]
    <3>1. LargerRest(a, b)
      <4>1. Before(a, b)
        BY DEF Before
      <4>2. Numerator(a) % Denominator = rest[a] /\ Numerator(b) % Denominator = rest[b]
        BY <1>3, <1>4, <1>5
      <4>3. rest[a] > rest[b] \/ rest[a] = rest[b]
        BY <2>1, <2>7, <2>9
      <4> QED
        BY <4>1, <4>2, <4>3 DEF LargerRest
    <3>2. b \in lucky => a \in lucky
      BY <1>12, <1>15, <2>5, <3>1
    <3> QED
      BY <2>1, <2>2, <2>4, <2>5, <2>9, <3>2
  <2> QED
    BY <2>1, <2>7, <2>8, <2>9
<1>22. Seated'
  <2>1. CASE \A c \in Served : quota[c] > 0
    BY <1>1, <1>2, <1>17, <2>1, SameBank DEF Seated
  <2>2. CASE Total(quota) + left < Cardinality(Served)
    BY <1>1, <1>19, <2>2, SameBank DEF Seated
  <2> QED
    BY <1>1, <2>1, <2>2 DEF Seated
<1> QED
  BY <1>1, <1>20, <1>21, <1>22 DEF DrawInv, Capped, WeightsDecide

LEMMA ApportionedKeeps == DrawInv /\ Apportioned => DrawInv'
<1> SUFFICES ASSUME DrawInv, Apportioned PROVE DrawInv'
  OBVIOUS
<1>1. /\ bank \in Banks /\ weight \in Weights /\ limit \in Limits /\ Settled /\ Sharing /\ Heavier /\ Seated
      /\ UNCHANGED <<bank, weight, limit, pins, orals, quota, left>> /\ stage' = "draw"
  BY DEF Apportioned, DrawInv, Capped
<1>2. /\ quota \in [Comps -> Nat] /\ Plain \in [Comps -> Nat] /\ left \in Nat
      /\ Total(quota) \in Nat /\ Total(Plain) \in Nat /\ \A c \in Comps : quota[c] <= Plain[c]
      /\ Total(quota) + left < Total(Plain)
  BY <1>1, BankFacts, Totals DEF Sharing
<1>3. Roomy(quota) # {}
  <2> SUFFICES ASSUME Roomy(quota) = {} PROVE FALSE
    OBVIOUS
  <2>1. \A c \in Comps : quota[c] = Plain[c]
    <3> SUFFICES ASSUME NEW c \in Comps PROVE quota[c] = Plain[c]
      OBVIOUS
    <3>1. quota[c] \in Nat /\ Plain[c] \in Nat /\ quota[c] <= Plain[c]
      BY <1>2
    <3>2. Plain[c] > 0 => ~(quota[c] < Plain[c])
      BY DEF Roomy, Served
    <3> QED
      BY <3>1, <3>2
  <2>2. quota = Plain
    BY <1>2, <2>1
  <2> QED
    BY <1>2, <2>2
<1>4. left = 0
  BY <1>1, <1>3 DEF Settled
<1>5. PICK P, L, T, n, cap, p, o, t \in Nat :
        /\ P = Total(Pins) /\ L = Total(Leads) /\ T = Total(Orals) /\ n = Seats /\ cap = OralCap
        /\ p = Total(pins) /\ o = Total(orals) /\ t = Total(quota)
  BY <1>1, <1>2, BankFacts, Totals DEF Sharing, Reserved
<1>6. Filled'
  <2>1. /\ o > 0 => L + o <= cap
        /\ Fits => P <= n /\ o <= n - P
    BY <1>1, <1>5, SeatNumbers DEF Sharing
  <2>2. /\ Fits => p = P /\ t = n - P - o
        /\ ~Fits => n <= p
    BY <1>1, <1>4, <1>5 DEF Sharing, Reserved, Unreserved
  <2>3. Size = p + o + t
    BY <1>5 DEF Size, Total
  <2>4. (Fits => Size <= n) /\ ~(Size < n)
    BY <2>1, <2>2, <2>3
  <2>5. Filled
    BY <1>5, <2>1, <2>4 DEF Filled
  <2> QED
    BY <1>1, <2>5, SameBank DEF Filled, Size, Total
<1>7. WeightsDecide'
  <2>1. Cardinality(Served) <= Total(quota) => \A c \in Served : quota[c] > 0
    BY <1>1, <1>2, <1>4, BankFacts DEF Seated
  <2> QED
    BY <1>1, <2>1, SameBank DEF Heavier, WeightsDecide, Total
<1>8. quota' \in [Comps -> Nat] /\ orals' \in [Comps -> Nat]
  BY <1>1, <1>2 DEF Sharing, Reserved
<1> QED
  BY <1>1, <1>6, <1>7, <1>8 DEF DrawInv, Capped

LEMMA DrawKeeps == DrawInv /\ Draw => DrawInv'
<1> SUFFICES ASSUME DrawInv, Draw PROVE DrawInv'
  OBVIOUS
<1>1. /\ Filled /\ stage' = "arrange" /\ UNCHANGED <<bank, weight, limit, pins, orals, quota, left, order>>
  BY DEF Draw, DrawInv
<1>2. Filled'
  BY <1>1, SameBank DEF Filled, Size, Total
<1> QED
  BY <1>1, <1>2 DEF DrawInv, Capped, WeightsDecide

LEMMA DrawInvStep == DrawInv /\ [DrawingNext]_drawingVars => DrawInv'
<1> SUFFICES ASSUME DrawInv, [DrawingNext]_drawingVars PROVE DrawInv'
  OBVIOUS
<1>1. CASE Reserve
  BY <1>1, ReserveKeeps
<1>2. CASE TakeAll
  BY <1>2, TakeAllKeeps
<1>3. CASE SeatEach
  BY <1>3, SeatEachKeeps
<1>4. CASE Share
  BY <1>4, ShareKeeps
<1>5. CASE Apportioned
  BY <1>5, ApportionedKeeps
<1>6. CASE Draw
  BY <1>6, DrawKeeps
<1>7. CASE DrawModules
  <2>1. bank' \in Supplies /\ stage' \in {"refused", "arrange"}
    BY <1>7 DEF DrawModules, DrawInv
  <2> QED
    BY <2>1 DEF DrawInv, Capped, WeightsDecide
<1>8. CASE Arrange
  <2>1. stage = "arrange" /\ stage' = "done" /\ UNCHANGED <<bank, weight, limit, pins, orals, quota, left, mix>>
    BY <1>8 DEF Arrange
  <2>2. Filled => Filled'
    BY <2>1, SameBank DEF Filled, Size, Total
  <2> QED
    BY <2>1, <2>2 DEF DrawInv, Capped, WeightsDecide
<1>9. CASE UNCHANGED drawingVars
  <2>1. UNCHANGED <<bank, weight, limit, stage, pins, orals, quota, left>>
    BY <1>9 DEF drawingVars
  <2>2. /\ Filled' = Filled /\ WeightsDecide' = WeightsDecide /\ Reserved' = Reserved /\ Sharing' = Sharing
        /\ Heavier' = Heavier /\ Seated' = Seated /\ Unreserved' = Unreserved /\ Total(Plain)' = Total(Plain)
    BY <2>1, SameBank, SameReserve DEF Filled, Size, WeightsDecide, Sharing, Heavier, Seated, Total
  <2> QED
    BY <2>1, <2>2, SameBank DEF DrawInv, Capped
<1> QED
  BY <1>1, <1>2, <1>3, <1>4, <1>5, <1>6, <1>7, <1>8, <1>9 DEF DrawingNext

LEMMA DrawingIsLawful == DrawingSpec => []DrawInv
<1>1. DrawingInit => DrawInv
  BY DEF DrawingInit, DrawInv, Capped, WeightsDecide
<1> QED
  BY <1>1, DrawInvStep, PTL DEF DrawingSpec

\* A capped paper has the questions asked for, or all there are to have, unless more are
\* pinned than there are seats, and the spoken set keeps to its cap beyond the pinned ones:
\* the seats and the questions of every pass add up, and the whole seats of a pass are
\* never more than the seats it shares out.
THEOREM SeatsFilled == DrawingSpec => []SeatsAreFilled
<1>1. DrawInv => SeatsAreFilled
  BY DEF DrawInv, SeatsAreFilled, Filled, Fits, IsModulePaper, Total
<1> QED
  BY <1>1, DrawingIsLawful, PTL

\* The weights decide who has the seats: a heavier competency with questions to spare is
\* never behind a lighter one, after any number of passes, and nobody with questions goes
\* without while there is a seat for everybody.
THEOREM WeightsRule == DrawingSpec => []WeightsDecide
<1>1. DrawInv => WeightsDecide
  BY DEF DrawInv
<1> QED
  BY <1>1, DrawingIsLawful, PTL

----------------------------------------------------------------------------
(* A module paper and its plan *)

\* What the plan and the draw are about: a module paper is never on the way of a capped one.
PlanInv ==
  /\ stage \in Capped \union {"modules", "refused", "arrange", "done"}
  /\ stage \in Capped => bank \in Banks
  /\ stage = "modules" => bank \in Supplies
  /\ stage \in {"refused", "arrange", "done"} =>
       \/ bank \in Banks /\ stage # "refused"
       \/ bank \in Supplies /\ (Warned([m \in Comps |-> Allocatable(bank[m])]) <=> stage = "refused")

\* One module: with no optional questions to fill up with, it is short exactly when the
\* primary questions are.
LEMMA ShortIsShort ==
  ASSUME NEW p \in Nat, NEW spare \in Nat, NEW count \in Nat
  PROVE  /\ p >= count => ~(Drawn(p, spare, count) < count)
         /\ Drawn(p, 0, count) < count <=> ~(p >= count)
  BY DEF Drawn, Lesser

LEMMA QuotasAreNumbers == \A m \in Comps : ObjectiveQuota(m) \in Nat /\ OpenQuota(m) \in Nat
  BY DrawingAssumption DEF ObjectiveQuota, OpenQuota

LEMMA PlanFacts ==
  ASSUME bank \in Supplies
  PROVE  /\ Ready(bank) => ~Warned(bank)
         /\ ~Warned([m \in Comps |-> Allocatable(bank[m])]) => Ready(bank)
         /\ Ready(bank) /\ Warned([m \in Comps |-> Allocatable(bank[m])]) =>
              \E m \in Comps : ~bank[m].live \/ bank[m].sameChoice > 0 \/ bank[m].sameOpen > 0
<1> DEFINE alloc == [m \in Comps |-> Allocatable(bank[m])]
           short(m, s) == DrawnObjective(m, s) < ObjectiveQuota(m) \/ DrawnOpen(m, s) < OpenQuota(m)
<1>1. ASSUME NEW m \in Comps
      PROVE  /\ Sufficient(m, bank[m]) => ~short(m, bank[m])
             /\ ~short(m, alloc[m]) => Sufficient(m, bank[m])
             /\ Sufficient(m, bank[m]) /\ short(m, alloc[m]) =>
                  ~bank[m].live \/ bank[m].sameChoice > 0 \/ bank[m].sameOpen > 0
  <2>1. PICK s \in [choice : Nat, sameChoice : Nat, bare : Nat, open : Nat, sameOpen : Nat,
               spareChoice : Nat, spareOpen : Nat, live : BOOLEAN] :
          s = bank[m]
    BY DrawingAssumption
  <2>2. PICK n \in Nat, k \in Nat : n = ObjectiveQuota(m) /\ k = OpenQuota(m)
    BY QuotasAreNumbers
  <2>3. PICK a, sa, o, so, spareA, spareO \in Nat :
          /\ a = s.choice /\ sa = s.sameChoice /\ o = s.open /\ so = s.sameOpen
          /\ spareA = s.spareChoice /\ spareO = s.spareOpen
    OBVIOUS
  <2>4. Sufficient(m, s) <=> a + sa >= n /\ o + so >= k
    BY <2>2, <2>3 DEF Sufficient, Open
  <2>5. short(m, s) <=> Drawn(a + sa, spareA, n) < n \/ Drawn(o + so, spareO, k) < k
    BY <2>2, <2>3 DEF DrawnObjective, DrawnOpen, Objective, Open
  <2>6. PICK t : t = Allocatable(s) /\ t = alloc[m]
    BY <2>1
  <2>7. /\ t.spareChoice = 0 /\ t.spareOpen = 0 /\ t.sameChoice = 0 /\ t.sameOpen = 0
        /\ t.choice = (IF s.live THEN a ELSE 0) /\ t.open = (IF s.live THEN o ELSE 0)
    BY <2>3, <2>6 DEF Allocatable
  <2>8. PICK ta, to \in Nat : ta = t.choice /\ to = t.open
    BY <2>7
  <2>9. short(m, t) <=> Drawn(ta, 0, n) < n \/ Drawn(to, 0, k) < k
    <3>1. Objective(t) = ta /\ Open(t) = to
      BY <2>7, <2>8 DEF Objective, Open
    <3> QED
      BY <2>2, <2>7, <3>1 DEF DrawnObjective, DrawnOpen
  <2>10. short(m, t) <=> ~(ta >= n /\ to >= k)
    BY <2>9, ShortIsShort
  <2>11. a + sa >= n /\ o + so >= k => ~short(m, s)
    <3>1. a + sa \in Nat /\ o + so \in Nat
      OBVIOUS
    <3> QED
      BY <2>5, <3>1, ShortIsShort
  <2>12. /\ s.live => ta = a /\ to = o
         /\ ~s.live => ta = 0 /\ to = 0
    BY <2>7, <2>8
  <2>13. /\ Sufficient(m, s) => ~short(m, s)
         /\ ~short(m, t) => Sufficient(m, s)
         /\ Sufficient(m, s) /\ short(m, t) => ~s.live \/ sa > 0 \/ so > 0
    <3> HIDE DEF short
    <3>1. ~short(m, t) => a + sa >= n /\ o + so >= k
      <4>1. ~short(m, t) => ta >= n /\ to >= k
        BY <2>10
      <4>2. ta <= a + sa /\ to <= o + so
        BY <2>12
      <4> QED
        BY <4>1, <4>2
    <3>2. (a + sa >= n /\ o + so >= k) /\ ~(ta >= n /\ to >= k) => ~s.live \/ sa > 0 \/ so > 0
      BY <2>12
    <3> QED
      BY <2>4, <2>10, <2>11, <3>1, <3>2
  <2> HIDE DEF alloc, short
  <2> QED
    BY <2>1, <2>3, <2>6, <2>13
<1>2. Ready(bank) <=> \A m \in Comps : Sufficient(m, bank[m])
  BY DEF Ready
<1>3. Warned(bank) <=> \E m \in Comps : short(m, bank[m])
  BY DEF Warned
<1>4. Warned(alloc) <=> \E m \in Comps : short(m, alloc[m])
  BY DEF Warned
<1> HIDE DEF alloc, short
<1>5. /\ Ready(bank) => ~Warned(bank)
      /\ ~Warned(alloc) => Ready(bank)
      /\ Ready(bank) /\ Warned(alloc) =>
           \E m \in Comps : ~bank[m].live \/ bank[m].sameChoice > 0 \/ bank[m].sameOpen > 0
  BY <1>1, <1>2, <1>3, <1>4
<1> QED
  BY <1>5 DEF alloc

LEMMA PlanInvStep == PlanInv /\ [DrawingNext]_drawingVars => PlanInv'
<1> SUFFICES ASSUME PlanInv, [DrawingNext]_drawingVars PROVE PlanInv'
  OBVIOUS
<1>1. UNCHANGED bank
  BY DEF DrawingNext, drawingVars, Reserve, TakeAll, SeatEach, Share, Apportioned, Draw, DrawModules, Arrange
<1>2. CASE stage \in Capped /\ stage' \in Capped \union {"arrange"}
  BY <1>1, <1>2 DEF PlanInv, Capped
<1>3. CASE DrawModules
  <2>1. bank \in Supplies
    BY <1>3 DEF DrawModules, PlanInv
  <2>2. stage' = IF Warned([m \in Comps |-> Allocatable(bank[m])]) THEN "refused" ELSE "arrange"
    BY <1>3 DEF DrawModules
  <2>3. Warned([m \in Comps |-> Allocatable(bank[m])])' <=> Warned([m \in Comps |-> Allocatable(bank[m])])
    BY <1>1
  <2> QED
    BY <1>1, <2>1, <2>2, <2>3 DEF PlanInv, Capped
<1>4. CASE Arrange \/ UNCHANGED stage
  <2>1. (stage = "arrange" /\ stage' = "done") \/ stage' = stage
    BY <1>4 DEF Arrange
  <2>2. Warned([m \in Comps |-> Allocatable(bank[m])])' <=> Warned([m \in Comps |-> Allocatable(bank[m])])
    BY <1>1
  <2> QED
    BY <1>1, <2>1, <2>2 DEF PlanInv, Capped
<1>5. \/ stage \in Capped /\ stage' \in Capped \union {"arrange"}
      \/ DrawModules \/ Arrange \/ UNCHANGED stage
  BY DEF DrawingNext, drawingVars, Reserve, TakeAll, SeatEach, Share, Apportioned, Draw, Capped
<1> QED
  BY <1>2, <1>3, <1>4, <1>5

\* A bank of both kinds has no competency to draw from.
LEMMA OneKind == bank \in Banks /\ bank \in Supplies => Comps = {}
<1> SUFFICES ASSUME bank \in Banks, bank \in Supplies, NEW c \in Comps PROVE FALSE
  OBVIOUS
<1>1. /\ bank[c] \in [pin : Nat, lead : Nat, oral : Nat, choice : Nat, open : Nat]
      /\ bank[c] \in [choice : Nat, sameChoice : Nat, bare : Nat, open : Nat, sameOpen : Nat,
                   spareChoice : Nat, spareOpen : Nat, live : BOOLEAN]
  BY DrawingAssumption
<1>2. "pin" \in DOMAIN bank[c] /\ "pin" \notin DOMAIN bank[c]
  BY <1>1
<1> QED
  BY <1>2

\* What the plan calls ready is issued in full, and a paper is refused only when a module
\* falls short, its competency is switched off or the plan counted rows with one prompt.
THEOREM PlanIsKept == DrawingSpec => []PlanKeepsItsWord
<1>1. DrawingInit => PlanInv
  BY DEF DrawingInit, PlanInv, Capped
<1>2. PlanInv => PlanKeepsItsWord
  <2> SUFFICES ASSUME PlanInv, IsModulePaper, stage # "modules"
               PROVE  /\ stage # "refused" => Ready(bank)
                      /\ Ready(bank) =>
                           /\ ~Warned(bank)
                           /\ stage = "refused" =>
                                \E m \in Comps : ~bank[m].live \/ bank[m].sameChoice > 0 \/ bank[m].sameOpen > 0
    BY DEF PlanKeepsItsWord
  <2>1. CASE bank \in Banks
    <3>1. Comps = {}
      BY <2>1, OneKind DEF IsModulePaper
    <3>2. Ready(bank) /\ ~Warned(bank) /\ ~Warned([m \in Comps |-> Allocatable(bank[m])])
      BY <3>1 DEF Ready, Warned
    <3> QED
      BY <3>2 DEF PlanInv
  <2>2. CASE bank \notin Banks
    BY <2>2, PlanFacts DEF PlanInv, IsModulePaper, Capped
  <2> QED
    BY <2>1, <2>2
<1> QED
  BY <1>1, <1>2, PlanInvStep, PTL DEF DrawingSpec

----------------------------------------------------------------------------
(* The order of the paper *)

LEMMA SameSums ==
  ASSUME NEW S, IsFiniteSet(S), NEW f, NEW g, \A x \in S : f[x] \in Nat /\ g[x] = f[x]
  PROVE  SumFunctionOnSet(f, S) = SumFunctionOnSet(g, S)
<1>1. (\A x \in S : f[x] \in Nat /\ g[x] \in Nat /\ f[x] <= g[x]) /\ (\A x \in S : g[x] \in Nat /\ f[x] \in Nat /\ g[x] <= f[x])
  OBVIOUS
<1>2. SumFunctionOnSet(f, S) <= SumFunctionOnSet(g, S)
  BY <1>1, SumsCompare
<1>3. SumFunctionOnSet(g, S) <= SumFunctionOnSet(f, S)
  BY <1>1, SumsCompare
<1>4. SumFunctionOnSet(f, S) \in Nat /\ SumFunctionOnSet(g, S) \in Nat
  BY <1>1, SumRemoves
<1> QED
  BY <1>2, <1>3, <1>4

\* The places behind the gaps: each comes after the one before and its gap.
LEMMA Places ==
  ASSUME NEW n \in Nat, NEW size \in [1..n -> Nat]
  PROVE  \E e \in [0..n -> Nat] :
           /\ \A g \in 0..n : e[g] = g + SumFunctionOnSet(size, 1..g)
           /\ e[0] = 0
           /\ \A g \in 1..n : e[g] = e[g - 1] + 1 + size[g]
           /\ \A a, b \in 0..n : a < b => e[a] < e[b]
<1>0. PICK e : e = [g \in 0..n |-> g + SumFunctionOnSet(size, 1..g)]
  OBVIOUS
<1> DEFINE U(g) == SumFunctionOnSet(size, 1..g)
<1>1. ASSUME NEW g \in 0..n
      PROVE  IsFiniteSet(1..g) /\ (\A x \in 1..g : size[x] \in Nat) /\ U(g) \in Nat
  <2>1. g \in Int /\ 1 \in Int /\ \A x \in 1..g : x \in 1..n /\ size[x] \in Nat
    OBVIOUS
  <2>2. IsFiniteSet(1..g)
    BY <2>1, FS_Interval
  <2> QED
    BY <2>1, <2>2, SumRemoves
<1>2. U(0) = 0
  <2>1. 1..0 = {}
    OBVIOUS
  <2> QED
    BY <2>1, SumOfNone
<1>3. ASSUME NEW g \in 1..n PROVE U(g) = U(g - 1) + size[g]
  <2>1. g \in 0..n /\ g \in 1..g /\ (1..g) \ {g} = 1..(g - 1)
    OBVIOUS
  <2>2. U(g) = size[g] + SumFunctionOnSet(size, (1..g) \ {g})
    BY <1>1, <2>1, SumRemoves
  <2>3. size[g] \in Nat /\ g - 1 \in 0..n
    OBVIOUS
  <2>4. U(g - 1) \in Nat
    BY <1>1, <2>3
  <2>5. U(g) = size[g] + U(g - 1)
    BY <2>1, <2>2
  <2> HIDE DEF U
  <2> QED
    BY <2>3, <2>4, <2>5
<1> HIDE DEF U
<1>5. \A g \in 0..n : e[g] = g + U(g)
  BY <1>0 DEF U
<1>6. e \in [0..n -> Nat]
  <2>1. \A g \in 0..n : g + U(g) \in Nat
    BY <1>1
  <2>2. e = [g \in 0..n |-> g + U(g)]
    BY <1>0 DEF U
  <2> QED
    BY <2>1, <2>2
<1>7. e[0] = 0
  BY <1>2, <1>5
<1>8. ASSUME NEW g \in 1..n PROVE e[g] = e[g - 1] + 1 + size[g]
  <2>1. g \in 0..n /\ g - 1 \in 0..n /\ size[g] \in Nat
    OBVIOUS
  <2>2. e[g] = g + U(g) /\ e[g - 1] = (g - 1) + U(g - 1) /\ U(g - 1) \in Nat /\ U(g) = U(g - 1) + size[g]
    BY <1>1, <1>3, <1>5, <2>1
  <2> QED
    BY <2>1, <2>2
<1>9. ASSUME NEW a \in 0..n, NEW b \in 0..n, a < b PROVE e[a] < e[b]
  <2> DEFINE Bad == {c \in 0..n : a < c /\ ~(e[a] < e[c])}
  <2>1. SUFFICES ASSUME Bad # {} PROVE FALSE
    BY <1>9
  <2>2. PICK c \in Bad : \A x \in Bad : c <= x
    <3>1. Bad \in SUBSET Nat
      OBVIOUS
    <3> HIDE DEF Bad
    <3> QED
      BY <2>1, <3>1, LeastNatural
  <2>3. c \in 1..n /\ c - 1 \in 0..n /\ c - 1 >= a /\ e[c] = e[c - 1] + 1 + size[c]
    <3>1. c \in 0..n /\ a < c
      BY <2>2
    <3>2. c \in 1..n /\ c - 1 \in 0..n /\ c - 1 >= a
      BY <3>1
    <3> QED
      BY <1>8, <3>2
  <2>4. e[a] \in Nat /\ e[c] \in Nat /\ e[c - 1] \in Nat /\ size[c] \in Nat
    BY <1>6, <2>3
  <2>5. e[a] <= e[c - 1]
    <3>1. CASE c - 1 = a
      BY <2>4, <3>1
    <3>2. CASE c - 1 # a
      BY <2>2, <2>3, <2>4, <3>2
    <3> QED
      BY <3>1, <3>2
  <2> QED
    BY <2>3, <2>4, <2>5
<1> QED
  BY <1>5, <1>6, <1>7, <1>8, <1>9 DEF U

LEMMA CountOnes ==
  ASSUME NEW A, IsFiniteSet(A), NEW T \in SUBSET A, NEW f, NEW g,
         \A x \in A : f[x] = 1 /\ g[x] = IF x \in T THEN 1 ELSE 0
  PROVE  SumFunctionOnSet(g, A) = Cardinality(T)
<1>1. \A x \in A : f[x] \in Nat /\ g[x] = IF x \in T THEN f[x] ELSE 0
  OBVIOUS
<1>2. \A x \in T : f[x] = 1
  OBVIOUS
<1>3. SumFunctionOnSet(g, A) = SumFunctionOnSet(f, T) /\ ((\A x \in T : f[x] = 1) => SumFunctionOnSet(f, T) = Cardinality(T))
  BY <1>1, SumsWithin
<1> QED
  BY <1>2, <1>3

\* The gaps take in everything that is dealt into them.
LEMMA GapsFill ==
  ASSUME NEW n \in Nat, NEW b \in Nat, NEW S \in SUBSET (1..n), NEW size \in [1..n -> Nat],
         \A h \in 1..n : size[h] = IF h \in S THEN b + 1 ELSE b
  PROVE  SumFunctionOnSet(size, 1..n) = Cardinality(S) + b * n
<1>1. PICK A : A = 1..n
  OBVIOUS
<1>2. PICK ones, picked : ones = [h \in A |-> 1] /\ picked = [h \in A |-> IF h \in S THEN 1 ELSE 0]
  OBVIOUS
<1>3. IsFiniteSet(A) /\ Cardinality(A) = n
  <2>1. 1 \in Int /\ n \in Int
    OBVIOUS
  <2> QED
    BY <1>1, <2>1, FS_Interval
<1>4. SumFunctionOnSet(picked, A) = Cardinality(S)
  <2>1. PICK T \in SUBSET A : T = S
    BY <1>1
  <2>2. \A x \in A : ones[x] = 1 /\ picked[x] = IF x \in T THEN 1 ELSE 0
    BY <1>2, <2>1
  <2>3. IsFiniteSet(A)
    BY <1>3
  <2>4. SumFunctionOnSet(picked, A) = Cardinality(T)
    BY ONLY <2>2, <2>3, CountOnes
  <2> QED
    BY <2>1, <2>4
<1>5. SumFunctionOnSet(ones, A) = n
  <2>1. PICK f : f = ones
    OBVIOUS
  <2>2. \A x \in A : f[x] = 1 /\ ones[x] = IF x \in A THEN 1 ELSE 0
    BY <1>2, <2>1
  <2>3. IsFiniteSet(A)
    BY <1>3
  <2>4. PICK T \in SUBSET A : T = A
    OBVIOUS
  <2>5. \A x \in A : f[x] = 1 /\ ones[x] = IF x \in T THEN 1 ELSE 0
    BY <2>2, <2>4
  <2>6. SumFunctionOnSet(ones, A) = Cardinality(T)
    BY ONLY <2>3, <2>5, CountOnes
  <2> QED
    BY <1>3, <2>4, <2>6
<1>6. SumFunctionOnSet(size, A) = SumFunctionOnSet(picked, A) + b * SumFunctionOnSet(ones, A)
  <2>1. \A h \in A : picked[h] \in Nat /\ ones[h] \in Nat /\ size[h] = picked[h] + b * ones[h]
    <3> SUFFICES ASSUME NEW h \in A PROVE picked[h] \in Nat /\ ones[h] \in Nat /\ size[h] = picked[h] + b * ones[h]
      OBVIOUS
    <3>1. ones[h] = 1 /\ picked[h] = (IF h \in S THEN 1 ELSE 0) /\ b * 1 = b
      BY <1>2
    <3>2. size[h] = IF h \in S THEN b + 1 ELSE b
      BY <1>1
    <3> QED
      BY <3>1, <3>2
  <2>2. IsFiniteSet(A)
    BY <1>3
  <2> QED
    BY <2>1, <2>2, SumsAdd
<1> QED
  BY <1>1, <1>4, <1>5, <1>6

\* The longest run of the larger group that cannot be avoided.
Longest(few, total) == total \div (few + 1)

LEMMA FollowingNumber == ASSUME NEW n \in Nat, NEW x \in Nat, n <= x, x <= n + 1 PROVE x = n + 1 \/ x = n
  OBVIOUS

\* The smaller group is at E.
Lies(o, E, few, many, fewIsOpen, total, longest) ==
  /\ o = [k \in 1..total |-> (k \in E) = fewIsOpen]
  /\ IsFiniteSet(E) /\ Cardinality(E) = few
  /\ \A k \in 1..(total - 1) : k \in E => k + 1 \notin E
  /\ few = many => \A k \in 1..(total - 1) : k \notin E => k + 1 \in E
  /\ \A k \in 1..(total - longest) :
       longest >= 1 /\ (k \notin E => \E j \in (k + 1)..(k + longest) : j \in E)

\* How the larger group lies in the gaps of the smaller one: who of the smaller group is
\* where, that no two of them meet, and that they leave no long run between them.
LEMMA DealtFacts ==
  ASSUME NEW few \in Nat, NEW many \in Nat, few <= many, NEW fewIsOpen \in BOOLEAN,
         NEW o \in Dealt(few, many, fewIsOpen),
         NEW total \in Nat, total = few + many, NEW longest \in Nat, longest = Longest(few, total)
  PROVE  \E E \in SUBSET (1..total) : Lies(o, E, few, many, fewIsOpen, total, longest)
<1>1. PICK gaps \in Nat \ {0}, base \in Nat, extra \in Nat :
        /\ gaps = few + 1 /\ base = many \div gaps /\ extra = many % gaps
        /\ many = gaps * base + extra /\ extra <= few
  <2>1. few + 1 \in Nat \ {0}
    OBVIOUS
  <2>2. PICK q \in Nat, r \in 0..((few + 1) - 1) :
          q = many \div (few + 1) /\ r = many % (few + 1) /\ many = (few + 1) * q + r
    BY <2>1, Quotients
  <2>3. r \in Nat /\ r <= few
    BY <2>2
  <2> QED
    BY <2>1, <2>2, <2>3
<1>2. PICK S \in Extra(few + 1, many \div (few + 1), many % (few + 1)) :
        o = [k \in 1..(few + many) |->
               (k \in {g - 1 + SumFunction([h \in 1..g |-> IF h \in S THEN (many \div (few + 1)) + 1
                                                           ELSE many \div (few + 1)]) + 1 : g \in 1..few})
                 = fewIsOpen]
  BY DEF Dealt
<1>3. /\ S \in SUBSET (1..gaps) /\ Cardinality(S) = extra
      /\ base = 0 => S \subseteq 2..few \/ 2..few \subseteq S
  <2>1. gaps - 1 = few
    BY <1>1
  <2>2. S \in Extra(gaps, base, extra)
    BY <1>1, <1>2
  <2> QED
    BY <2>1, <2>2 DEF Extra
<1>4. PICK size \in [1..gaps -> Nat] : \A h \in 1..gaps : size[h] = IF h \in S THEN base + 1 ELSE base
  <2> DEFINE z == [h \in 1..gaps |-> IF h \in S THEN base + 1 ELSE base]
  <2>1. z \in [1..gaps -> Nat]
    OBVIOUS
  <2> QED
    BY <2>1
<1>5. PICK e \in [0..gaps -> Nat] :
        /\ \A g \in 0..gaps : e[g] = g + SumFunctionOnSet(size, 1..g)
        /\ e[0] = 0
        /\ \A g \in 1..gaps : e[g] = e[g - 1] + 1 + size[g]
        /\ \A a, b \in 0..gaps : a < b => e[a] < e[b]
  <2>1. gaps \in Nat
    OBVIOUS
  <2> QED
    BY <2>1, Places
<1>6. /\ e \in [0..gaps -> Nat] /\ e[0] = 0
      /\ \A g \in 1..gaps : e[g] = e[g - 1] + 1 + size[g]
      /\ \A a, b \in 0..gaps : a < b => e[a] < e[b]
  BY <1>5
<1>7. e[gaps] = total + 1
  <2>1. SumFunctionOnSet(size, 1..gaps) = extra + base * gaps
    BY <1>3, <1>4, GapsFill
  <2>2. e[gaps] = gaps + SumFunctionOnSet(size, 1..gaps)
    <3>1. gaps \in 0..gaps
      OBVIOUS
    <3> QED
      BY <1>5, <3>1
  <2>3. base * gaps = gaps * base /\ gaps * base \in Nat
    OBVIOUS
  <2>4. PICK x \in Nat : x = gaps * base
    BY <2>3
  <2>5. many = x + extra /\ gaps = few + 1
    BY <1>1, <2>4
  <2>6. e[gaps] = gaps + (extra + x)
    BY <2>1, <2>2, <2>3, <2>4
  <2>7. gaps + (extra + x) = total + 1
    BY <2>5
  <2> QED
    BY <2>6, <2>7
<1> DEFINE E == {e[g] : g \in 1..few}
<1>8. \A k : k \in {g - 1 + SumFunction([h \in 1..g |-> IF h \in S THEN (many \div (few + 1)) + 1 ELSE many \div (few + 1)]) + 1 : g \in 1..few} <=> k \in E
  <2>1. ASSUME NEW g \in 1..few
        PROVE  g - 1 + SumFunction([h \in 1..g |-> IF h \in S THEN (many \div (few + 1)) + 1 ELSE many \div (few + 1)]) + 1 = e[g]
    <3>1. PICK z : z = [h \in 1..g |-> IF h \in S THEN (many \div (few + 1)) + 1 ELSE many \div (few + 1)]
      OBVIOUS
    <3>2. PICK A : A = 1..g
      OBVIOUS
    <3>3. IsFiniteSet(A)
      <4>1. g \in Int /\ 1 \in Int
        OBVIOUS
      <4> QED
        BY <3>2, <4>1, FS_Interval
    <3>4. \A x \in A : size[x] \in Nat /\ z[x] = size[x]
      <4> SUFFICES ASSUME NEW x \in 1..g PROVE size[x] \in Nat /\ z[x] = size[x]
        BY <3>2
      <4>1. x \in 1..gaps
        BY <1>1
      <4>2. base = many \div (few + 1)
        BY <1>1
      <4> QED
        BY <1>4, <3>1, <4>1, <4>2
    <3>5. SumFunctionOnSet(size, A) = SumFunctionOnSet(z, A) /\ SumFunctionOnSet(size, A) \in Nat
      BY <3>3, <3>4, SameSums, SumRemoves
    <3>6. SumFunction(z) = SumFunctionOnSet(z, A)
      BY <3>1, <3>2 DEF SumFunction
    <3>7. g \in 0..gaps
      BY <1>1
    <3>8. e[g] = g + SumFunctionOnSet(size, A)
      BY <1>5, <3>2, <3>7
    <3> QED
      BY <3>1, <3>5, <3>6, <3>8
  <2> QED
    BY <2>1
<1>9. o = [k \in 1..total |-> (k \in E) = fewIsOpen]
  BY <1>2, <1>8
<1> HIDE DEF E
<1>10. \A k : k \in E <=> \E g \in 1..few : k = e[g]
  BY DEF E
<1>11. ASSUME NEW g \in 1..few
       PROVE  e[g] \in 1..total /\ g \in 0..gaps /\ g \in 1..gaps /\ g - 1 \in 0..gaps
  <2>1. g \in 0..gaps /\ 0 \in 0..gaps /\ gaps \in 0..gaps /\ 0 < g /\ g < gaps /\ g \in 1..gaps /\ g - 1 \in 0..gaps
    BY <1>1
  <2>2. e[0] < e[g] /\ e[g] < e[gaps] /\ e[g] \in Nat
    BY <1>6, <2>1
  <2>3. 0 < e[g] /\ e[g] < total + 1
    BY <1>6, <1>7, <2>2
  <2> QED
    BY <2>1, <2>2, <2>3
<1>12. E \in SUBSET (1..total)
  <2> SUFFICES ASSUME NEW k \in E PROVE k \in 1..total
    OBVIOUS
  <2>1. PICK g \in 1..few : k = e[g]
    BY <1>10
  <2> QED
    BY <1>11, <2>1
<1>13. \A a, b \in 0..gaps : e[a] < e[b] => a < b
  <2> SUFFICES ASSUME NEW a \in 0..gaps, NEW b \in 0..gaps, e[a] < e[b], ~(a < b) PROVE FALSE
    OBVIOUS
  <2>1. b < a \/ b = a
    OBVIOUS
  <2>2. e[a] \in Nat /\ e[b] \in Nat
    BY <1>6
  <2>3. b < a => e[b] < e[a]
    BY <1>6
  <2> QED
    BY <2>1, <2>2, <2>3
<1>14. IsFiniteSet(E) /\ Cardinality(E) = few
  <2>1. PICK p : p = [g \in 1..few |-> e[g]]
    OBVIOUS
  <2>2. p \in [1..few -> E] /\ \A x \in E : \E g \in 1..few : p[g] = x
    BY <1>10, <2>1
  <2>3. \A a, b \in 1..few : p[a] = p[b] => a = b
    <3> SUFFICES ASSUME NEW a \in 1..few, NEW b \in 1..few, e[a] = e[b], a # b PROVE FALSE
      BY <2>1
    <3>1. a \in 0..gaps /\ b \in 0..gaps
      BY <1>11
    <3>2. a < b \/ b < a
      OBVIOUS
    <3>3. e[a] \in Nat /\ e[b] \in Nat
      BY <1>6, <3>1
    <3>4. (a < b => e[a] < e[b]) /\ (b < a => e[b] < e[a])
      BY <1>6, <3>1
    <3> QED
      BY <3>2, <3>3, <3>4
  <2>4. p \in Bijection(1..few, E)
    BY <2>2, <2>3 DEF Bijection, Injection, Surjection, IsInjective
  <2>5. ExistsBijection(1..few, E)
    BY <2>4 DEF ExistsBijection
  <2>6. IsFiniteSet(1..few) /\ Cardinality(1..few) = few
    <3>1. 1 \in Int /\ few \in Int
      OBVIOUS
    <3> QED
      BY <3>1, FS_Interval
  <2> QED
    BY <2>5, <2>6, FS_Bijection
<1>15. ASSUME NEW h \in 1..gaps
       PROVE  /\ size[h] \in Nat /\ base <= size[h] /\ size[h] <= base + 1
              /\ size[h] = base + 1 <=> h \in S
              /\ size[h] = base + 1 => extra >= 1
  <2>1. size[h] = IF h \in S THEN base + 1 ELSE base
    BY <1>4
  <2>2. IsFiniteSet(1..gaps)
    <3>1. 1 \in Int /\ gaps \in Int
      OBVIOUS
    <3> QED
      BY <3>1, FS_Interval
  <2>3. IsFiniteSet(S)
    BY <1>3, <2>2, FS_Subset
  <2>4. h \in S => extra # 0
    BY <1>3, <2>3, FS_EmptySet
  <2> QED
    BY <2>1, <2>4
<1>16. base = 0 => many = few /\ extra = few
  <2> SUFFICES ASSUME base = 0 PROVE many = few /\ extra = few
    OBVIOUS
  <2>1. gaps * base = 0
    OBVIOUS
  <2>2. many = gaps * base + extra /\ extra <= few
    BY <1>1
  <2>3. many = extra
    BY <2>1, <2>2
  <2> QED
    BY <2>2, <2>3
<1>17. ASSUME NEW k \in 1..(total - 1), k \in E PROVE k + 1 \notin E
  <2> SUFFICES ASSUME k + 1 \in E PROVE FALSE
    OBVIOUS
  <2>1. PICK a \in 1..few : k = e[a]
    BY <1>10, <1>17
  <2>2. PICK b \in 1..few : k + 1 = e[b]
    BY <1>10
  <2>3. a \in 0..gaps /\ b \in 0..gaps /\ e[a] \in Nat /\ e[b] \in Nat
    BY <1>6, <1>11
  <2>4. a < b
    BY <1>13, <2>1, <2>2, <2>3
  <2>5. a + 1 \in 2..few /\ a + 1 \in 1..gaps /\ (a + 1) - 1 = a /\ a + 1 \in 0..gaps /\ a + 1 <= b
    BY <1>1, <2>4
  <2>6. e[a + 1] <= e[b]
    <3>1. a + 1 = b \/ a + 1 < b
      BY <2>5
    <3>2. a + 1 < b => e[a + 1] < e[b]
      BY <1>6, <2>3, <2>5
    <3>3. e[a + 1] \in Nat
      BY <1>6, <2>5
    <3>4. PICK y, z \in Nat : y = e[b] /\ z = e[a + 1]
      BY <2>3, <3>3
    <3>5. a + 1 = b => z = y
      BY <3>4
    <3>6. a + 1 < b => z < y
      BY <3>2, <3>4
    <3>7. z <= y
      BY <3>1, <3>5, <3>6
    <3> QED
      BY <3>4, <3>7
  <2>7. e[a + 1] = e[a] + 1 + size[a + 1] /\ size[a + 1] \in Nat
    BY <1>6, <1>15, <2>5
  <2>8. size[a + 1] = 0
    <3>1. PICK x, y, z, w \in Nat : x = e[a] /\ y = e[b] /\ z = e[a + 1] /\ w = size[a + 1]
      BY <1>6, <2>3, <2>5, <2>7
    <3>2. k = x /\ k + 1 = y /\ z <= y /\ z = x + 1 + w
      BY <2>1, <2>2, <2>6, <2>7, <3>1
    <3>3. y = x + 1
      BY <3>2
    <3>4. w = 0
      BY <3>2, <3>3
    <3> QED
      BY <3>1, <3>4
  <2>9. base = 0 /\ a + 1 \notin S
    <3>1. base <= size[a + 1] /\ (size[a + 1] = base + 1 <=> a + 1 \in S)
      BY <1>15, <2>5
    <3>2. base <= 0 /\ (0 = base + 1 <=> a + 1 \in S)
      BY <2>8, <3>1
    <3> QED
      BY <3>2
  <2>10. S \subseteq 2..few
    BY <1>3, <2>5, <2>9
  <2>11. IsFiniteSet(2..few) /\ Cardinality(2..few) = few - 1
    <3>1. 2 \in Int /\ few \in Int /\ ~(2 > few) /\ few - 2 + 1 = few - 1
      BY <2>5
    <3> QED
      BY <3>1, FS_Interval
  <2>12. Cardinality(S) <= few - 1
    <3>1. PICK T : T = 2..few
      OBVIOUS
    <3>2. S \in SUBSET T /\ IsFiniteSet(T)
      BY <2>10, <2>11, <3>1
    <3>3. Cardinality(S) <= Cardinality(T)
      BY <3>2, FS_Subset
    <3> QED
      BY <2>11, <3>1, <3>3
  <2> QED
    BY <1>3, <1>16, <2>9, <2>12
<1>18. ASSUME NEW k \in 1..total, k \notin E
       PROVE  \E g \in 1..gaps : /\ e[g - 1] < k /\ k < e[g] /\ e[g] = e[g - 1] + 1 + size[g]
                                 /\ e[g - 1] \in Nat /\ e[g] \in Nat
                                 /\ e[g] \in E \/ e[g] = total + 1
  <2> DEFINE G == {g \in 0..gaps : k <= e[g]}
  <2>1. G \in SUBSET Nat
    OBVIOUS
  <2>2. gaps \in G
    <3>1. gaps \in 0..gaps /\ k <= total + 1
      OBVIOUS
    <3> QED
      BY <1>7, <3>1
  <2>3. PICK g \in G : \A x \in G : g <= x
    <3> HIDE DEF G
    <3> QED
      BY <2>1, <2>2, LeastNatural
  <2>4. g \in 0..gaps /\ k <= e[g]
    BY <2>3
  <2>5. g # 0
    BY <1>6, <2>4
  <2>6. g \in 1..gaps /\ g - 1 \in 0..gaps /\ g \in 0..gaps /\ ~(g <= g - 1)
    BY <2>4, <2>5
  <2>7. g - 1 \notin G
    BY <2>3, <2>6
  <2>8. ~(k <= e[g - 1])
    BY <2>6, <2>7
  <2>9. e[g - 1] \in Nat /\ e[g] \in Nat /\ e[g] = e[g - 1] + 1 + size[g]
    BY <1>6, <2>6
  <2>10. e[g] \in E \/ e[g] = total + 1
    <3>1. g \in 1..few \/ g = gaps
      BY <1>1, <2>6
    <3> QED
      BY <1>7, <1>10, <3>1
  <2>11. k # e[g]
    BY <1>18, <2>10
  <2>12. e[g - 1] < k /\ k < e[g]
    <3>1. PICK x, y \in Nat : x = e[g - 1] /\ y = e[g]
      BY <2>9
    <3>2. k <= y /\ ~(k <= x) /\ k # y
      BY <2>4, <2>8, <2>11, <3>1
    <3>3. x < k /\ k < y
      BY <3>2
    <3> QED
      BY <3>1, <3>3
  <2> QED
    BY <2>6, <2>9, <2>10, <2>12
<1>19. ASSUME few = many, NEW k \in 1..(total - 1), k \notin E PROVE k + 1 \in E
  <2>1. base = 0
    <3>1. base # 0 => gaps * base >= gaps
      <4>1. base # 0 => 1 <= base /\ 1 \in Nat
        OBVIOUS
      <4>2. base # 0 => gaps * 1 <= gaps * base
        BY <4>1, Products
      <4> QED
        BY <4>2
    <3>2. gaps * base \in Nat
      BY Products
    <3>3. PICK x \in Nat : x = gaps * base
      BY <3>2
    <3>4. few = x + extra /\ gaps = few + 1 /\ (base # 0 => x >= gaps)
      BY <1>1, <1>19, <3>1, <3>3
    <3> QED
      BY <3>4
  <2>2. k \in 1..total
    OBVIOUS
  <2>3. PICK g \in 1..gaps : /\ e[g - 1] < k /\ k < e[g] /\ e[g] = e[g - 1] + 1 + size[g]
                             /\ e[g - 1] \in Nat /\ e[g] \in Nat
                             /\ e[g] \in E \/ e[g] = total + 1
    BY <1>18, <1>19, <2>2
  <2>4. size[g] \in Nat /\ size[g] <= 1
    BY <1>15, <2>1
  <2>5. e[g] = k + 1
    <3>1. PICK x, y, z \in Nat : x = e[g - 1] /\ y = e[g] /\ z = size[g]
      BY <2>3, <2>4
    <3>2. x < k /\ k < y /\ y = x + 1 + z /\ z <= 1
      BY <2>3, <2>4, <3>1
    <3>3. y = k + 1
      BY <3>2
    <3> QED
      BY <3>1, <3>3
  <2>6. k + 1 # total + 1
    OBVIOUS
  <2> QED
    BY <2>3, <2>5, <2>6
<1>20. longest \in Nat /\ (total >= 1 => longest >= 1) /\ \A h \in 1..gaps : size[h] <= longest
  <2>2. PICK q \in Nat, r \in 0..(gaps - 1) : q = total \div gaps /\ r = total % gaps /\ total = gaps * q + r
    BY Quotients
  <2>3. q = longest /\ r <= few /\ r \in Nat
    <3>1. gaps = few + 1
      BY <1>1
    <3>2. q = longest
      BY <2>2, <3>1 DEF Longest
    <3>3. r <= few /\ r \in Nat
      BY <3>1
    <3> QED
      BY <3>2, <3>3
  <2>4. gaps * q \in Nat /\ gaps * base \in Nat /\ gaps * (base + 1) = gaps * base + gaps
    BY Products
  <2>9. PICK x, y \in Nat : x = gaps * q /\ y = gaps * base
    BY <2>4
  <2>10. few + y + extra = x + r /\ gaps = few + 1 /\ r <= few /\ r \in Nat
    <3>1. total = few + (y + extra)
      BY <1>1, <2>9
    <3>2. total = x + r
      BY <2>2, <2>9
    <3>3. gaps = few + 1 /\ r <= few /\ r \in Nat
      BY <1>1, <2>3
    <3> QED
      BY <3>1, <3>2, <3>3
  <2>5. ~(q < base)
    <3> SUFFICES ASSUME q < base PROVE FALSE
      OBVIOUS
    <3>1. gaps * q + gaps <= gaps * base
      BY Products
    <3> QED
      BY <2>9, <2>10, <3>1
  <2>6. extra >= 1 => ~(q < base + 1)
    <3> SUFFICES ASSUME extra >= 1, q < base + 1 PROVE FALSE
      OBVIOUS
    <3>1. q <= base
      OBVIOUS
    <3>2. gaps * q <= gaps * base
      BY <3>1, Products
    <3> QED
      BY <2>9, <2>10, <3>2
  <2>7. \A h \in 1..gaps : size[h] <= q
    <3> SUFFICES ASSUME NEW h \in 1..gaps PROVE size[h] <= q
      OBVIOUS
    <3>1. /\ size[h] \in Nat /\ base <= size[h] /\ size[h] <= base + 1
          /\ size[h] = base + 1 => extra >= 1
      BY <1>15
    <3>2. PICK z \in Nat : z = size[h]
      BY <3>1
    <3>3. base <= z /\ z <= base + 1 /\ (z = base + 1 => q >= base + 1) /\ base <= q
      BY <2>5, <2>6, <3>1, <3>2
    <3>4. z = base + 1 \/ z = base
      <4>1. base <= z /\ z <= base + 1
        BY <3>3
      <4> QED
        BY <4>1, FollowingNumber
    <3>5. z <= q
      <4>1. CASE z = base + 1
        BY <3>3, <4>1
      <4>2. CASE z = base
        BY <3>3, <4>2
      <4> QED
        BY <3>4, <4>1, <4>2
    <3> QED
      BY <3>2, <3>5
  <2>8. total >= 1 => q >= 1
    <3>1. total >= 1 => base >= 1 \/ extra >= 1
      BY <1>16
    <3> QED
      BY <2>5, <2>6, <3>1
  <2> QED
    BY <2>3, <2>7, <2>8
<1>21. ASSUME NEW k \in 1..(total - longest)
       PROVE  longest >= 1 /\ (k \notin E => \E j \in (k + 1)..(k + longest) : j \in E)
  <2>1. k \in 1..total /\ total >= 1 /\ k + longest <= total
    BY <1>20
  <2>2. ASSUME k \notin E PROVE \E j \in (k + 1)..(k + longest) : j \in E
    <3>1. PICK g \in 1..gaps : /\ e[g - 1] < k /\ k < e[g] /\ e[g] = e[g - 1] + 1 + size[g]
                               /\ e[g - 1] \in Nat /\ e[g] \in Nat
                               /\ e[g] \in E \/ e[g] = total + 1
      BY <1>18, <2>1, <2>2
    <3>2. size[g] \in Nat /\ size[g] <= longest
      BY <1>15, <1>20
    <3>3. e[g] \in (k + 1)..(k + longest)
      <4>1. PICK x, y, z \in Nat, l \in Nat : x = e[g - 1] /\ y = e[g] /\ z = size[g] /\ l = longest
        BY <1>20, <3>1, <3>2
      <4>2. x < k /\ k < y /\ y = x + 1 + z /\ z <= l
        BY <3>1, <3>2, <4>1
      <4>3. y \in (k + 1)..(k + l)
        BY <4>2
      <4> QED
        BY <4>1, <4>3
    <3>4. e[g] # total + 1
      BY <1>20, <2>1, <3>3
    <3> QED
      BY <3>1, <3>3, <3>4
  <2> QED
    BY <1>20, <2>1, <2>2
<1>22. /\ few = many => \A k \in 1..(total - 1) : k \notin E => k + 1 \in E
       /\ \A k \in 1..(total - 1) : k \in E => k + 1 \notin E
       /\ \A k \in 1..(total - longest) : longest >= 1 /\ (k \notin E => \E j \in (k + 1)..(k + longest) : j \in E)
  BY <1>17, <1>19, <1>21
<1> WITNESS E \in SUBSET (1..total)
<1> QED
  BY <1>9, <1>14, <1>22 DEF Lies

\* The paper o, TRUE where a question is open, drops nothing and is spread.
Spreads(o, few, many, fewIsOpen, total, longest) ==
  /\ Len(o) = total
  /\ Cardinality({k \in 1..total : o[k]}) = IF fewIsOpen THEN few ELSE many
  /\ \A k \in 1..(total - 1) : o[k] = o[k + 1] => few < many /\ (o[k] <=> ~fewIsOpen)
  /\ \A k \in 1..(total - longest) : \E j \in (k + 1)..(k + longest) : o[j] # o[k]

LEMMA PaperSpread ==
  ASSUME NEW few \in Nat, NEW many \in Nat, few <= many, NEW fewIsOpen \in BOOLEAN,
         NEW o \in Dealt(few, many, fewIsOpen),
         NEW total \in Nat, total = few + many, NEW longest \in Nat, longest = Longest(few, total)
  PROVE  Spreads(o, few, many, fewIsOpen, total, longest)
<1>1. PICK E \in SUBSET (1..total) : Lies(o, E, few, many, fewIsOpen, total, longest)
  BY DealtFacts
<1>2. o = [k \in 1..total |-> (k \in E) = fewIsOpen]
  BY <1>1 DEF Lies
<1>3. /\ IsFiniteSet(E) /\ Cardinality(E) = few
      /\ \A k \in 1..(total - 1) : k \in E => k + 1 \notin E
      /\ few = many => \A k \in 1..(total - 1) : k \notin E => k + 1 \in E
      /\ \A k \in 1..(total - longest) :
           longest >= 1 /\ (k \notin E => \E j \in (k + 1)..(k + longest) : j \in E)
  BY <1>1 DEF Lies
<1>4. \A k \in 1..total : o[k] \in BOOLEAN /\ (o[k] <=> (k \in E <=> fewIsOpen))
  <2> SUFFICES ASSUME NEW k \in 1..total
               PROVE  o[k] \in BOOLEAN /\ (o[k] <=> (k \in E <=> fewIsOpen))
    OBVIOUS
  <2>1. o[k] = ((k \in E) = fewIsOpen)
    BY <1>2
  <2>2. o[k] = (k \in E <=> fewIsOpen)
    BY ONLY <2>1, fewIsOpen \in BOOLEAN
  <2> QED
    BY ONLY <2>2
<1>5. Len(o) = total
  <2>1. o \in [1..total -> BOOLEAN]
    BY <1>2
  <2>2. o \in Seq(BOOLEAN)
    BY <2>1
  <2> QED
    BY <2>1, <2>2
<1>6. Cardinality({k \in 1..total : o[k]}) = IF fewIsOpen THEN few ELSE many
  <2>1. IsFiniteSet(1..total) /\ Cardinality(1..total) = total
    <3>1. 1 \in Int /\ total \in Int
      OBVIOUS
    <3> QED
      BY <3>1, FS_Interval
  <2>2. CASE fewIsOpen
    <3>1. {k \in 1..total : o[k]} = E
      BY <1>4, <2>2
    <3> QED
      BY <1>3, <2>2, <3>1
  <2>3. CASE ~fewIsOpen
    <3>1. {k \in 1..total : o[k]} = (1..total) \ E
      BY <1>4, <2>3
    <3>2. (1..total) \cap E = E
      OBVIOUS
    <3>3. Cardinality((1..total) \ E) = total - few
      <4>1. PICK T : T = 1..total
        OBVIOUS
      <4>2. IsFiniteSet(T) /\ Cardinality(T) = total /\ T \cap E = E
        BY <2>1, <3>2, <4>1
      <4>3. Cardinality(T \ E) = Cardinality(T) - Cardinality(T \cap E)
        BY <4>2, FS_Difference
      <4>4. Cardinality(T \ E) = total - few
        BY <1>3, <4>2, <4>3
      <4> QED
        BY <4>1, <4>4
    <3>4. total - few = many
      OBVIOUS
    <3> QED
      BY <2>3, <3>1, <3>3, <3>4
  <2> QED
    BY <2>2, <2>3
<1>7. ASSUME NEW k \in 1..(total - 1), o[k] = o[k + 1] PROVE few < many /\ (o[k] <=> ~fewIsOpen)
  <2>1. k \in 1..total /\ k + 1 \in 1..total
    OBVIOUS
  <2>2. o[k] \in BOOLEAN /\ (o[k] <=> (k \in E <=> fewIsOpen)) /\ (o[k + 1] <=> (k + 1 \in E <=> fewIsOpen))
    BY <1>4, <2>1
  <2>3. k \in E <=> k + 1 \in E
    BY <1>7, <2>2
  <2>4. k \notin E /\ k + 1 \notin E
    BY <1>3, <2>3
  <2>5. few # many
    BY <1>3, <2>4
  <2> QED
    BY <2>2, <2>4, <2>5
<1>8. ASSUME NEW k \in 1..(total - longest) PROVE \E j \in (k + 1)..(k + longest) : o[j] # o[k]
  <2>1. longest >= 1 /\ k \in 1..total /\ k \in 1..(total - 1) /\ k + longest <= total
    <3>1. longest >= 1
      BY <1>3
    <3> QED
      BY <3>1
  <2>2. \A j \in (k + 1)..(k + longest) : j \in 1..total
    BY <2>1
  <2>3. PICK j \in (k + 1)..(k + longest) : ~(k \in E <=> j \in E)
    <3>1. CASE k \in E
      <4>1. k + 1 \notin E
        BY <1>3, <2>1, <3>1
      <4>2. k + 1 \in (k + 1)..(k + longest)
        BY <2>1
      <4> QED
        BY <3>1, <4>1, <4>2
    <3>2. CASE k \notin E
      BY <1>3, <3>2
    <3> QED
      BY <3>1, <3>2
  <2>4. j \in 1..total
    BY <2>2
  <2>5. (o[k] <=> (k \in E <=> fewIsOpen)) /\ (o[j] <=> (j \in E <=> fewIsOpen))
    BY <1>4, <2>1, <2>4
  <2>6. o[j] # o[k]
    BY <2>3, <2>5
  <2> QED
    BY <2>6
<1> QED
  BY <1>5, <1>6, <1>7, <1>8 DEF Spreads

\* What is to be arranged is counted, and the paper is one of those the arrangement may give.
SpreadInv ==
  /\ DrawInv
  /\ stage \in {"arrange", "done"} => mix.open \in Nat /\ mix.other \in Nat
  /\ stage = "done" =>
       \/ mix.open <= mix.other /\ order \in Dealt(mix.open, mix.other, TRUE)
       \/ ~(mix.open <= mix.other) /\ order \in Dealt(mix.other, mix.open, FALSE)

LEMMA DrawnAreCounted ==
  ASSUME DrawInv, Draw PROVE mix'.open \in Nat /\ mix'.other \in Nat
<1>1. quota \in [Comps -> Nat] /\ orals \in [Comps -> Nat]
  BY DEF Draw, DrawInv
<1>2. PICK open \in Parts([c \in Comps |-> Lesser(quota[c], bank[c].open)]) :
           mix' = [open |-> Total(open) + Total(orals), other |-> Total(quota) - Total(open)]
  BY DEF Draw, Total
<1>3. bank \in Banks
  BY DEF Draw, DrawInv, Capped
<1>4. PICK most \in [Comps -> Nat] : most = [c \in Comps |-> Lesser(quota[c], bank[c].open)]
  <2>1. \A c \in Comps : quota[c] \in Nat /\ bank[c].open \in Nat
    BY <1>1, <1>3, DrawingAssumption
  <2> QED
    BY <2>1 DEF Lesser
<1>5. open \in [Comps -> Nat] /\ \A c \in Comps : open[c] <= quota[c]
  <2>1. open \in [Comps -> Nat] /\ \A c \in Comps : open[c] <= most[c]
    BY <1>2, <1>4, PartsAre
  <2>2. \A c \in Comps : quota[c] \in Nat /\ bank[c].open \in Nat /\ most[c] <= quota[c]
    BY <1>1, <1>3, <1>4, DrawingAssumption DEF Lesser
  <2> QED
    BY <1>1, <2>1, <2>2
<1>6. Total(open) \in Nat /\ Total(orals) \in Nat /\ Total(quota) \in Nat /\ Total(open) <= Total(quota)
  BY <1>1, <1>5, Totals, TotalsCompare
<1>7. Total(open) + Total(orals) \in Nat /\ Total(quota) - Total(open) \in Nat
  BY <1>6
<1> QED
  BY <1>2, <1>7

LEMMA ModulesAreCounted ==
  ASSUME DrawInv, DrawModules, stage' = "arrange" PROVE mix'.open \in Nat /\ mix'.other \in Nat
<1> DEFINE b == [m \in Comps |-> Allocatable(bank[m])]
<1>1. bank \in Supplies
  BY DEF DrawModules, DrawInv
<1>2. PICK objective, open : /\ objective = [m \in Comps |-> DrawnObjective(m, b[m])]
                             /\ open = [m \in Comps |-> DrawnOpen(m, b[m])]
                             /\ mix' = [open |-> SumFunction(open), other |-> SumFunction(objective)]
  BY DEF DrawModules
<1>3. ASSUME NEW m \in Comps PROVE DrawnObjective(m, b[m]) \in Nat /\ DrawnOpen(m, b[m]) \in Nat
  <2>1. PICK s \in [choice : Nat, sameChoice : Nat, bare : Nat, open : Nat, sameOpen : Nat,
               spareChoice : Nat, spareOpen : Nat, live : BOOLEAN] :
          s = bank[m]
    BY <1>1, DrawingAssumption
  <2>2. b[m] = Allocatable(s)
    BY <2>1
  <2>3. /\ b[m].choice \in Nat /\ b[m].sameChoice = 0 /\ b[m].spareChoice = 0
        /\ b[m].open \in Nat /\ b[m].sameOpen = 0 /\ b[m].spareOpen = 0
    BY <2>2 DEF Allocatable
  <2> HIDE DEF b
  <2>4. ObjectiveQuota(m) \in Nat /\ OpenQuota(m) \in Nat
    BY QuotasAreNumbers
  <2> QED
    BY <2>3, <2>4 DEF DrawnObjective, DrawnOpen, Objective, Open, Drawn, Lesser
<1> HIDE DEF b
<1>4. objective \in [Comps -> Nat] /\ open \in [Comps -> Nat]
  BY <1>2, <1>3
<1>5. Total(objective) \in Nat /\ Total(open) \in Nat
  BY <1>4, Totals
<1> QED
  BY <1>2, <1>5 DEF Total

LEMMA SpreadInvStep == SpreadInv /\ [DrawingNext]_drawingVars => SpreadInv'
<1> SUFFICES ASSUME SpreadInv, [DrawingNext]_drawingVars PROVE SpreadInv'
  OBVIOUS
<1>1. DrawInv'
  BY DrawInvStep DEF SpreadInv
<1>2. CASE Draw
  <2>1. mix'.open \in Nat /\ mix'.other \in Nat
    BY <1>2, DrawnAreCounted DEF SpreadInv
  <2>2. stage' = "arrange"
    BY <1>2 DEF Draw
  <2> QED
    BY <1>1, <2>1, <2>2 DEF SpreadInv
<1>3. CASE DrawModules
  <2>1. stage' \in {"refused", "arrange"}
    BY <1>3 DEF DrawModules
  <2> QED
    BY <1>1, <1>3, <2>1, ModulesAreCounted DEF SpreadInv
<1>4. CASE Arrange
  <2>1. /\ stage = "arrange" /\ UNCHANGED mix
        /\ order' \in IF mix.open <= mix.other THEN Dealt(mix.open, mix.other, TRUE)
                      ELSE Dealt(mix.other, mix.open, FALSE)
    BY <1>4 DEF Arrange
  <2>2. CASE mix.open <= mix.other
    <3>1. order' \in Dealt(mix.open, mix.other, TRUE)
      BY <2>1, <2>2
    <3> QED
      BY <1>1, <2>1, <2>2, <3>1 DEF SpreadInv
  <2>3. CASE ~(mix.open <= mix.other)
    <3>1. order' \in Dealt(mix.other, mix.open, FALSE)
      BY <2>1, <2>3
    <3> QED
      BY <1>1, <2>1, <2>3, <3>1 DEF SpreadInv
  <2> QED
    BY <2>2, <2>3
<1>5. CASE Reserve \/ TakeAll \/ SeatEach \/ Share \/ Apportioned
  <2>1. stage' \notin {"arrange", "done"}
    BY <1>5 DEF Reserve, TakeAll, SeatEach, Share, Apportioned
  <2> QED
    BY <1>1, <2>1 DEF SpreadInv
<1>6. CASE UNCHANGED drawingVars
  <2>1. UNCHANGED <<stage, mix, order>>
    BY <1>6 DEF drawingVars
  <2> QED
    BY <1>1, <2>1 DEF SpreadInv
<1> QED
  BY <1>2, <1>3, <1>4, <1>5, <1>6 DEF DrawingNext

LEMMA LongestIsNumber ==
  ASSUME NEW few \in Nat, NEW many \in Nat
  PROVE  \E total, longest \in Nat : total = few + many /\ longest = Longest(few, total)
<1>1. few + 1 \in Nat \ {0} /\ few + many \in Nat
  OBVIOUS
<1>2. PICK q \in Nat, r \in 0..((few + 1) - 1) :
        q = (few + many) \div (few + 1) /\ r = (few + many) % (few + 1) /\ few + many = (few + 1) * q + r
  BY <1>1, Quotients
<1> QED
  BY <1>1, <1>2 DEF Longest

\* However many questions of either group there are, the smaller one is spread: it never
\* meets itself, the larger one never runs longer than it has to, and nothing is lost.
THEOREM Spread == DrawingSpec => []OpenSpread
<1>1. DrawingInit => SpreadInv
  BY DEF DrawingInit, SpreadInv, DrawInv, Capped, WeightsDecide
<1>2. SpreadInv => OpenSpread
  <2> SUFFICES ASSUME SpreadInv, stage = "done" PROVE OpenSpread
    BY DEF OpenSpread
  <2>1. PICK m, n \in Nat : m = mix.open /\ n = mix.other
    BY DEF SpreadInv
  <2>2. CASE m <= n
    <3>1. order \in Dealt(m, n, TRUE) /\ Lesser(m, n) = m
      <4>1. Lesser(m, n) = m
        BY <2>2 DEF Lesser
      <4>2. order \in Dealt(mix.open, mix.other, TRUE)
        BY <2>1, <2>2 DEF SpreadInv
      <4> QED
        BY <2>1, <4>1, <4>2
    <3>2. PICK total \in Nat, longest \in Nat : total = m + n /\ longest = Longest(m, total)
      BY LongestIsNumber
    <3>3. Spreads(order, m, n, TRUE, total, longest)
      BY <2>2, <3>1, <3>2, PaperSpread
    <3> QED
      BY <2>1, <2>2, <3>1, <3>2, <3>3 DEF OpenSpread, Longest, Spreads
  <2>3. CASE ~(m <= n)
    <3>1. order \in Dealt(n, m, FALSE) /\ Lesser(m, n) = n /\ n <= m
      <4>1. Lesser(m, n) = n /\ n <= m
        BY <2>3 DEF Lesser
      <4>2. order \in Dealt(mix.other, mix.open, FALSE)
        BY <2>1, <2>3 DEF SpreadInv
      <4> QED
        BY <2>1, <4>1, <4>2
    <3>2. PICK total \in Nat, longest \in Nat : total = n + m /\ longest = Longest(n, total)
      BY LongestIsNumber
    <3>3. Spreads(order, n, m, FALSE, total, longest)
      BY <3>1, <3>2, PaperSpread
    <3>4. total = m + n
      BY <3>2
    <3> QED
      BY <2>1, <2>3, <3>1, <3>2, <3>3, <3>4 DEF OpenSpread, Longest, Spreads
  <2> QED
    BY <2>2, <2>3
<1> QED
  BY <1>1, <1>2, SpreadInvStep, PTL DEF DrawingSpec

=============================================================================
