----------------------------- MODULE QuestionBank -----------------------------
(***************************************************************************)
(* The questions administrators add to a published bank, and the published *)
(* questions they take out of circulation                                  *)
(* (api/handlers/admin/question-bank.mjs, api/bank-service.mjs,            *)
(* core/question-intake.mjs).                                              *)
(*                                                                         *)
(* Saving, editing and the writing of an import wait for each other in one *)
(* instance (withLock of the bank); the reading of an import and every     *)
(* deletion wait for nobody.  One module of one bank; a question is told   *)
(* by its prompt.                                                          *)
(***************************************************************************)
EXTENDS Naturals, Sequences, FiniteSets, FiniteSetsExt, SequencesExt

CONSTANTS
  Prompts,     \* prompts as they are compared (promptKey)
  Printed,     \* the prompt of the one published question
  Files,       \* the files that may be imported: sequences of prompts
  Authors,     \* requests under way at a time
  MaxIds       \* bound: numbers of the added questions

ASSUME BankAssumption ==
  /\ Printed \in Prompts /\ Files \subseteq Seq(Prompts) /\ MaxIds \in Nat

VARIABLES
  added,     \* added[n]: the prompt of the added question with number n
  removals,  \* the override rows that hide the published question
  author,    \* author[d]: what request d is doing
  twinned,   \* history: prompts an import added though they had come meanwhile
  shown      \* history: nobody has been hiding the question since the last restoration began

bankVars == <<added, removals, author, twinned, shown>>

Resting == [step |-> "idle"]

BankInit ==
  /\ added = [n \in {} |-> Printed]
  /\ removals = {}
  /\ author = [d \in Authors |-> Resting]
  /\ twinned = {} /\ shown = TRUE

Is(d, step) == author[d].step = step
Go(d, r) == author' = [author EXCEPT ![d] = r]
Told == UNCHANGED <<twinned, shown>>

\* The lock of the bank.
BankFree(d) ==
  \A x \in Authors \ {d} :
    author[x].step \notin {"number", "insert", "judge", "update", "unhide", "hideLocked"}

\* effectiveBank: the published question is there whether hidden or not.
InBank == {Printed} \cup {added[n] : n \in DOMAIN added}

\* nextAuthoredId: one more than the highest number there is.
NextNumber == Max({0} \cup DOMAIN added) + 1

----------------------------------------------------------------------------
(* Saving one question *)

\* The prompt is looked for under the lock.
SaveQuestion(d, p) ==
  /\ Is(d, "idle") /\ BankFree(d)
  /\ p \notin InBank
  /\ Go(d, [step |-> "number", prompts |-> <<p>>, import |-> FALSE])
  /\ UNCHANGED <<added, removals>> /\ Told

----------------------------------------------------------------------------
(* Importing a file *)

\* Faulty variant of Accepted: rows are compared with the bank only.
FaultyAccepted(file) == SelectSeq(file, LAMBDA p : p \notin InBank)

\* A row whose prompt neither the bank nor an earlier row has.
Fresh(file) == {k \in DOMAIN file : file[k] \notin InBank /\ \A j \in 1..(k - 1) : file[j] # file[k]}

\* validateBatch: the fresh rows, in the order of the file.
Accepted(file) ==
  LET fresh == Fresh(file)
      place(k) == Cardinality({j \in fresh : j <= k})
  IN [i \in 1..Cardinality(fresh) |-> file[CHOOSE k \in fresh : place(k) = i]]

\* The bank is read, and the file judged, before the lock is asked for.
ReadFile(d, file) ==
  /\ Is(d, "idle")
  /\ Go(d, [step |-> "wait", prompts |-> Accepted(file), import |-> TRUE])
  /\ UNCHANGED <<added, removals>> /\ Told

TakeBank(d) ==
  /\ Is(d, "wait") /\ BankFree(d)
  /\ Go(d, [author[d] EXCEPT !.step = "number"])
  /\ UNCHANGED <<added, removals>> /\ Told

\* The rows there are give the numbers of the new ones.
NumberRows(d) ==
  /\ Is(d, "number")
  /\ Go(d, [step |-> "insert", prompts |-> author[d].prompts, import |-> author[d].import,
            first |-> NextNumber])
  /\ UNCHANGED <<added, removals>> /\ Told

\* A number that is in use refuses the whole batch.
InsertRows(d) ==
  LET r == author[d]
      new == r.first..(r.first + Len(r.prompts) - 1)
      prompts == ToSet(r.prompts)
  IN
  /\ Is(d, "insert") /\ r.first + Len(r.prompts) - 1 <= MaxIds
  /\ IF new \cap DOMAIN added # {} THEN UNCHANGED <<added, twinned>>
     ELSE /\ added' = [n \in DOMAIN added \cup new |->
                         IF n \in new THEN r.prompts[n - r.first + 1] ELSE added[n]]
          /\ twinned' = IF r.import THEN twinned \cup (prompts \cap InBank) ELSE twinned
  /\ Go(d, Resting)
  /\ UNCHANGED <<removals, shown>>

----------------------------------------------------------------------------
(* Editing a question *)

\* The row is found and judged under the lock; it may be gone when it is written, which
\* is answered with an error.
EditQuestion(d, n, p) ==
  /\ Is(d, "idle") /\ BankFree(d) /\ n \in DOMAIN added
  /\ Go(d, [step |-> "judge", number |-> n, prompt |-> p])
  /\ UNCHANGED <<added, removals>> /\ Told

\* Faulty variant of Clashes: an edit is compared with the published question only.
FaultyClashes(r) == r.prompt = Printed

Clashes(r) == r.prompt = Printed \/ \E n \in DOMAIN added \ {r.number} : added[n] = r.prompt

JudgeEdit(d) ==
  /\ Is(d, "judge")
  /\ Go(d, IF Clashes(author[d]) THEN Resting ELSE [author[d] EXCEPT !.step = "update"])
  /\ UNCHANGED <<added, removals>> /\ Told

UpdateQuestion(d) ==
  LET r == author[d] IN
  /\ Is(d, "update")
  /\ added' = IF r.number \in DOMAIN added THEN [added EXCEPT ![r.number] = r.prompt] ELSE added
  /\ Go(d, Resting)
  /\ UNCHANGED removals /\ Told

----------------------------------------------------------------------------
(* Deleting a question *)

FindQuestion(d, n) ==
  /\ Is(d, "idle") /\ n \in DOMAIN added
  /\ Go(d, [step |-> "remove", number |-> n])
  /\ UNCHANGED <<added, removals>> /\ Told

\* Whatever question has the number by now.
RemoveQuestion(d) ==
  /\ Is(d, "remove")
  /\ added' = [n \in DOMAIN added \ {author[d].number} |-> added[n]]
  /\ Go(d, Resting)
  /\ UNCHANGED removals /\ Told

----------------------------------------------------------------------------
(* Hiding and restoring the published question (setPublishedVisibility) *)

\* DELETE takes no lock, PATCH takes that of the bank.
StartHiding(d, locked) ==
  /\ Is(d, "idle") /\ (locked => BankFree(d))
  /\ shown' = FALSE
  /\ Go(d, IF removals # {} THEN Resting ELSE [step |-> IF locked THEN "hideLocked" ELSE "hide"])
  /\ UNCHANGED <<added, removals, twinned>>

\* Two that found no row insert one each.
HidePublished(d) ==
  /\ author[d].step \in {"hide", "hideLocked"}
  /\ removals' = removals \cup {CHOOSE k \in 1..(Cardinality(Authors) + 1) : k \notin removals}
  /\ Go(d, Resting)
  /\ UNCHANGED added /\ Told

\* Faulty variant of AllRemovals: one row is expected.
FaultyAllRemovals == {CHOOSE k \in removals : TRUE}

AllRemovals == removals

StartRestoring(d) ==
  /\ Is(d, "idle") /\ BankFree(d) /\ removals # {}
  /\ Go(d, [step |-> "unhide", rows |-> AllRemovals])
  /\ shown' = \A x \in Authors : author[x].step \notin {"hide", "hideLocked"}
  /\ UNCHANGED <<added, removals, twinned>>

RestorePublished(d) ==
  /\ Is(d, "unhide")
  /\ removals' = removals \ author[d].rows
  /\ Go(d, Resting)
  /\ UNCHANGED added /\ Told

AuthorFails(d) ==
  /\ ~Is(d, "idle")
  /\ Go(d, Resting)
  /\ shown' = (shown /\ ~Is(d, "unhide"))
  /\ UNCHANGED <<added, removals, twinned>>

BankNext ==
  \E d \in Authors :
    \/ \E p \in Prompts : SaveQuestion(d, p)
    \/ \E f \in Files : ReadFile(d, f)
    \/ TakeBank(d) \/ NumberRows(d) \/ InsertRows(d)
    \/ \E n \in DOMAIN added, p \in Prompts : EditQuestion(d, n, p)
    \/ JudgeEdit(d) \/ UpdateQuestion(d)
    \/ \E n \in DOMAIN added : FindQuestion(d, n)
    \/ RemoveQuestion(d)
    \/ \E locked \in BOOLEAN : StartHiding(d, locked)
    \/ HidePublished(d) \/ StartRestoring(d) \/ RestorePublished(d)
    \/ AuthorFails(d)

BankSpec == BankInit /\ [][BankNext]_bankVars

----------------------------------------------------------------------------
(* Properties *)

\* No two questions of the bank ask the same, unless an import put one in that had been
\* judged before the other came (question-bank.mjs:139-144, question-intake.mjs:390-392).
TwinsOnlyByImport ==
  \A p \in Prompts \ twinned :
    Cardinality({n \in DOMAIN added : added[n] = p}) + (IF p = Printed THEN 1 ELSE 0) <= 1

\* A published question that was restored is in circulation until somebody hides it again,
\* however many had hidden it (shared.mjs:220-255).
RestoredIsShown == shown /\ (\A d \in Authors : ~Is(d, "unhide")) => removals = {}

=============================================================================
