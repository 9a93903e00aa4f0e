------------------------------ MODULE Retention ------------------------------
(***************************************************************************)
(* How long the raw material of a finished paper is kept                   *)
(* (src/core/retention.mjs, src/api/retention-service.mjs, the recording   *)
(* deletion of handlers/assessor.mjs).  A sweep takes the papers whose     *)
(* time has passed: it clears their answers, drops their recordings and    *)
(* marks the paper last; an assessor may drop one recording.  Both hold    *)
(* the lock of the paper, which binds the requests of one instance.        *)
(*                                                                         *)
(* One paper is followed; an answer is what can be told apart of it: some  *)
(* content, a reference to a recording, and the note of what was removed.  *)
(***************************************************************************)
EXTENDS Naturals, Sequences

CONSTANTS
  Questions,      \* the questions of the paper
  OpenQuestions,  \* those answered in words, which may be spoken
  Policies,       \* the policies an administrator sets
  Sweeps,         \* cleanups under way at a time
  Deletions,      \* requests to delete one recording
  ProcessOf,      \* ProcessOf[j]: the instance that runs sweep or deletion j
  MaxDay          \* bound: days that pass

Jobs == Sweeps \cup Deletions

ASSUME RetentionAssumption ==
  /\ OpenQuestions \subseteq Questions
  /\ Policies \subseteq [days: Nat, scope: {"all", "open"}, sheets: BOOLEAN, clips: BOOLEAN]
  /\ Sweeps \cap Deletions = {} /\ DOMAIN ProcessOf = Jobs
  /\ MaxDay \in Nat

VARIABLES
  policy,      \* the retention row of the settings table
  day,         \* the clock
  paper,       \* status, scored_at and retention_json of the assessment
  answer,      \* answer[q]: the answer in the response row of q
  clip,        \* the questions with a row in recordings
  job,         \* job[j]: what sweep or deletion j is doing
  cleared      \* history: the questions whose content was removed

retentionVars == <<policy, day, paper, answer, clip, job, cleared>>

Unpurged == [by |-> "nobody"]
IdleJob == [step |-> "idle"]

RetentionInit ==
  /\ policy \in Policies /\ day = 0
  /\ paper = [status |-> "submitted", scored |-> 0, purged |-> Unpurged]
  /\ clip \in SUBSET OpenQuestions
  /\ answer = [q \in Questions |-> [content |-> TRUE, ref |-> q \in clip, note |-> {}]]
  /\ job = [j \in Jobs |-> IdleJob]
  /\ cleared = {}

At(j, step) == job[j].step = step
Does(j, r) == job' = [job EXCEPT ![j] = r]

\* The lock of the paper: what holds it is past its first read.
Holding(j) == job[j].step \notin {"idle", "due"}
PaperFree(j) == \A k \in Jobs \ {j} : ProcessOf[k] = ProcessOf[j] => ~Holding(k)

----------------------------------------------------------------------------
(* The rules *)

Disabled(p) == ~p.sheets /\ ~p.clips

\* isDueForPurge: the report exists, its time has passed and it was not cleaned yet.
IsDue(a, p, now) ==
  /\ ~Disabled(p)
  /\ a.purged = Unpurged
  /\ a.status = "scored" /\ a.scored + p.days <= now

HasContent(a) == a.content \/ a.ref

\* What purgeAnswer takes of the answer a to question q under policy p.
DropsClip(a, p) == p.clips /\ a.ref
DropsSheet(q, a, p) == p.sheets /\ (p.scope = "all" \/ q \in OpenQuestions) /\ HasContent(a)

\* The answer that is left.  A recording that is kept stays referenced; the note of
\* an answer that only loses its recording replaces the note it had.
PurgedAnswer(q, a, p) ==
  IF DropsSheet(q, a, p)
  THEN [content |-> FALSE, ref |-> a.ref /\ ~DropsClip(a, p),
        note |-> {"sheet"} \cup (IF DropsClip(a, p) THEN {"recording"} ELSE a.note \cap {"recording"})]
  ELSE IF DropsClip(a, p) THEN [a EXCEPT !.ref = FALSE, !.note = {"recording"}] ELSE a

----------------------------------------------------------------------------
(* What goes on around *)

DayPasses ==
  /\ day < MaxDay /\ day' = day + 1
  /\ UNCHANGED <<policy, paper, answer, clip, job, cleared>>

\* PUT /admin/settings/retention.
SavePolicy(p) ==
  /\ policy' = p
  /\ UNCHANGED <<day, paper, answer, clip, job, cleared>>

\* The report is generated, under the lock of the paper.
FinalizePaper ==
  /\ paper.status = "submitted" /\ \A j \in Jobs : ~Holding(j)
  /\ paper' = [paper EXCEPT !.status = "scored", !.scored = day]
  /\ UNCHANGED <<policy, day, answer, clip, job, cleared>>

----------------------------------------------------------------------------
(* runRetentionSweep and purgeAssessment *)

\* Faulty variant of WriteOrder: the paper is marked before its recordings are removed.
FaultyWriteOrder == <<"answers", "mark", "clips">>

\* The paper is marked last, so that a sweep that stops is done again.
WriteOrder == <<"answers", "clips", "mark">>

\* What job j does after the given write.
AfterWrite(j, step) ==
  LET n == CHOOSE k \in DOMAIN WriteOrder : WriteOrder[k] = step
  IN IF n = Len(WriteOrder) THEN IdleJob ELSE [job[j] EXCEPT !.step = WriteOrder[n + 1]]

\* The policy is read once; a policy that cannot be read, or that deletes nothing,
\* ends the sweep.  The listing shows the paper as due.
StartSweep(s) ==
  /\ At(s, "idle") /\ IsDue(paper, policy, day)
  /\ Does(s, [step |-> "due", policy |-> policy, at |-> day])
  /\ UNCHANGED <<policy, day, paper, answer, clip, cleared>>

\* The paper is read again under its lock.
TakePaper(s) ==
  /\ At(s, "due") /\ PaperFree(s)
  /\ Does(s, IF IsDue(paper, job[s].policy, job[s].at) THEN [job[s] EXCEPT !.step = "read"] ELSE IdleJob)
  /\ UNCHANGED <<policy, day, paper, answer, clip, cleared>>

ReadAnswers(s) ==
  /\ At(s, "read")
  /\ Does(s, [step |-> "list", policy |-> job[s].policy, read |-> answer])
  /\ UNCHANGED <<policy, day, paper, answer, clip, cleared>>

ListClips(s) ==
  /\ At(s, "list")
  /\ Does(s, [step |-> WriteOrder[1], policy |-> job[s].policy, read |-> job[s].read,
              clips |-> IF job[s].policy.clips THEN clip ELSE {}])
  /\ UNCHANGED <<policy, day, paper, answer, clip, cleared>>

\* The rows that change are written as they follow from what was read.
WriteAnswers(s) ==
  LET after(q) == PurgedAnswer(q, job[s].read[q], job[s].policy)
      changed == {q \in Questions : after(q) # job[s].read[q]}
  IN
  /\ At(s, "answers")
  /\ answer' = [q \in Questions |-> IF q \in changed THEN after(q) ELSE answer[q]]
  /\ cleared' = cleared \cup {q \in changed : DropsSheet(q, job[s].read[q], job[s].policy)}
  /\ Does(s, AfterWrite(s, "answers"))
  /\ UNCHANGED <<policy, day, paper, clip>>

RemoveClips(s) ==
  /\ At(s, "clips")
  /\ clip' = clip \ job[s].clips
  /\ Does(s, AfterWrite(s, "clips"))
  /\ UNCHANGED <<policy, day, paper, answer, cleared>>

MarkPaper(s) ==
  LET p == job[s].policy IN
  /\ At(s, "mark")
  /\ paper' = [paper EXCEPT !.purged = [by |-> "sweep", scope |-> p.scope, sheets |-> p.sheets, clips |-> p.clips]]
  /\ Does(s, AfterWrite(s, "mark"))
  /\ UNCHANGED <<policy, day, answer, clip, cleared>>

\* The instance stops, or a storage call fails; the sweep goes on to other papers.
StopJob(j) ==
  /\ ~At(j, "idle")
  /\ Does(j, IdleJob)
  /\ UNCHANGED <<policy, day, paper, answer, clip, cleared>>

----------------------------------------------------------------------------
(* deleteAssessmentRecording *)

\* Of a paper that was submitted, under its lock.
StartDeletion(d, q) ==
  /\ At(d, "idle") /\ PaperFree(d)
  /\ Does(d, [step |-> "find", q |-> q])
  /\ UNCHANGED <<policy, day, paper, answer, clip, cleared>>

FindClip(d) ==
  /\ At(d, "find")
  /\ Does(d, [step |-> "look", q |-> job[d].q, found |-> job[d].q \in clip])
  /\ UNCHANGED <<policy, day, paper, answer, clip, cleared>>

\* A recording without a row may still be in, or named by, the answer.
LookAtAnswer(d) ==
  LET a == answer[job[d].q] IN
  /\ At(d, "look")
  /\ Does(d, IF job[d].found \/ a.ref
             THEN [step |-> "remove", q |-> job[d].q, found |-> job[d].found, read |-> a] ELSE IdleJob)
  /\ UNCHANGED <<policy, day, paper, answer, clip, cleared>>

RemoveClip(d) ==
  /\ At(d, "remove")
  /\ clip' = IF job[d].found THEN clip \ {job[d].q} ELSE clip
  /\ Does(d, [step |-> "strip", q |-> job[d].q, read |-> job[d].read])
  /\ UNCHANGED <<policy, day, paper, answer, cleared>>

\* What is written is what was read, without the recording.
StripAnswer(d) ==
  LET after == PurgedAnswer(job[d].q, job[d].read, [sheets |-> FALSE, clips |-> TRUE]) IN
  /\ At(d, "strip")
  /\ answer' = IF after # job[d].read THEN [answer EXCEPT ![job[d].q] = after] ELSE answer
  /\ Does(d, IdleJob)
  /\ UNCHANGED <<policy, day, paper, clip, cleared>>

RetentionNext ==
  \/ DayPasses \/ FinalizePaper
  \/ \E p \in Policies : SavePolicy(p)
  \/ \E s \in Sweeps : \/ StartSweep(s) \/ TakePaper(s) \/ ReadAnswers(s) \/ ListClips(s)
                       \/ WriteAnswers(s) \/ RemoveClips(s) \/ MarkPaper(s)
  \/ \E d \in Deletions : \/ \E q \in OpenQuestions : StartDeletion(d, q)
                          \/ FindClip(d) \/ LookAtAnswer(d) \/ RemoveClip(d) \/ StripAnswer(d)
  \/ \E j \in Jobs : StopJob(j)

RetentionSpec == RetentionInit /\ [][RetentionNext]_retentionVars

----------------------------------------------------------------------------
(* Properties *)

\* A paper that is marked as cleaned lacks everything the mark says was removed, the
\* rows of its recordings as well as its answers and what they refer to, whatever
\* stopped, ran at once or was deleted by hand in between: no recording is left
\* behind with no trace (retention-service.mjs:68-75).  Requests of two instances are not ordered by
\* the lock: there a deletion may write back what a sweep has just cleared.
CleanedIsClean ==
  paper.purged # Unpurged =>
    /\ paper.purged.clips => clip = {}
    /\ \A q \in Questions :
         /\ paper.purged.sheets /\ (paper.purged.scope = "all" \/ q \in OpenQuestions) => ~answer[q].content
         /\ paper.purged.clips => ~answer[q].ref

\* An answer whose content was removed says so, for good: it would read as one the
\* candidate never gave (assessor.mjs:49-52, docs/RETENTION.md:122-123).
ClearedIsExplained == \A q \in cleared : "sheet" \in answer[q].note

=============================================================================
