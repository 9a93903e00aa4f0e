------------------------------ MODULE Allocation ------------------------------
(***************************************************************************)
(* How a candidate gets a paper of a track, and who scores it              *)
(* (POST and PATCH /admin/assessments, autoAllocateAssessment,             *)
(* setCandidateAssessor, POST /admin/candidates/assessor, and the          *)
(* finalization that all of them may meet).                                *)
(*                                                                         *)
(* One candidate and one track.  Allocations of them wait for each other,  *)
(* and so do the requests that change one paper, each in their instance    *)
(* only (withLock); every step is one storage call.  The track becomes the *)
(* target of a candidate without one, which nothing here depends on.       *)
(***************************************************************************)
EXTENDS Naturals, FiniteSets

CONSTANTS
  Assessors,    \* active assessor accounts
  NoAssessor,   \* a paper nobody is to score yet
  Keys,         \* request ids of the allocations an administrator sends
  NoKey,        \* an allocation without one
  Desks,        \* requests under way at a time
  ServerOfDesk, \* ServerOfDesk[d]: the instance that serves request d
  MaxPapers     \* bound: papers of the candidate

ASSUME AllocationAssumption ==
  /\ NoAssessor \notin Assessors /\ NoKey \notin Keys
  /\ DOMAIN ServerOfDesk = Desks
  /\ MaxPapers \in Nat

VARIABLES
  person,   \* the candidate row: stage and assessor
  track,    \* the track can be allocated: it is active and has questions
  exams,    \* the papers of the candidate and the track, oldest first
  desk,     \* desk[d]: what request d is doing
  batched   \* history: the papers a batch assignment listed

allocationVars == <<person, track, exams, desk, batched>>

\* The stages that matter here.
Intake == 0
Assessing == 1
GapMapping == 2

Free == [step |-> "idle"]

AllocationInit ==
  /\ person = [stage |-> Intake, assessor |-> NoAssessor]
  /\ track = TRUE
  /\ exams = [p \in {} |-> Free]
  /\ desk = [d \in Desks |-> Free]
  /\ batched = {}

DoingAt(d, step) == desk[d].step = step
Turns(d, r) == desk' = [desk EXCEPT ![d] = r]

\* assigned, in_progress or submitted.
OpenExam(p) == exams[p].status = "open"
OpenExams == {p \in DOMAIN exams : OpenExam(p)}

\* Faulty variant of AllocationFree: the automatic allocation takes no lock.
FaultyAllocationFree(d) == TRUE

\* allocationLockKey: held from the first check to the last write.
AllocationFree(d) ==
  \A x \in Desks \ {d} :
    ServerOfDesk[x] = ServerOfDesk[d] => desk[x].step \notin {"check", "bank", "insert", "advance"}

\* The lock of paper p.
ExamFree(d, p) ==
  \A x \in Desks \ {d} :
    ServerOfDesk[x] = ServerOfDesk[d] /\ desk[x].step \in {"reassign", "move", "score"} => desk[x].exam # p

----------------------------------------------------------------------------
(* Allocating *)

\* POST /admin/assessments, under the lock of the candidate and the track.
AllocateByHand(d, key, a) ==
  /\ DoingAt(d, "idle") /\ AllocationFree(d)
  /\ Turns(d, [step |-> "check", key |-> key, assessor |-> a, redo |-> FALSE])
  /\ UNCHANGED <<person, track, exams, batched>>

\* autoAllocateAssessment: an assessor named with the request, else the candidate's.
\* Whether its last write may have been missed (redo) is judged by the stage the caller
\* read before the lock was asked for.
ArriveAutomatic(d, a) ==
  /\ DoingAt(d, "idle") /\ track
  /\ Turns(d, [step |-> "wait", assessor |-> a, redo |-> person.stage # Assessing])
  /\ UNCHANGED <<person, track, exams, batched>>

AllocateAutomatic(d) ==
  LET r == desk[d] IN
  /\ DoingAt(d, "wait") /\ AllocationFree(d)
  /\ Turns(d, [step |-> "check", key |-> NoKey, redo |-> r.redo,
               assessor |-> IF r.assessor = NoAssessor THEN person.assessor ELSE r.assessor])
  /\ UNCHANGED <<person, track, exams, batched>>

\* An open paper is not doubled: a request sent again is answered with it, and what
\* was to follow its insertion is done again.
CheckOpen(d) ==
  LET r == desk[d]
      same == \E p \in OpenExams : r.key # NoKey /\ exams[p].key = r.key
  IN
  /\ DoingAt(d, "check")
  /\ Turns(d, CASE OpenExams = {} -> [r EXCEPT !.step = "bank"]
                [] OpenExams # {} /\ (same \/ r.redo) -> [step |-> "advance"]
                [] OTHER -> Free)
  /\ UNCHANGED <<person, track, exams, batched>>

\* The questions are drawn and the paper is frozen.
DrawPaper(d) ==
  /\ DoingAt(d, "bank")
  /\ Turns(d, IF track THEN [desk[d] EXCEPT !.step = "insert"] ELSE Free)
  /\ UNCHANGED <<person, track, exams, batched>>

\* The row id follows from the request id; a row that exists is not written over.
InsertPaper(d) ==
  LET r == desk[d]
      p == Cardinality(DOMAIN exams) + 1
      taken == r.key # NoKey /\ \E q \in DOMAIN exams : exams[q].key = r.key
      new == [status |-> "open", assessor |-> r.assessor, key |-> r.key, scorer |-> NoAssessor]
  IN
  /\ DoingAt(d, "insert") /\ p <= MaxPapers
  /\ exams' = IF taken THEN exams ELSE [q \in DOMAIN exams \cup {p} |-> IF q = p THEN new ELSE exams[q]]
  /\ Turns(d, IF taken THEN Free ELSE [step |-> "advance"])
  /\ UNCHANGED <<person, track, batched>>

\* advanceStage: decided on the row that is there when it is written.
Advanced(stage, to) == IF to > stage THEN to ELSE stage

AdvanceToAssessment(d) ==
  /\ DoingAt(d, "advance")
  /\ person' = [person EXCEPT !.stage = Advanced(@, Assessing)]
  /\ Turns(d, Free)
  /\ UNCHANGED <<track, exams, batched>>

\* The track is switched off or on, or its last question goes.
SwitchTrack ==
  /\ track' = ~track
  /\ UNCHANGED <<person, exams, desk, batched>>

----------------------------------------------------------------------------
(* Who scores *)

\* PATCH /admin/assessments/:id: refused once a report exists; the candidate follows.
ReassignPaper(d, p, a) ==
  /\ DoingAt(d, "idle") /\ ExamFree(d, p) /\ OpenExam(p)
  /\ Turns(d, [step |-> "reassign", exam |-> p, assessor |-> a])
  /\ UNCHANGED <<person, track, exams, batched>>

WriteReassigned(d) ==
  /\ DoingAt(d, "reassign")
  /\ exams' = [exams EXCEPT ![desk[d].exam].assessor = desk[d].assessor]
  /\ Turns(d, [step |-> "follow", assessor |-> desk[d].assessor])
  /\ UNCHANGED <<person, track, batched>>

CandidateFollows(d) ==
  /\ DoingAt(d, "follow")
  /\ person' = [person EXCEPT !.assessor = desk[d].assessor]
  /\ Turns(d, Free)
  /\ UNCHANGED <<track, exams, batched>>

\* setCandidateAssessor: the row, then each paper that is open.
MoveCandidate(d, a) ==
  /\ DoingAt(d, "idle") /\ person.assessor # a
  /\ person' = [person EXCEPT !.assessor = a]
  /\ Turns(d, [step |-> "list", assessor |-> a])
  /\ UNCHANGED <<track, exams, batched>>

ListPapers(d) ==
  /\ DoingAt(d, "list")
  /\ Turns(d, [step |-> "next", assessor |-> desk[d].assessor,
               left |-> {p \in OpenExams : exams[p].assessor # desk[d].assessor}])
  /\ UNCHANGED <<person, track, exams, batched>>

\* Faulty variant of MayMove: a listed paper is moved without another look.
FaultyMayMove(p, a) == exams[p].assessor # a

\* A paper finalized since the listing stays with the assessor who scored it.
MayMove(p, a) == OpenExam(p) /\ exams[p].assessor # a

\* Each paper is read again under its lock.
TakeNext(d) ==
  LET r == desk[d] IN
  /\ DoingAt(d, "next")
  /\ \/ r.left = {} /\ Turns(d, Free)
     \/ \E p \in r.left :
          /\ ExamFree(d, p)
          /\ Turns(d, IF MayMove(p, r.assessor)
                      THEN [step |-> "move", assessor |-> r.assessor, exam |-> p, left |-> r.left \ {p}]
                      ELSE [r EXCEPT !.left = @ \ {p}])
  /\ UNCHANGED <<person, track, exams, batched>>

MovePaper(d) ==
  LET r == desk[d] IN
  /\ DoingAt(d, "move")
  /\ exams' = [exams EXCEPT ![r.exam].assessor = r.assessor]
  /\ Turns(d, [step |-> "next", assessor |-> r.assessor, left |-> r.left])
  /\ UNCHANGED <<person, track, batched>>

\* POST /admin/candidates/assessor: both tables are listed and then written, under no lock.
ListBatch(d, a) ==
  LET listed == {p \in OpenExams : exams[p].assessor # a} IN
  /\ DoingAt(d, "idle")
  /\ Turns(d, [step |-> "batch", assessor |-> a, left |-> listed])
  /\ batched' = batched \cup listed
  /\ UNCHANGED <<person, track, exams>>

WriteBatchCandidates(d) ==
  /\ DoingAt(d, "batch")
  /\ person' = [person EXCEPT !.assessor = desk[d].assessor]
  /\ Turns(d, [desk[d] EXCEPT !.step = "batchPapers"])
  /\ UNCHANGED <<track, exams, batched>>

WriteBatchPapers(d) ==
  LET r == desk[d] IN
  /\ DoingAt(d, "batchPapers")
  /\ exams' = [p \in DOMAIN exams |-> IF p \in r.left THEN [exams[p] EXCEPT !.assessor = r.assessor] ELSE exams[p]]
  /\ Turns(d, Free)
  /\ UNCHANGED <<person, track, batched>>

----------------------------------------------------------------------------
(* Finalizing, by the assessor of a paper that was submitted *)

StartScoring(d, p) ==
  /\ DoingAt(d, "idle") /\ ExamFree(d, p) /\ OpenExam(p) /\ exams[p].assessor # NoAssessor
  /\ Turns(d, [step |-> "score", exam |-> p, by |-> exams[p].assessor])
  /\ UNCHANGED <<person, track, exams, batched>>

WriteReport(d) ==
  LET p == desk[d].exam IN
  /\ DoingAt(d, "score")
  /\ exams' = [exams EXCEPT ![p] = [@ EXCEPT !.status = "scored", !.scorer = desk[d].by]]
  /\ Turns(d, [step |-> "gap"])
  /\ UNCHANGED <<person, track, batched>>

AdvanceToGaps(d) ==
  /\ DoingAt(d, "gap")
  /\ person' = [person EXCEPT !.stage = Advanced(@, GapMapping)]
  /\ Turns(d, Free)
  /\ UNCHANGED <<track, exams, batched>>

\* A storage call fails or the instance stops.
DeskFails(d) ==
  /\ ~DoingAt(d, "idle")
  /\ Turns(d, Free)
  /\ UNCHANGED <<person, track, exams, batched>>

AllocationNext ==
  \/ SwitchTrack
  \/ \E d \in Desks :
       \/ \E a \in Assessors \cup {NoAssessor} :
            \/ \E key \in Keys \cup {NoKey} : AllocateByHand(d, key, a)
            \/ ArriveAutomatic(d, a) \/ MoveCandidate(d, a) \/ ListBatch(d, a)
            \/ \E p \in DOMAIN exams : ReassignPaper(d, p, a)
       \/ AllocateAutomatic(d) \/ CheckOpen(d) \/ DrawPaper(d) \/ InsertPaper(d)
       \/ AdvanceToAssessment(d) \/ WriteReassigned(d) \/ CandidateFollows(d)
       \/ ListPapers(d) \/ TakeNext(d) \/ MovePaper(d)
       \/ WriteBatchCandidates(d) \/ WriteBatchPapers(d)
       \/ \E p \in DOMAIN exams : StartScoring(d, p)
       \/ WriteReport(d) \/ AdvanceToGaps(d) \/ DeskFails(d)

AllocationSpec == AllocationInit /\ [][AllocationNext]_allocationVars

----------------------------------------------------------------------------
(* Properties *)

\* The candidate never has two open papers of the track, whichever of the two ways
\* they were allocated and however often the request was sent
\* (assessment-service.mjs:18-29).
OneOpenPaper == Cardinality(OpenExams) <= 1

\* A paper that was scored stays with the assessor who scored it, unless a batch
\* assignment had listed it before (shared.mjs:80-86, assessments.mjs:68).  The comment
\* on the edit of a candidate says that scored papers move too (people.mjs:413-415); the
\* code of that edit does what shared.mjs says.
ScorerIsKept ==
  \A p \in DOMAIN exams :
    exams[p].status = "scored" /\ p \notin batched => exams[p].assessor = exams[p].scorer

=============================================================================
