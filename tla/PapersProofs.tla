------------------------------ MODULE PapersProofs ------------------------------
(***************************************************************************)
(* Proofs about what surrounds a sitting: how people and their logins are  *)
(* entered, how a paper is allocated, the page that scores it and the      *)
(* removal of its raw material, when one instance serves every request;    *)
(* for every spreadsheet, set of requests, assessors, questions and        *)
(* policies and any number of papers, edits and failures.                  *)
(***************************************************************************)
EXTENDS Allocation, Onboarding, ScoringScreen, Retention, FiniteSetTheorems, SequenceTheorems, TLAPS

----------------------------------------------------------------------------
(* Allocation *)

OneServer == \A d, e \in Desks : ServerOfDesk[d] = ServerOfDesk[e]

\* The steps under the lock of the candidate and the track, and under that of a paper.
Allocating == {"check", "bank", "insert", "advance"}
PaperSteps == {"reassign", "move", "score"}

OpenOf(rows) == {p \in DOMAIN rows : rows[p].status = "open"}

\* What a request r may rely on, given the rows of the papers and those a batch has listed.
Sound(r, rows, listed) ==
  /\ "step" \in DOMAIN r
  /\ r.step \in {"next", "move"} => "left" \in DOMAIN r /\ r.left \subseteq DOMAIN rows
  /\ r.step \in {"batch", "batchPapers"} => "left" \in DOMAIN r /\ r.left \subseteq listed
  /\ r.step \in {"bank", "insert"} => OpenOf(rows) = {}
  /\ r.step \in PaperSteps => r.exam \in OpenOf(rows)
  /\ r.step = "score" /\ r.exam \notin listed => rows[r.exam].assessor = r.by

PapersSound(rows, listed) ==
  \A p \in DOMAIN rows :
    /\ {"status", "assessor", "scorer"} \subseteq DOMAIN rows[p]
    /\ rows[p].status = "open" => \A q \in OpenOf(rows) : p = q
    /\ rows[p].status = "scored" /\ p \notin listed => rows[p].assessor = rows[p].scorer

\* A request whose step is one of steps is the only one.
AloneIn(steps) == \A d, e \in Desks : desk[d].step \in steps /\ desk[e].step \in steps => d = e

AllocationInv ==
  /\ DOMAIN desk = Desks
  /\ \A d \in Desks : Sound(desk[d], exams, batched)
  /\ PapersSound(exams, batched)
  /\ AloneIn(Allocating) /\ AloneIn(PaperSteps)

----------------------------------------------------------------------------
(* Steps *)

LEMMA Turned ==
  ASSUME AllocationInv, NEW d \in Desks, NEW r, Turns(d, r),
         Sound(r, exams', batched'), PapersSound(exams', batched'),
         \A x \in Desks \ {d} : Sound(desk[x], exams', batched'),
         r.step \in Allocating => \A x \in Desks \ {d} : desk[x].step \notin Allocating,
         r.step \in PaperSteps => \A x \in Desks \ {d} : desk[x].step \notin PaperSteps
  PROVE  AllocationInv'
<1>1. DOMAIN desk' = Desks /\ \A x \in Desks : desk'[x] = IF x = d THEN r ELSE desk[x]
  BY DEF AllocationInv, Turns
<1>2. \A x \in Desks : Sound(desk'[x], exams', batched')
  BY <1>1
<1>3. AloneIn(Allocating)'
  BY <1>1 DEF AllocationInv, AloneIn
<1>4. AloneIn(PaperSteps)'
  BY <1>1 DEF AllocationInv, AloneIn
<1> QED
  BY <1>1, <1>2, <1>3, <1>4 DEF AllocationInv

\* A step that leaves the papers alone.
LEMMA Quiet ==
  ASSUME AllocationInv, NEW d \in Desks, NEW r, Turns(d, r), UNCHANGED exams, batched \subseteq batched',
         Sound(r, exams, batched'),
         r.step \in Allocating => \A x \in Desks \ {d} : desk[x].step \notin Allocating,
         r.step \in PaperSteps => \A x \in Desks \ {d} : desk[x].step \notin PaperSteps
  PROVE  AllocationInv'
<1>1. \A x \in Desks : Sound(desk[x], exams, batched')
  BY DEF AllocationInv, Sound
<1>2. PapersSound(exams, batched')
  BY DEF AllocationInv, PapersSound
<1> QED
  BY <1>1, <1>2, Turned

\* A request that goes on as it was, or ends, asks for no lock.
LEMMA Harmless ==
  ASSUME AllocationInv, NEW d \in Desks, NEW r, Turns(d, r), UNCHANGED <<exams, batched>>,
         "step" \in DOMAIN r, r.step \in {"idle", "wait", "follow", "list", "gap"}
  PROVE  AllocationInv'
<1>1. Sound(r, exams, batched)
  BY DEF Sound, PaperSteps
<1> QED
  BY <1>1, Quiet DEF Allocating, PaperSteps

\* A request under the allocation lock goes on to another step under it.
LEMMA StaysAllocating ==
  ASSUME AllocationInv, NEW d \in Desks, NEW r, Turns(d, r), UNCHANGED <<exams, batched>>,
         desk[d].step \in Allocating, "step" \in DOMAIN r, r.step \in Allocating,
         r.step \in {"bank", "insert"} => OpenExams = {}
  PROVE  AllocationInv'
<1>1. Sound(r, exams, batched)
  BY DEF Sound, Allocating, PaperSteps, OpenOf, OpenExams, OpenExam
<1>2. \A x \in Desks \ {d} : desk[x].step \notin Allocating
  BY DEF AllocationInv, AloneIn
<1> QED
  BY <1>1, <1>2, Quiet DEF Allocating, PaperSteps

\* With one instance, a request that may take a paper takes it alone.
LEMMA TakesPaper ==
  ASSUME AllocationInv, OneServer, NEW d \in Desks, NEW p \in OpenExams, ExamFree(d, p)
  PROVE  \A x \in Desks \ {d} : desk[x].step \notin PaperSteps
<1> SUFFICES ASSUME NEW x \in Desks \ {d}, desk[x].step \in PaperSteps PROVE FALSE
  OBVIOUS
<1>1. desk[x].exam \in OpenOf(exams) /\ p \in OpenOf(exams)
  BY DEF AllocationInv, Sound, OpenOf, OpenExams, OpenExam
<1>2. desk[x].exam = p
  BY <1>1 DEF AllocationInv, PapersSound, OpenOf
<1>3. ServerOfDesk[x] = ServerOfDesk[d]
  BY DEF OneServer
<1> QED
  BY <1>2, <1>3 DEF ExamFree, PaperSteps

LEMMA AllocateKeeps ==
  ASSUME AllocationInv, OneServer, NEW d \in Desks,
         \/ \E a \in Assessors \cup {NoAssessor} :
              (\E key \in Keys \cup {NoKey} : AllocateByHand(d, key, a)) \/ ArriveAutomatic(d, a)
         \/ AllocateAutomatic(d)
  PROVE  AllocationInv'
<1>1. CASE \E a \in Assessors \cup {NoAssessor} : ArriveAutomatic(d, a)
  BY <1>1, Harmless DEF ArriveAutomatic
<1>2. CASE AllocateAutomatic(d) \/ \E a \in Assessors \cup {NoAssessor}, key \in Keys \cup {NoKey} : AllocateByHand(d, key, a)
  <2>1. PICK r : Turns(d, r) /\ "step" \in DOMAIN r /\ r.step = "check"
    <3>1. \E key, a, redo : Turns(d, [step |-> "check", key |-> key, assessor |-> a, redo |-> redo])
      BY <1>2 DEF AllocateAutomatic, AllocateByHand
    <3>2. PICK key, a, redo : Turns(d, [step |-> "check", key |-> key, assessor |-> a, redo |-> redo])
      BY <3>1
    <3> QED
      BY <3>2
  <2>2. UNCHANGED <<exams, batched>> /\ AllocationFree(d)
    BY <1>2 DEF AllocateAutomatic, AllocateByHand
  <2>3. \A x \in Desks \ {d} : desk[x].step \notin Allocating
    BY <2>2 DEF AllocationFree, OneServer, Allocating
  <2>4. Sound(r, exams, batched)
    BY <2>1 DEF Sound, PaperSteps
  <2> QED
    BY <2>1, <2>2, <2>3, <2>4, Quiet DEF PaperSteps
<1> QED
  BY <1>1, <1>2

LEMMA OpeningKeeps ==
  ASSUME AllocationInv, NEW d \in Desks, CheckOpen(d) \/ DrawPaper(d)
  PROVE  AllocationInv'
<1>1. "step" \in DOMAIN desk[d]
  BY DEF AllocationInv, Sound
<1>2. CASE CheckOpen(d)
  <2>1. desk[d].step = "check" /\ UNCHANGED <<exams, batched>>
    BY <1>2 DEF CheckOpen, DoingAt
  <2>2. PICK r : /\ Turns(d, r) /\ "step" \in DOMAIN r /\ r.step \in {"idle", "bank", "advance"}
                 /\ r.step = "bank" => OpenExams = {}
    <3> DEFINE same == \E p \in OpenExams : desk[d].key # NoKey /\ exams[p].key = desk[d].key
    <3>1. \/ OpenExams = {} /\ Turns(d, [desk[d] EXCEPT !.step = "bank"])
          \/ Turns(d, [step |-> "advance"])
          \/ Turns(d, Free)
      BY <1>2 DEF CheckOpen
    <3>2. CASE OpenExams = {} /\ Turns(d, [desk[d] EXCEPT !.step = "bank"])
      BY <1>1, <3>2
    <3>3. CASE Turns(d, [step |-> "advance"])
      BY <3>3
    <3>4. CASE Turns(d, Free)
      BY <3>4 DEF Free
    <3> QED
      BY <3>1, <3>2, <3>3, <3>4
  <2>3. CASE r.step = "idle"
    BY <2>1, <2>2, <2>3, Harmless
  <2>4. CASE r.step # "idle"
    BY <2>1, <2>2, <2>4, StaysAllocating DEF Allocating
  <2> QED
    BY <2>3, <2>4
<1>3. CASE DrawPaper(d)
  <2>1. desk[d].step = "bank" /\ UNCHANGED <<exams, batched>>
    BY <1>3 DEF DrawPaper, DoingAt
  <2>2. OpenExams = {}
    BY <2>1 DEF AllocationInv, Sound, OpenOf, OpenExams, OpenExam
  <2>3. Turns(d, [desk[d] EXCEPT !.step = "insert"]) \/ Turns(d, Free)
    BY <1>3 DEF DrawPaper
  <2>4. PICK r : Turns(d, r) /\ "step" \in DOMAIN r /\ r.step \in {"insert", "idle"}
    BY <1>1, <2>3 DEF Free
  <2> QED
    BY <2>1, <2>2, <2>4, Harmless, StaysAllocating DEF Allocating
<1> QED
  BY <1>2, <1>3

\* The insertion is the only step that opens a paper, and none is open before it.
LEMMA InsertKeeps ==
  ASSUME AllocationInv, NEW d \in Desks, InsertPaper(d)
  PROVE  AllocationInv'
<1> DEFINE r == desk[d]
           p == Cardinality(DOMAIN exams) + 1
           taken == r.key # NoKey /\ \E q \in DOMAIN exams : exams[q].key = r.key
           new == [status |-> "open", assessor |-> r.assessor, key |-> r.key, scorer |-> NoAssessor]
           more == [q \in DOMAIN exams \cup {p} |-> IF q = p THEN new ELSE exams[q]]
<1>1. desk[d].step = "insert" /\ UNCHANGED batched
  BY DEF InsertPaper, DoingAt
<1>2. OpenOf(exams) = {}
  BY <1>1 DEF AllocationInv, Sound
<1>3. CASE taken
  <2>1. UNCHANGED exams /\ Turns(d, Free)
    BY <1>3 DEF InsertPaper
  <2> QED
    BY <1>1, <2>1, Harmless DEF Free
<1>4. CASE ~taken
  <2>1. exams' = more /\ Turns(d, [step |-> "advance"])
    BY <1>4 DEF InsertPaper
  <2>2. DOMAIN exams \subseteq DOMAIN exams' /\ \A q \in DOMAIN exams' : exams'[q] = IF q = p THEN new ELSE exams[q]
    BY <2>1
  <2>3. /\ {"status", "assessor", "scorer"} \subseteq DOMAIN new /\ new.status = "open"
        /\ \A q \in DOMAIN exams' : q = p \/ q \in DOMAIN exams
    BY <2>1
  <2> HIDE DEF p, new
  <2>4. OpenOf(exams') \subseteq {p}
    BY <1>2, <2>2, <2>3 DEF OpenOf
  <2>5. PapersSound(exams', batched')
    BY <1>1, <2>2, <2>3, <2>4 DEF AllocationInv, PapersSound, OpenOf
  <2>6. \A x \in Desks \ {d} : Sound(desk[x], exams', batched')
    BY <1>1, <1>2, <2>2 DEF AllocationInv, Sound, AloneIn, Allocating, PaperSteps, OpenOf
  <2>7. \A x \in Desks \ {d} : desk[x].step \notin Allocating
    BY <1>1 DEF AllocationInv, AloneIn, Allocating
  <2>8. Sound([step |-> "advance"], exams', batched')
    BY DEF Sound, PaperSteps
  <2> QED
    BY <2>1, <2>5, <2>6, <2>7, <2>8, Turned DEF PaperSteps
<1> QED
  BY <1>3, <1>4

LEMMA TakingKeeps ==
  ASSUME AllocationInv, OneServer, NEW d \in Desks, NEW p \in DOMAIN exams,
         StartScoring(d, p) \/ \E a \in Assessors \cup {NoAssessor} : ReassignPaper(d, p, a)
  PROVE  AllocationInv'
<1>1. /\ UNCHANGED <<exams, batched>> /\ ExamFree(d, p) /\ p \in OpenExams
      /\ \/ Turns(d, [step |-> "score", exam |-> p, by |-> exams[p].assessor])
         \/ \E a \in Assessors \cup {NoAssessor} : Turns(d, [step |-> "reassign", exam |-> p, assessor |-> a])
  BY DEF StartScoring, ReassignPaper, OpenExams
<1>2. PICK r : /\ Turns(d, r) /\ "step" \in DOMAIN r /\ r.step \in {"score", "reassign"} /\ r.exam = p
               /\ r.step = "score" => r.by = exams[p].assessor
  <2>1. CASE Turns(d, [step |-> "score", exam |-> p, by |-> exams[p].assessor])
    BY <2>1
  <2>2. ASSUME NEW a, Turns(d, [step |-> "reassign", exam |-> p, assessor |-> a])
        PROVE  \E r : Turns(d, r) /\ "step" \in DOMAIN r /\ r.step = "reassign" /\ r.exam = p
    BY <2>2
  <2> QED
    BY <1>1, <2>1, <2>2
<1>3. Sound(r, exams, batched)
  BY <1>1, <1>2 DEF Sound, OpenOf, OpenExams, OpenExam
<1> QED
  BY <1>1, <1>2, <1>3, TakesPaper, Quiet DEF Allocating

LEMMA MovingKeeps ==
  ASSUME AllocationInv, OneServer, NEW d \in Desks, ListPapers(d) \/ TakeNext(d)
  PROVE  AllocationInv'
<1>1. CASE ListPapers(d)
  <2> DEFINE r == [step |-> "next", assessor |-> desk[d].assessor,
                   left |-> {p \in OpenExams : exams[p].assessor # desk[d].assessor}]
  <2>1. Turns(d, r) /\ UNCHANGED <<exams, batched>>
    BY <1>1 DEF ListPapers
  <2>2. Sound(r, exams, batched) /\ r.step = "next"
    BY DEF Sound, PaperSteps, OpenExams
  <2> QED
    BY <2>1, <2>2, Quiet DEF Allocating, PaperSteps
<1>2. CASE TakeNext(d)
  <2> DEFINE r == desk[d]
  <2>1. /\ r.step = "next" /\ UNCHANGED <<exams, batched>> /\ "step" \in DOMAIN r /\ "left" \in DOMAIN r
        /\ r.left \subseteq DOMAIN exams
    BY <1>2 DEF TakeNext, DoingAt, AllocationInv, Sound
  <2>2. CASE Turns(d, Free)
    BY <2>1, <2>2, Harmless DEF Free
  <2>3. ASSUME NEW p \in r.left, ExamFree(d, p), MayMove(p, r.assessor),
               Turns(d, [step |-> "move", assessor |-> r.assessor, exam |-> p, left |-> r.left \ {p}])
        PROVE  AllocationInv'
    <3>1. p \in OpenExams
      BY <2>1, <2>3 DEF MayMove, OpenExams
    <3>2. PICK z : /\ Turns(d, z) /\ {"step", "left"} \subseteq DOMAIN z /\ z.step = "move" /\ z.exam = p
                   /\ z.left = r.left \ {p}
      BY <2>3
    <3>3. Sound(z, exams, batched)
      BY <2>1, <3>1, <3>2 DEF Sound, OpenOf, OpenExams, OpenExam
    <3> QED
      BY <2>1, <2>3, <3>1, <3>2, <3>3, TakesPaper, Quiet DEF Allocating
  <2>4. ASSUME NEW p \in r.left, Turns(d, [r EXCEPT !.left = @ \ {p}])
        PROVE  AllocationInv'
    <3>1. PICK z : /\ Turns(d, z) /\ {"step", "left"} \subseteq DOMAIN z /\ z.step = "next"
                   /\ z.left \subseteq DOMAIN exams
      BY <2>1, <2>4
    <3>2. Sound(z, exams, batched)
      BY <3>1 DEF Sound, PaperSteps
    <3> QED
      BY <2>1, <3>1, <3>2, Quiet DEF Allocating, PaperSteps
  <2> QED
    BY <1>2, <2>2, <2>3, <2>4 DEF TakeNext
<1> QED
  BY <1>1, <1>2

\* The holder of a paper gives it another assessor.
LEMMA MovedKeeps ==
  ASSUME AllocationInv, NEW d \in Desks, WriteReassigned(d) \/ MovePaper(d)
  PROVE  AllocationInv'
<1> DEFINE p == desk[d].exam
           a == desk[d].assessor
<1>1. /\ desk[d].step \in {"reassign", "move"} /\ UNCHANGED batched
      /\ exams' = [exams EXCEPT ![p].assessor = a]
  BY DEF WriteReassigned, MovePaper, DoingAt
<1>2. p \in OpenOf(exams) /\ p \in DOMAIN exams
  BY <1>1 DEF AllocationInv, Sound, PaperSteps, OpenOf
<1>3. /\ DOMAIN exams' = DOMAIN exams
      /\ \A q \in DOMAIN exams : /\ {"status", "assessor", "scorer"} \subseteq DOMAIN exams'[q]
                                 /\ exams'[q].status = exams[q].status
                                 /\ q # p => exams'[q] = exams[q]
  BY <1>1, <1>2 DEF AllocationInv, PapersSound
<1>4. OpenOf(exams') = OpenOf(exams)
  BY <1>3 DEF OpenOf
<1>5. PapersSound(exams', batched')
  BY <1>1, <1>2, <1>3, <1>4 DEF AllocationInv, PapersSound, OpenOf
<1>6. \A x \in Desks \ {d} : desk[x].step \notin PaperSteps
  BY <1>1 DEF AllocationInv, AloneIn, PaperSteps
<1>7. \A x \in Desks \ {d} : Sound(desk[x], exams', batched')
  BY <1>1, <1>3, <1>4, <1>6 DEF AllocationInv, Sound, PaperSteps
<1>8. PICK r : /\ Turns(d, r) /\ "step" \in DOMAIN r /\ r.step \in {"follow", "next"}
               /\ r.step = "next" => "left" \in DOMAIN r /\ r.left \subseteq DOMAIN exams
  <2>1. CASE WriteReassigned(d)
    BY <2>1 DEF WriteReassigned
  <2>2. CASE MovePaper(d)
    <3>1. Turns(d, [step |-> "next", assessor |-> a, left |-> desk[d].left]) /\ desk[d].left \subseteq DOMAIN exams
      BY <2>2 DEF MovePaper, DoingAt, AllocationInv, Sound
    <3> QED
      BY <3>1
  <2> QED
    BY <2>1, <2>2
<1>9. Sound(r, exams', batched')
  BY <1>3, <1>8 DEF Sound, PaperSteps
<1> QED
  BY <1>5, <1>7, <1>8, <1>9, Turned DEF Allocating, PaperSteps

LEMMA BatchKeeps ==
  ASSUME AllocationInv, NEW d \in Desks,
         (\E a \in Assessors \cup {NoAssessor} : ListBatch(d, a)) \/ WriteBatchCandidates(d) \/ WriteBatchPapers(d)
  PROVE  AllocationInv'
<1>1. ASSUME NEW a \in Assessors \cup {NoAssessor}, ListBatch(d, a) PROVE AllocationInv'
  <2> DEFINE r == [step |-> "batch", assessor |-> a, left |-> {p \in OpenExams : exams[p].assessor # a}]
  <2>1. Turns(d, r) /\ UNCHANGED exams /\ batched' = batched \cup r.left
    BY <1>1 DEF ListBatch
  <2>2. Sound(r, exams, batched') /\ r.step = "batch"
    BY <2>1 DEF Sound, PaperSteps
  <2> QED
    BY <2>1, <2>2, Quiet DEF Allocating, PaperSteps
<1>2. CASE WriteBatchCandidates(d)
  <2>1. UNCHANGED <<exams, batched>> /\ Turns(d, [desk[d] EXCEPT !.step = "batchPapers"]) /\ desk[d].step = "batch"
    BY <1>2 DEF WriteBatchCandidates, DoingAt
  <2>2. PICK r : Turns(d, r) /\ {"step", "left"} \subseteq DOMAIN r /\ r.step = "batchPapers" /\ r.left = desk[d].left
    BY <2>1 DEF AllocationInv, Sound
  <2>3. Sound(r, exams, batched)
    BY <2>1, <2>2 DEF AllocationInv, Sound, PaperSteps
  <2> QED
    BY <2>1, <2>2, <2>3, Quiet DEF Allocating, PaperSteps
<1>3. CASE WriteBatchPapers(d)
  <2> DEFINE left == desk[d].left
  <2>1. /\ UNCHANGED batched /\ Turns(d, Free) /\ desk[d].step = "batchPapers" /\ left \subseteq batched
        /\ exams' = [p \in DOMAIN exams |-> IF p \in left THEN [exams[p] EXCEPT !.assessor = desk[d].assessor] ELSE exams[p]]
    BY <1>3 DEF WriteBatchPapers, DoingAt, AllocationInv, Sound
  <2>2. /\ DOMAIN exams' = DOMAIN exams
        /\ \A q \in DOMAIN exams : /\ {"status", "assessor", "scorer"} \subseteq DOMAIN exams'[q]
                                   /\ exams'[q].status = exams[q].status
                                   /\ q \notin batched => exams'[q] = exams[q]
    BY <2>1 DEF AllocationInv, PapersSound
  <2>3. OpenOf(exams') = OpenOf(exams)
    BY <2>2 DEF OpenOf
  <2>4. PapersSound(exams', batched')
    BY <2>1, <2>2, <2>3 DEF AllocationInv, PapersSound
  <2>5. \A x \in Desks : Sound(desk[x], exams', batched')
    BY <2>1, <2>2, <2>3 DEF AllocationInv, Sound, OpenOf, PaperSteps
  <2>6. Sound(Free, exams', batched') /\ Free.step = "idle"
    BY DEF Sound, PaperSteps, Free
  <2> QED
    BY <2>1, <2>4, <2>5, <2>6, Turned DEF Allocating, PaperSteps
<1> QED
  BY <1>1, <1>2, <1>3

\* The assessor who holds a paper scores it.
LEMMA ReportKeeps ==
  ASSUME AllocationInv, NEW d \in Desks, WriteReport(d)
  PROVE  AllocationInv'
<1> DEFINE p == desk[d].exam
           by == desk[d].by
<1>1. /\ desk[d].step = "score" /\ UNCHANGED batched /\ Turns(d, [step |-> "gap"])
      /\ exams' = [exams EXCEPT ![p] = [exams[p] EXCEPT !.status = "scored", !.scorer = by]]
  BY DEF WriteReport, DoingAt
<1>2. p \in DOMAIN exams /\ (p \notin batched => exams[p].assessor = by)
  BY <1>1 DEF AllocationInv, Sound, PaperSteps, OpenOf
<1>3. /\ DOMAIN exams' = DOMAIN exams /\ {"status", "assessor", "scorer"} \subseteq DOMAIN exams'[p]
      /\ exams'[p].status = "scored" /\ exams'[p].scorer = by /\ exams'[p].assessor = exams[p].assessor
      /\ \A q \in DOMAIN exams : q # p => exams'[q] = exams[q]
  BY <1>1, <1>2 DEF AllocationInv, PapersSound
<1>4. OpenOf(exams') \subseteq OpenOf(exams)
  BY <1>3 DEF OpenOf
<1>5. PapersSound(exams', batched')
  BY <1>1, <1>2, <1>3, <1>4 DEF AllocationInv, PapersSound
<1>6. \A x \in Desks \ {d} : desk[x].step \notin PaperSteps
  BY <1>1 DEF AllocationInv, AloneIn, PaperSteps
<1>7. \A x \in Desks \ {d} : Sound(desk[x], exams', batched')
  BY <1>1, <1>3, <1>4, <1>6 DEF AllocationInv, Sound, PaperSteps
<1>8. Sound([step |-> "gap"], exams', batched')
  BY DEF Sound, PaperSteps
<1> QED
  BY <1>1, <1>5, <1>7, <1>8, Turned DEF Allocating, PaperSteps

LEMMA OtherStepsKeep ==
  ASSUME AllocationInv, NEW d \in Desks,
         \/ AdvanceToAssessment(d) \/ CandidateFollows(d) \/ AdvanceToGaps(d) \/ DeskFails(d)
         \/ \E a \in Assessors \cup {NoAssessor} : MoveCandidate(d, a)
  PROVE  AllocationInv'
<1>1. /\ UNCHANGED <<exams, batched>>
      /\ Turns(d, Free) \/ \E a \in Assessors \cup {NoAssessor} : Turns(d, [step |-> "list", assessor |-> a])
  BY DEF AdvanceToAssessment, CandidateFollows, AdvanceToGaps, DeskFails, MoveCandidate
<1>2. PICK r : Turns(d, r) /\ "step" \in DOMAIN r /\ r.step \in {"idle", "list"}
  <2>1. CASE Turns(d, Free)
    BY <2>1 DEF Free
  <2>2. ASSUME NEW a, Turns(d, [step |-> "list", assessor |-> a])
        PROVE  \E r : Turns(d, r) /\ "step" \in DOMAIN r /\ r.step = "list"
    BY <2>2
  <2> QED
    BY <1>1, <2>1, <2>2
<1> QED
  BY <1>1, <1>2, Harmless

----------------------------------------------------------------------------
(* Theorems *)

LEMMA AllocationKeeps ==
  ASSUME OneServer, AllocationInv, [AllocationNext]_allocationVars
  PROVE  AllocationInv'
<1>1. CASE UNCHANGED <<exams, desk, batched>>
  BY <1>1 DEF AllocationInv, AloneIn
<1>2. ASSUME NEW d \in Desks, NEW a \in Assessors \cup {NoAssessor},
             \/ \E key \in Keys \cup {NoKey} : AllocateByHand(d, key, a)
             \/ ArriveAutomatic(d, a) \/ MoveCandidate(d, a) \/ ListBatch(d, a)
             \/ \E p \in DOMAIN exams : ReassignPaper(d, p, a)
      PROVE  AllocationInv'
  BY <1>2, AllocateKeeps, OtherStepsKeep, BatchKeeps, TakingKeeps
<1>3. ASSUME NEW d \in Desks,
             \/ AllocateAutomatic(d) \/ CheckOpen(d) \/ DrawPaper(d) \/ InsertPaper(d)
             \/ AdvanceToAssessment(d) \/ WriteReassigned(d) \/ CandidateFollows(d)
             \/ ListPapers(d) \/ TakeNext(d) \/ MovePaper(d)
      PROVE  AllocationInv'
  BY <1>3, AllocateKeeps, OpeningKeeps, InsertKeeps, OtherStepsKeep, MovedKeeps, MovingKeeps
<1>4. ASSUME NEW d \in Desks,
             \/ WriteBatchCandidates(d) \/ WriteBatchPapers(d) \/ WriteReport(d) \/ AdvanceToGaps(d) \/ DeskFails(d)
             \/ \E p \in DOMAIN exams : StartScoring(d, p)
      PROVE  AllocationInv'
  BY <1>4, BatchKeeps, ReportKeeps, OtherStepsKeep, TakingKeeps
<1>5. CASE SwitchTrack
  BY <1>1, <1>5 DEF SwitchTrack
<1> QED
  BY <1>1, <1>2, <1>3, <1>4, <1>5 DEF AllocationNext, allocationVars

LEMMA AllocationStarts == AllocationInit => AllocationInv
<1> SUFFICES ASSUME AllocationInit PROVE AllocationInv
  OBVIOUS
<1>1. DOMAIN desk = Desks /\ (\A d \in Desks : desk[d] = Free) /\ DOMAIN exams = {}
  BY DEF AllocationInit
<1>2. "step" \in DOMAIN Free /\ Free.step = "idle"
  BY DEF Free
<1>3. \A d \in Desks : Sound(desk[d], exams, batched)
  BY <1>1, <1>2 DEF Sound, PaperSteps
<1>4. PapersSound(exams, batched)
  BY <1>1 DEF PapersSound
<1> QED
  BY <1>1, <1>2, <1>3, <1>4 DEF AllocationInv, AloneIn, Allocating, PaperSteps

\* What every request may rely on holds throughout, on one instance.
THEOREM AllocationIsSound ==
  ASSUME OneServer
  PROVE  AllocationSpec => []AllocationInv
BY AllocationStarts, AllocationKeeps, PTL DEF AllocationSpec

\* On one instance the candidate never has two open papers of the track, whichever of the
\* two ways they were allocated and however often the request was sent
\* (assessment-service.mjs:18-29).
THEOREM PapersOpenOnce ==
  ASSUME OneServer
  PROVE  AllocationSpec => []OneOpenPaper
<1>1. AllocationInv => OneOpenPaper
  <2> SUFFICES ASSUME AllocationInv PROVE Cardinality(OpenExams) <= 1
    BY DEF OneOpenPaper
  <2>1. \A p, q \in OpenExams : p = q
    BY DEF AllocationInv, PapersSound, OpenOf, OpenExams, OpenExam
  <2>2. CASE OpenExams = {}
    BY <2>2, FS_EmptySet
  <2>3. CASE OpenExams # {}
    <3>1. PICK p \in OpenExams : OpenExams = {p}
      BY <2>1, <2>3
    <3> QED
      BY <3>1, FS_Singleton
  <2> QED
    BY <2>2, <2>3
<1> QED
  BY <1>1, AllocationIsSound, PTL

\* On one instance a scored paper stays with the assessor who scored it, unless a batch
\* assignment had listed it before (shared.mjs:82-86, assessments.mjs:68).
THEOREM ScorersKept ==
  ASSUME OneServer
  PROVE  AllocationSpec => []ScorerIsKept
<1>1. AllocationInv => ScorerIsKept
  BY DEF AllocationInv, PapersSound, ScorerIsKept
<1> QED
  BY <1>1, AllocationIsSound, PTL

----------------------------------------------------------------------------
(* The scoring page *)

Saves == [q : OpenItems, mark : Nat]
Requests == [kind : {"score"}, save : Saves, awaited : BOOLEAN] \cup [kind : {"finalize"}, awaited : BOOLEAN]

ScoringTypes ==
  /\ DOMAIN form = {"marks", "blanks", "edits", "step"}
  /\ form.marks \in [OpenItems -> Nat] /\ form.edits \in Nat
  /\ saves.line \in Seq(Saves)
  /\ saves.failed \subseteq OpenItems /\ IsFiniteSet(saves.failed)
  /\ inbox \in Seq(Requests)
  /\ stored \in [OpenItems -> Nat]
  /\ \A k \in DOMAIN issued : issued[k] \in [OpenItems -> Nat]
  /\ {"kind", "answer"} \subseteq DOMAIN call /\ call.kind \in {"none", "score", "finalize"}

\* A mark is never younger than the last edit.
MarksAreOld ==
  /\ \A q \in OpenItems : form.marks[q] <= form.edits /\ stored[q] <= form.edits
  /\ \A k \in DOMAIN saves.line : saves.line[k].mark <= form.edits
  /\ \A k \in DOMAIN inbox : inbox[k].kind = "score" => inbox[k].save.mark <= form.edits
  /\ \A k \in DOMAIN issued, q \in OpenItems : issued[k][q] <= form.edits

\* The line ends with the latest mark of each question it has; a question that is neither
\* in it nor failed is stored, and no request can change it any more.
IsLast(k, line) == \A m \in DOMAIN line : m > k => line[m].q # line[k].q
AsksFor(r, q) == r.kind = "score" /\ r.save.q = q
Settled(q) == stored[q] = form.marks[q] /\ \A k \in DOMAIN inbox : ~AsksFor(inbox[k], q)
LineIsCurrent ==
  /\ \A k \in DOMAIN saves.line : IsLast(k, saves.line) => saves.line[k].mark = form.marks[saves.line[k].q]
  /\ \A q \in OpenItems \ saves.failed : (\A k \in DOMAIN saves.line : saves.line[k].q # q) => Settled(q)

\* What the page waits for is the last request, and an answer leaves none behind.
CallSound ==
  /\ call.kind = "score" => saves.line # << >>
  /\ call.kind = "finalize" => form.step = "asking"
  /\ call.answer # "none" => inbox = << >>
  /\ call.kind = "score" /\ call.answer = "ok" => stored[Head(saves.line).q] = Head(saves.line).mark
  /\ call.kind = "finalize" /\ call.answer = "ok" => issued # << >>
  /\ \A k \in DOMAIN inbox : inbox[k].awaited =>
       /\ k = Len(inbox) /\ inbox[k].kind = call.kind
       /\ call.kind = "score" => inbox[k].save = Head(saves.line)

\* Requests for the report were sent when everything was saved, and are served before
\* anything that was sent after them.
InboxSound ==
  /\ \A i, j \in DOMAIN inbox : i < j /\ inbox[j].kind = "finalize" => inbox[i].kind = "finalize"
  /\ inbox # << >> /\ inbox[1].kind = "finalize" => stored \in pressed

ScoringInv == ScoringTypes /\ MarksAreOld /\ LineIsCurrent /\ CallSound /\ InboxSound /\ ReportIsConfirmed

----------------------------------------------------------------------------

LEMMA FirstTaken ==
  ASSUME NEW S, NEW s \in Seq(S), s # << >>
  PROVE  /\ Tail(s) \in Seq(S) /\ Len(Tail(s)) = Len(s) - 1 /\ Head(s) = s[1] /\ s[1] \in S
         /\ Len(s) \in Nat \ {0} /\ DOMAIN s = 1..Len(s)
         /\ \A k \in 1..(Len(s) - 1) : Tail(s)[k] = s[k + 1]
OBVIOUS

LEMMA FirstRemoved ==
  ASSUME NEW S, NEW s \in Seq(S), s # << >>
  PROVE  /\ RemoveAt(s, 1) \in Seq(S) /\ Len(RemoveAt(s, 1)) = Len(s) - 1
         /\ \A k \in 1..(Len(s) - 1) : RemoveAt(s, 1)[k] = s[k + 1]
<1> DEFINE a == SubSeq(s, 1, 1 - 1)
           b == SubSeq(s, 1 + 1, Len(s))
<1>1. a = << >>
  OBVIOUS
<1>2. b \in Seq(S) /\ Len(b) = Len(s) - 1 /\ \A k \in 1..(Len(s) - 1) : b[k] = s[k + 1]
  <2>1. /\ Len(s) \in Nat \ {0} /\ 1 + 1 \in Int /\ Len(s) \in Int
        /\ \A k \in (1 + 1)..Len(s) : s[k] \in S
    BY FirstTaken
  <2>2. /\ b \in Seq(S)
        /\ Len(b) = IF 1 + 1 <= Len(s) THEN Len(s) - (1 + 1) + 1 ELSE 0
        /\ \A k \in 1..(Len(s) - (1 + 1) + 1) : b[k] = s[1 + 1 + k - 1]
    BY <2>1, SubSeqProperties
  <2> HIDE DEF b
  <2> DEFINE n == Len(s)
  <2>3. n \in Nat \ {0} /\ Len(b) = IF 1 + 1 <= n THEN n - (1 + 1) + 1 ELSE 0
    BY <2>1, <2>2
  <2> HIDE DEF n
  <2>4. Len(b) = n - 1
    BY <2>3
  <2>5. ASSUME NEW k \in 1..(Len(s) - 1) PROVE b[k] = s[k + 1]
    <3>1. k \in 1..(Len(s) - (1 + 1) + 1) /\ 1 + 1 + k - 1 = k + 1
      BY <2>1
    <3> QED
      BY <2>2, <3>1
  <2> QED
    BY <2>2, <2>4, <2>5 DEF n
<1>3. RemoveAt(s, 1) = a \o b
  BY DEF RemoveAt
<1> HIDE DEF a, b
<1>4. RemoveAt(s, 1) = b
  BY <1>1, <1>2, <1>3
<1> QED
  BY <1>2, <1>4

LEMMA OneAdded ==
  ASSUME NEW S, NEW s \in Seq(S), NEW e \in S
  PROVE  /\ Append(s, e) \in Seq(S) /\ Len(Append(s, e)) = Len(s) + 1 /\ Len(s) \in Nat
         /\ DOMAIN s = 1..Len(s) /\ DOMAIN Append(s, e) = 1..(Len(s) + 1)
         /\ \A k \in 1..Len(s) : Append(s, e)[k] = s[k]
         /\ Append(s, e)[Len(s) + 1] = e
OBVIOUS

\* SetToSeq lists every member of a finite set.
LEMMA AllListed ==
  ASSUME NEW S, IsFiniteSet(S)
  PROVE  /\ SetToSeq(S) \in Seq(S)
         /\ \A x \in S : \E k \in DOMAIN SetToSeq(S) : SetToSeq(S)[k] = x
<1> DEFINE n == Cardinality(S)
           f == SetToSeq(S)
<1>1. n \in Nat /\ ExistsBijection(1..n, S) /\ IsFiniteSet(1..n)
  BY FS_CardinalityType, FS_Interval
<1>2. \E g \in [1..n -> S] : IsInjective(g)
  BY <1>1 DEF ExistsBijection, Bijection, Injection
<1>3. f \in [1..n -> S] /\ IsInjective(f)
  BY <1>2 DEF SetToSeq
<1>4. f \in Injection(1..n, S)
  BY <1>3 DEF Injection
<1>5. Cardinality(1..n) = n
  BY <1>1, FS_Interval
<1> HIDE DEF f, n
<1>6. f \in Surjection(1..n, S)
  BY <1>1, <1>4, <1>5, FS_Injection DEF n
<1>7. f \in Seq(S)
  BY <1>1, <1>3
<1>8. \A x \in S : \E k \in 1..n : f[k] = x
  BY <1>6 DEF Surjection
<1>9. DOMAIN f = 1..n
  BY <1>3
<1> QED
  BY <1>7, <1>8, <1>9 DEF f

\* Only the step of the page changes, or its call ends.
LEMMA StepChanges ==
  ASSUME ScoringInv, NEW t, form' = [form EXCEPT !.step = t], call' \in {call, NoCall},
         UNCHANGED <<saves, inbox, stored, issued>>, pressed \subseteq pressed',
         call'.kind = "finalize" => t = "asking",
         call' # call => call.answer # "none",
         t = "report" => issued # << >>
  PROVE  ScoringInv'
<1>1. /\ DOMAIN form' = {"marks", "blanks", "edits", "step"} /\ form'.marks = form.marks
      /\ form'.blanks = form.blanks /\ form'.edits = form.edits /\ form'.step = t
  BY DEF ScoringInv, ScoringTypes
<1>2. ScoringTypes'
  BY <1>1 DEF ScoringInv, ScoringTypes, NoCall
<1>3. MarksAreOld'
  BY <1>1 DEF ScoringInv, MarksAreOld
<1>4. LineIsCurrent'
  BY <1>1 DEF ScoringInv, LineIsCurrent, IsLast, Settled, AsksFor
<1>5. CallSound'
  BY <1>1 DEF ScoringInv, CallSound, NoCall
<1>6. InboxSound'
  BY DEF ScoringInv, InboxSound
<1>7. ReportIsConfirmed'
  BY <1>1 DEF ScoringInv, ReportIsConfirmed, AllMarked, IsMark
<1> QED
  BY <1>2, <1>3, <1>4, <1>5, <1>6, <1>7 DEF ScoringInv

LEMMA DialogKeeps ==
  ASSUME ScoringInv, PressFinalize \/ AnswerDialog \/ ReportAnswered
  PROVE  ScoringInv'
<1>1. call.kind = "finalize" => form.step = "asking"
  BY DEF ScoringInv, CallSound
<1>2. CASE PressFinalize
  BY <1>1, <1>2, StepChanges DEF PressFinalize
<1>3. CASE AnswerDialog
  <2>1. PICK yes \in BOOLEAN : form' = [form EXCEPT !.step = IF yes THEN "closing" ELSE "editing"]
    BY <1>3 DEF AnswerDialog
  <2> QED
    BY <1>1, <1>3, <2>1, StepChanges DEF AnswerDialog
<1>4. CASE ReportAnswered
  <2>1. form' = [form EXCEPT !.step = IF call.answer = "ok" THEN "report" ELSE "editing"]
    BY <1>4 DEF ReportAnswered
  <2>2. call.answer = "ok" => issued # << >>
    BY <1>4 DEF ReportAnswered, ScoringInv, CallSound
  <2> QED
    BY <1>4, <2>1, <2>2, StepChanges DEF ReportAnswered, NoCall
<1> QED
  BY <1>2, <1>3, <1>4

\* The server takes the first request.
LEMMA InboxShrinks ==
  ASSUME ScoringInv, inbox # << >>, inbox' = RemoveAt(inbox, 1)
  PROVE  /\ inbox[1] \in Requests /\ 1 \in DOMAIN inbox
         /\ inbox' \in Seq(Requests)
         /\ \A k \in DOMAIN inbox' : k + 1 \in DOMAIN inbox /\ inbox'[k] = inbox[k + 1]
         /\ \A k \in DOMAIN inbox' : k \in Nat
         /\ inbox[1].awaited => inbox' = << >> /\ call.answer = "none"
         /\ Len(inbox') = Len(inbox) - 1 /\ Len(inbox) \in Nat
<1>1. inbox \in Seq(Requests)
  BY DEF ScoringInv, ScoringTypes
<1> HIDE DEF Requests
<1>2. /\ inbox' \in Seq(Requests) /\ Len(inbox') = Len(inbox) - 1
      /\ \A k \in 1..(Len(inbox) - 1) : inbox'[k] = inbox[k + 1]
  BY <1>1, FirstRemoved
<1>3. Len(inbox) \in Nat \ {0} /\ DOMAIN inbox = 1..Len(inbox) /\ inbox[1] \in Requests
  BY <1>1, FirstTaken
<1>4. DOMAIN inbox' = 1..(Len(inbox) - 1)
  BY <1>2
<1>5. ASSUME inbox[1].awaited PROVE inbox' = << >> /\ call.answer = "none"
  <2>1. Len(inbox) = 1
    BY <1>3, <1>5 DEF ScoringInv, CallSound
  <2>2. Len(inbox') = 0
    BY <1>2, <1>3, <2>1
  <2>3. inbox' = << >>
    BY <1>2, <2>2
  <2>4. call.answer = "none"
    BY <1>3 DEF ScoringInv, CallSound
  <2> QED
    BY <2>3, <2>4
<1> QED
  BY <1>2, <1>3, <1>4, <1>5

LEMMA ServingKeeps ==
  ASSUME ScoringInv, inbox # << >>, inbox' = RemoveAt(inbox, 1), UNCHANGED <<form, saves, pressed>>,
         NEW what, Answer(inbox[1], what),
         \/ stored' = stored
         \/ /\ inbox[1].kind = "score"
            /\ stored' = [stored EXCEPT ![inbox[1].save.q] = inbox[1].save.mark],
         inbox[1].kind = "score" /\ what = "ok" => stored'[inbox[1].save.q] = inbox[1].save.mark,
         issued' = issued \/ (inbox[1].kind = "finalize" /\ AllMarked(stored) /\ issued' = <<stored>>),
         inbox[1].kind = "finalize" /\ what = "ok" => issued' # << >>
  PROVE  ScoringInv'
<1> DEFINE r == inbox[1]
<1>1. /\ r \in Requests /\ 1 \in DOMAIN inbox /\ inbox' \in Seq(Requests)
      /\ \A k \in DOMAIN inbox' : k + 1 \in DOMAIN inbox /\ inbox'[k] = inbox[k + 1] /\ k \in Nat
      /\ r.awaited => inbox' = << >> /\ call.answer = "none"
      /\ Len(inbox') = Len(inbox) - 1 /\ Len(inbox) \in Nat
  BY InboxShrinks
<1>2. call' = call \/ (r.awaited /\ call' = [call EXCEPT !.answer = what])
  BY DEF Answer
<1>3. r.kind = "score" => r.save \in Saves /\ r.save.q \in OpenItems /\ r.save.mark \in Nat
  BY <1>1 DEF Requests, Saves
<1>4. call'.kind = call.kind /\ {"kind", "answer"} \subseteq DOMAIN call'
  BY <1>2 DEF ScoringInv, ScoringTypes
<1>5. ScoringTypes'
  BY <1>1, <1>3, <1>4 DEF ScoringInv, ScoringTypes
<1>6. \A q \in OpenItems : stored'[q] <= form.edits
  BY <1>1, <1>3 DEF ScoringInv, MarksAreOld, ScoringTypes
<1>7. issued' = issued \/ issued' = <<stored>>
  OBVIOUS
<1>8. \A k \in DOMAIN issued', q \in OpenItems : issued'[k][q] <= form.edits
  BY <1>7 DEF ScoringInv, MarksAreOld
<1>9. MarksAreOld'
  BY <1>1, <1>6, <1>8 DEF ScoringInv, MarksAreOld
<1>10. LineIsCurrent'
  <2>1. ASSUME NEW q \in OpenItems, Settled(q) PROVE Settled(q)'
    <3>1. ~AsksFor(r, q)
      BY <1>1, <2>1 DEF Settled
    <3>2. stored'[q] = stored[q]
      BY <1>3, <3>1 DEF AsksFor, ScoringInv, ScoringTypes
    <3>3. \A k \in DOMAIN inbox' : ~AsksFor(inbox'[k], q)
      BY <1>1, <2>1 DEF Settled
    <3> QED
      BY <2>1, <3>2, <3>3 DEF Settled, AsksFor
  <2> QED
    BY <2>1 DEF ScoringInv, LineIsCurrent, IsLast
<1>11. InboxSound'
  <2>1. \A i, j \in DOMAIN inbox' : i < j /\ inbox'[j].kind = "finalize" => inbox'[i].kind = "finalize"
    BY <1>1 DEF ScoringInv, InboxSound
  <2>2. ASSUME inbox' # << >>, inbox'[1].kind = "finalize" PROVE stored' \in pressed
    <3>1. 1 \in DOMAIN inbox' /\ 1 + 1 \in DOMAIN inbox /\ inbox[1 + 1].kind = "finalize"
      BY <1>1, <2>2
    <3>2. r.kind = "finalize"
      BY <1>1, <3>1 DEF ScoringInv, InboxSound
    <3> QED
      BY <3>2 DEF ScoringInv, InboxSound
  <2> QED
    BY <2>1, <2>2 DEF InboxSound
<1>12. r.awaited => r.kind = call.kind /\ (call.kind = "score" => r.save = Head(saves.line))
  BY <1>1 DEF ScoringInv, CallSound
<1>13. CallSound'
  <2>1. \A k \in DOMAIN inbox' : inbox'[k].awaited =>
          /\ k = Len(inbox') /\ inbox'[k].kind = call'.kind
          /\ call'.kind = "score" => inbox'[k].save = Head(saves.line)
    BY <1>1, <1>4 DEF ScoringInv, CallSound
  <2>2. CASE r.awaited /\ call' = [call EXCEPT !.answer = what]
    <3>1. call'.answer = what /\ inbox' = << >>
      BY <1>1, <2>2 DEF ScoringInv, ScoringTypes
    <3> QED
      BY <1>4, <1>12, <2>1, <2>2, <3>1 DEF ScoringInv, CallSound
  <2>3. CASE call' = call
    <3>1. call.answer # "none" => FALSE
      BY DEF ScoringInv, CallSound
    <3> QED
      BY <2>1, <2>3, <3>1 DEF ScoringInv, CallSound
  <2> QED
    BY <1>2, <2>2, <2>3
<1>14. ReportIsConfirmed'
  <2>1. AllMarked(stored) /\ r.kind = "finalize" => stored \in pressed
    BY DEF ScoringInv, InboxSound
  <2> QED
    BY <2>1 DEF ScoringInv, ReportIsConfirmed, AllMarked, IsMark
<1> QED
  BY <1>5, <1>9, <1>10, <1>11, <1>13, <1>14 DEF ScoringInv

LEMMA ServerKeeps ==
  ASSUME ScoringInv, InOrder, ServeScore \/ ServeFinalize \/ ServeFails
  PROVE  ScoringInv'
<1> USE DEF Takes
<1>1. CASE ServeScore
  <2>1. /\ 1 \in DOMAIN inbox /\ inbox[1].kind = "score" /\ inbox' = RemoveAt(inbox, 1)
        /\ IF issued = << >>
           THEN stored' = [stored EXCEPT ![inbox[1].save.q] = inbox[1].save.mark] /\ Answer(inbox[1], "ok")
           ELSE UNCHANGED stored /\ Answer(inbox[1], "refused")
        /\ UNCHANGED <<form, saves, issued, pressed, troubles>>
    BY <1>1 DEF ServeScore
  <2>2. inbox # << >>
    BY <2>1
  <2>3. inbox[1].save.q \in OpenItems
    BY <2>1 DEF ScoringInv, ScoringTypes, Requests, Saves
  <2>4. CASE issued = << >>
    <3>1. stored'[inbox[1].save.q] = inbox[1].save.mark
      BY <2>1, <2>3, <2>4 DEF ScoringInv, ScoringTypes
    <3> QED
      BY <2>1, <2>2, <2>4, <3>1, ServingKeeps
  <2> QED
    BY <2>1, <2>2, <2>4, ServingKeeps
<1>2. CASE ServeFinalize
  <2>1. /\ 1 \in DOMAIN inbox /\ inbox[1].kind = "finalize" /\ inbox' = RemoveAt(inbox, 1)
        /\ IF issued # << >> THEN UNCHANGED issued /\ Answer(inbox[1], "ok")
           ELSE IF ~AllMarked(stored) THEN UNCHANGED issued /\ Answer(inbox[1], "refused")
           ELSE issued' = <<stored>> /\ Answer(inbox[1], "ok")
        /\ UNCHANGED <<form, saves, stored, pressed, troubles>>
    BY <1>2 DEF ServeFinalize
  <2>2. inbox # << >>
    BY <2>1
  <2> QED
    BY <2>1, <2>2, ServingKeeps
<1>3. CASE ServeFails
  <2>1. /\ 1 \in DOMAIN inbox /\ inbox' = RemoveAt(inbox, 1) /\ Answer(inbox[1], "failed")
        /\ \/ UNCHANGED issued
           \/ inbox[1].kind = "finalize" /\ issued = << >> /\ AllMarked(stored) /\ issued' = <<stored>>
        /\ UNCHANGED <<form, saves, stored, pressed>>
    BY <1>3 DEF ServeFails
  <2>2. inbox # << >>
    BY <2>1
  <2> QED
    BY <2>1, <2>2, ServingKeeps
<1> QED
  BY <1>1, <1>2, <1>3

\* The first save of the line ends.
LEMMA SaveLeaves ==
  ASSUME ScoringInv, NEW done \in BOOLEAN, saves.line # << >>, SaveEnds(done), UNCHANGED <<form, stored>>,
         \A q \in OpenItems : (\A k \in DOMAIN inbox : ~AsksFor(inbox[k], q))
                                => (\A k \in DOMAIN inbox' : ~AsksFor(inbox'[k], q)),
         done => inbox' = << >> /\ stored[Head(saves.line).q] = Head(saves.line).mark
  PROVE  /\ LineIsCurrent'
         /\ saves'.line \in Seq(Saves) /\ \A k \in DOMAIN saves'.line : saves'.line[k].mark <= form.edits
         /\ saves'.failed \subseteq OpenItems /\ IsFiniteSet(saves'.failed)
<1> DEFINE line == saves.line
           q0 == line[1].q
<1>1. line \in Seq(Saves)
  BY DEF ScoringInv, ScoringTypes
<1>2. /\ Tail(line) \in Seq(Saves) /\ Len(Tail(line)) = Len(line) - 1 /\ Head(line) = line[1] /\ line[1] \in Saves
      /\ Len(line) \in Nat \ {0} /\ DOMAIN line = 1..Len(line)
      /\ \A k \in 1..(Len(line) - 1) : Tail(line)[k] = line[k + 1]
  BY <1>1, FirstTaken
<1>3. saves'.line = Tail(line) /\ saves'.failed = AfterSave(q0, done)
  BY <1>2 DEF SaveEnds
<1>4. DOMAIN saves'.line = 1..(Len(line) - 1) /\ \A k \in DOMAIN saves'.line : saves'.line[k] = line[k + 1]
  BY <1>2, <1>3
<1>5. q0 \in OpenItems /\ line[1].mark \in Nat
  BY <1>2 DEF Saves
<1>6. saves'.failed \subseteq OpenItems /\ IsFiniteSet(saves'.failed)
  <2>1. IsFiniteSet(saves.failed \cup {q0})
    BY FS_AddElement DEF ScoringInv, ScoringTypes
  <2> QED
    BY <1>3, <1>5, <2>1 DEF AfterSave, ScoringInv, ScoringTypes
<1>7. saves'.line \in Seq(Saves)
  BY <1>2, <1>3
<1>8. \A k \in DOMAIN saves'.line : k + 1 \in DOMAIN line
  BY <1>2, <1>4
<1>9. \A k \in DOMAIN saves'.line : saves'.line[k].mark <= form.edits
  BY <1>4, <1>8 DEF ScoringInv, MarksAreOld
<1>10. ASSUME NEW k \in DOMAIN saves'.line, IsLast(k, saves'.line)
       PROVE  saves'.line[k].mark = form.marks[saves'.line[k].q]
  <2>1. k \in Nat /\ k >= 1 /\ k + 1 \in DOMAIN line
    BY <1>2, <1>4
  <2>2. ASSUME NEW m \in DOMAIN line, m > k + 1 PROVE line[m].q # line[k + 1].q
    <3>1. m - 1 \in DOMAIN saves'.line /\ m - 1 > k /\ (m - 1) + 1 = m
      BY <1>2, <1>4, <2>1, <2>2
    <3>2. saves'.line[m - 1] = line[m] /\ saves'.line[k] = line[k + 1]
      BY <1>4, <3>1
    <3> QED
      BY <1>10, <3>1, <3>2 DEF IsLast
  <2>3. IsLast(k + 1, line)
    BY <2>2 DEF IsLast
  <2> QED
    BY <1>4, <2>1, <2>3 DEF ScoringInv, LineIsCurrent
<1>11. ASSUME NEW q \in OpenItems \ saves'.failed, \A k \in DOMAIN saves'.line : saves'.line[k].q # q
       PROVE  Settled(q)'
  <2>1. q \notin saves.failed
    BY <1>3 DEF AfterSave
  <2>2. ASSUME NEW m \in DOMAIN line, m # 1 PROVE line[m].q # q
    <3>1. m - 1 \in DOMAIN saves'.line /\ (m - 1) + 1 = m
      BY <1>2, <1>4, <2>2
    <3> QED
      BY <1>4, <1>11, <3>1
  <2>3. CASE q # q0
    <3>1. \A k \in DOMAIN line : line[k].q # q
      BY <2>2, <2>3
    <3>2. Settled(q)
      BY <2>1, <3>1 DEF ScoringInv, LineIsCurrent
    <3> QED
      BY <3>2 DEF Settled, AsksFor
  <2>4. CASE q = q0
    <3>1. ~Superseded(q)
      BY <1>2, <2>2 DEF Superseded
    <3>2. done
      BY <1>3, <1>11, <2>4, <3>1 DEF AfterSave
    <3>3. inbox' = << >> /\ stored[q] = line[1].mark
      BY <1>2, <2>4, <3>2
    <3>4. 1 \in DOMAIN line /\ IsLast(1, line)
      BY <1>2, <2>2, <2>4 DEF IsLast
    <3>5. line[1].mark = form.marks[q]
      BY <2>4, <3>4 DEF ScoringInv, LineIsCurrent
    <3>6. \A k \in DOMAIN inbox' : FALSE
      BY <3>3
    <3> QED
      BY <3>3, <3>5, <3>6 DEF Settled
  <2> QED
    BY <2>3, <2>4
<1>12. LineIsCurrent'
  BY <1>10, <1>11 DEF LineIsCurrent, IsLast
<1> QED
  BY <1>6, <1>7, <1>9, <1>12

LEMMA SaveAnsweredKeeps ==
  ASSUME ScoringInv, SaveAnswered
  PROVE  ScoringInv'
<1> DEFINE done == call.answer = "ok"
<1>1. /\ call.kind = "score" /\ call.answer # "none" /\ SaveEnds(done) /\ call' = NoCall
      /\ UNCHANGED <<form, inbox, stored, issued, pressed, troubles>>
  BY DEF SaveAnswered
<1>2. saves.line # << >> /\ inbox = << >> /\ (done => stored[Head(saves.line).q] = Head(saves.line).mark)
  BY <1>1 DEF ScoringInv, CallSound
<1>3. done \in BOOLEAN
  OBVIOUS
<1> HIDE DEF done
<1>4. /\ LineIsCurrent'
      /\ saves'.line \in Seq(Saves) /\ \A k \in DOMAIN saves'.line : saves'.line[k].mark <= form.edits
      /\ saves'.failed \subseteq OpenItems /\ IsFiniteSet(saves'.failed)
  BY <1>1, <1>2, <1>3, SaveLeaves
<1>5. ScoringTypes'
  BY <1>1, <1>4 DEF ScoringInv, ScoringTypes, NoCall
<1>6. MarksAreOld'
  BY <1>1, <1>4 DEF ScoringInv, MarksAreOld
<1>7. CallSound'
  BY <1>1, <1>2 DEF ScoringInv, CallSound, NoCall
<1>8. InboxSound' /\ ReportIsConfirmed'
  BY <1>1 DEF ScoringInv, InboxSound, ReportIsConfirmed, AllMarked, IsMark
<1> QED
  BY <1>4, <1>5, <1>6, <1>7, <1>8 DEF ScoringInv

LEMMA GiveUpKeeps ==
  ASSUME ScoringInv, GiveUpCall
  PROVE  ScoringInv'
<1>1. /\ call.kind # "none" /\ call' = NoCall /\ UNCHANGED <<stored, issued, pressed>>
      /\ inbox' = [k \in DOMAIN inbox |-> [inbox[k] EXCEPT !.awaited = FALSE]]
      /\ \/ call.kind = "score" /\ SaveEnds(FALSE) /\ UNCHANGED form
         \/ call.kind = "finalize" /\ form' = [form EXCEPT !.step = "editing"] /\ UNCHANGED saves
  BY DEF GiveUpCall
<1>2. Len(inbox) \in Nat /\ DOMAIN inbox = 1..Len(inbox) /\ \A k \in 1..Len(inbox) : inbox[k] \in Requests
  <2>1. inbox \in Seq(Requests)
    BY DEF ScoringInv, ScoringTypes
  <2> HIDE DEF Requests
  <2> QED
    BY <2>1
<1>3. ASSUME NEW k \in DOMAIN inbox
      PROVE  /\ inbox'[k] \in Requests /\ ~inbox'[k].awaited /\ inbox'[k].kind = inbox[k].kind
             /\ inbox[k].kind = "score" => inbox'[k].save = inbox[k].save
  BY <1>1, <1>2 DEF Requests
<1>4. DOMAIN inbox' = DOMAIN inbox
  BY <1>1
<1>5. inbox' \in Seq(Requests)
  <2>1. inbox' \in [1..Len(inbox) -> Requests]
    BY <1>1, <1>2, <1>3
  <2> QED
    BY <1>2, <2>1
<1>6. \A q \in OpenItems : (\A k \in DOMAIN inbox : ~AsksFor(inbox[k], q))
                             => (\A k \in DOMAIN inbox' : ~AsksFor(inbox'[k], q))
  BY <1>3, <1>4 DEF AsksFor
<1>7. /\ DOMAIN form' = {"marks", "blanks", "edits", "step"} /\ form'.marks = form.marks
      /\ form'.blanks = form.blanks /\ form'.edits = form.edits
      /\ form'.step # "report" \/ form'.step = form.step
  BY <1>1 DEF ScoringInv, ScoringTypes
<1>8. /\ LineIsCurrent'
      /\ saves'.line \in Seq(Saves) /\ \A k \in DOMAIN saves'.line : saves'.line[k].mark <= form.edits
      /\ saves'.failed \subseteq OpenItems /\ IsFiniteSet(saves'.failed)
  <2>1. CASE call.kind = "score" /\ SaveEnds(FALSE) /\ UNCHANGED form
    <3>1. saves.line # << >>
      BY <2>1 DEF ScoringInv, CallSound
    <3> QED
      BY <1>1, <1>6, <2>1, <3>1, SaveLeaves
  <2>2. CASE UNCHANGED saves
    <3>1. \A q \in OpenItems : Settled(q) => Settled(q)'
      BY <1>1, <1>6, <1>7 DEF Settled, AsksFor
    <3>2. LineIsCurrent'
      BY <1>7, <2>2, <3>1 DEF ScoringInv, LineIsCurrent, IsLast
    <3> QED
      BY <2>2, <3>2 DEF ScoringInv, ScoringTypes, MarksAreOld
  <2> QED
    BY <1>1, <2>1, <2>2
<1>9. ScoringTypes'
  BY <1>1, <1>5, <1>7, <1>8 DEF ScoringInv, ScoringTypes, NoCall
<1>10. MarksAreOld'
  BY <1>1, <1>3, <1>4, <1>7, <1>8 DEF ScoringInv, MarksAreOld
<1>11. CallSound'
  BY <1>1, <1>3, <1>4 DEF CallSound, NoCall
<1>12. InboxSound'
  <2>1. \A i, j \in DOMAIN inbox' : i < j /\ inbox'[j].kind = "finalize" => inbox'[i].kind = "finalize"
    BY <1>3, <1>4 DEF ScoringInv, InboxSound
  <2>2. inbox' # << >> => inbox # << >> /\ 1 \in DOMAIN inbox
    BY <1>2, <1>4, <1>5
  <2> QED
    BY <1>1, <1>3, <2>1, <2>2 DEF ScoringInv, InboxSound
<1>13. ReportIsConfirmed'
  BY <1>1, <1>7 DEF ScoringInv, ReportIsConfirmed, AllMarked, IsMark
<1> QED
  BY <1>8, <1>9, <1>10, <1>11, <1>12, <1>13 DEF ScoringInv

LEMMA RestartKeeps ==
  ASSUME ScoringInv, RestartServer
  PROVE  ScoringInv'
<1>1. inbox' = << >> /\ DOMAIN inbox' = {} /\ inbox' \in Seq(Requests)
      /\ UNCHANGED <<form, saves, call, stored, issued, pressed>>
  BY DEF RestartServer
<1>2. ScoringTypes' /\ MarksAreOld'
  BY <1>1 DEF ScoringInv, ScoringTypes, MarksAreOld
<1>3. LineIsCurrent'
  BY <1>1 DEF ScoringInv, LineIsCurrent, IsLast, Settled
<1>4. CallSound' /\ InboxSound' /\ ReportIsConfirmed'
  BY <1>1 DEF ScoringInv, CallSound, InboxSound, ReportIsConfirmed, AllMarked, IsMark
<1> QED
  BY <1>2, <1>3, <1>4 DEF ScoringInv

\* A save is added: it becomes the last of its question and of no other.
LEMMA EditKeeps ==
  ASSUME ScoringInv, Edit
  PROVE  ScoringInv'
<1> DEFINE line == saves.line
           n == Len(line)
           e == form.edits + 1
<1>1. PICK q \in OpenItems, blank \in BOOLEAN :
        /\ form' = [form EXCEPT !.marks[q] = e, !.edits = e, !.blanks = IF blank THEN @ \cup {e} ELSE @]
        /\ saves' = Enqueue(q, e)
  BY DEF Edit
<1>2. Editable /\ UNCHANGED <<call, inbox, stored, issued, pressed, troubles>>
  BY DEF Edit
<1>3. /\ DOMAIN form' = {"marks", "blanks", "edits", "step"} /\ form'.marks = [form.marks EXCEPT ![q] = e]
      /\ form'.blanks \subseteq form.blanks \cup {e} /\ form'.edits = e /\ form'.step = form.step
      /\ form.edits \in Nat /\ e \in Nat /\ form.edits < e
  BY <1>1 DEF ScoringInv, ScoringTypes
<1>4. saves'.line = Append(line, Save(q, e)) /\ saves'.failed = saves.failed \ {q}
  BY <1>1 DEF Enqueue
<1>5. line \in Seq(Saves) /\ Save(q, e) \in Saves /\ Save(q, e).q = q /\ Save(q, e).mark = e
  BY <1>3 DEF ScoringInv, ScoringTypes, Saves, Save
<1>6. /\ saves'.line \in Seq(Saves) /\ n \in Nat
      /\ DOMAIN line = 1..n /\ DOMAIN saves'.line = 1..(n + 1)
      /\ \A k \in 1..n : saves'.line[k] = line[k]
      /\ saves'.line[n + 1] = Save(q, e)
      /\ \A k \in 1..n : line[k].q \in OpenItems /\ line[k].mark \in Nat
  <2>1. \A k \in 1..n : line[k] \in Saves
    BY <1>5
  <2>2. \A k \in 1..n : line[k].q \in OpenItems /\ line[k].mark \in Nat
    BY <2>1 DEF Saves
  <2> QED
    BY <1>4, <1>5, <2>2, OneAdded
<1> HIDE DEF e, n
<1>7. ScoringTypes'
  <2>1. IsFiniteSet(saves'.failed)
    BY <1>4, FS_Subset DEF ScoringInv, ScoringTypes
  <2>2. form'.marks \in [OpenItems -> Nat]
    BY <1>3 DEF ScoringInv, ScoringTypes
  <2> QED
    BY <1>2, <1>3, <1>4, <1>6, <2>1, <2>2 DEF ScoringInv, ScoringTypes
<1>8. MarksAreOld'
  <2>1. \A x \in OpenItems : form'.marks[x] <= e /\ stored[x] <= e
    BY <1>3 DEF ScoringInv, ScoringTypes, MarksAreOld
  <2>2. \A k \in 1..n : saves'.line[k].mark <= e
    <3>1. \A k \in 1..n : line[k].mark \in Nat /\ line[k].mark <= form.edits
      BY <1>6 DEF ScoringInv, MarksAreOld
    <3> QED
      BY <1>3, <1>6, <3>1
  <2>3. \A k \in DOMAIN saves'.line : saves'.line[k].mark <= e
    BY <1>3, <1>5, <1>6, <2>2
  <2>4. \A k \in DOMAIN inbox : inbox[k].kind = "score" => inbox[k].save.mark <= e
    <3>1. \A k \in DOMAIN inbox : inbox[k].kind = "score" => inbox[k].save.mark \in Nat
      BY DEF ScoringInv, ScoringTypes, Requests, Saves
    <3> QED
      BY <1>3, <3>1 DEF ScoringInv, MarksAreOld
  <2>5. \A k \in DOMAIN issued, x \in OpenItems : issued[k][x] <= e
    <3>1. \A k \in DOMAIN issued, x \in OpenItems : issued[k][x] \in Nat /\ issued[k][x] <= form.edits
      BY DEF ScoringInv, ScoringTypes, MarksAreOld
    <3> QED
      BY <1>3, <3>1
  <2> QED
    BY <1>2, <1>3, <2>1, <2>3, <2>4, <2>5 DEF MarksAreOld
<1>9. LineIsCurrent'
  <2>1. ASSUME NEW k \in DOMAIN saves'.line, IsLast(k, saves'.line)
        PROVE  saves'.line[k].mark = form'.marks[saves'.line[k].q]
    <3>1. CASE k = n + 1
      BY <1>3, <1>5, <1>6, <3>1 DEF ScoringInv, ScoringTypes
    <3>2. CASE k \in 1..n
      <4>1. n + 1 \in DOMAIN saves'.line /\ n + 1 > k
        BY <1>6, <3>2
      <4>2. line[k].q # q
        BY <1>5, <1>6, <2>1, <3>2, <4>1 DEF IsLast
      <4>3. \A m \in DOMAIN line : m \in DOMAIN saves'.line /\ saves'.line[m] = line[m]
        BY <1>6
      <4>4. IsLast(k, line)
        BY <1>6, <2>1, <3>2, <4>3 DEF IsLast
      <4>5. line[k].mark = form.marks[line[k].q] /\ line[k].q \in OpenItems
        BY <1>6, <3>2, <4>4 DEF ScoringInv, LineIsCurrent
      <4>6. form'.marks[line[k].q] = form.marks[line[k].q]
        BY <1>3, <4>2, <4>5 DEF ScoringInv, ScoringTypes
      <4> QED
        BY <1>6, <3>2, <4>5, <4>6
    <3> QED
      BY <1>6, <3>1, <3>2
  <2>2. ASSUME NEW x \in OpenItems \ saves'.failed, \A k \in DOMAIN saves'.line : saves'.line[k].q # x
        PROVE  Settled(x)'
    <3>1. x # q
      BY <1>5, <1>6, <2>2
    <3>2. \A k \in DOMAIN line : line[k].q # x
      BY <1>6, <2>2
    <3>3. Settled(x)
      BY <1>4, <3>1, <3>2 DEF ScoringInv, LineIsCurrent
    <3> QED
      BY <1>2, <1>3, <3>1, <3>3 DEF Settled, AsksFor, ScoringInv, ScoringTypes
  <2> QED
    BY <2>1, <2>2 DEF LineIsCurrent, IsLast
<1>10. CallSound'
  <2>1. call.kind = "score" => Head(saves'.line) = Head(line) /\ saves'.line # << >> /\ line # << >>
    BY <1>4, <1>5 DEF ScoringInv, CallSound
  <2> QED
    BY <1>2, <1>3, <2>1 DEF ScoringInv, CallSound
<1>11. InboxSound'
  BY <1>2 DEF ScoringInv, InboxSound
<1>12. ReportIsConfirmed'
  <2>1. \A k \in DOMAIN issued, x \in OpenItems : issued[k][x] # e
    BY <1>3 DEF ScoringInv, MarksAreOld
  <2> QED
    BY <1>2, <1>3, <2>1 DEF ScoringInv, ReportIsConfirmed, AllMarked, IsMark
<1> QED
  BY <1>7, <1>8, <1>9, <1>10, <1>11, <1>12 DEF ScoringInv

LEMMA RetryKeeps ==
  ASSUME ScoringInv, RetrySaves
  PROVE  ScoringInv'
<1> DEFINE f == SetToSeq(saves.failed)
<1>1. f \in Seq(saves.failed) /\ \A q \in saves.failed : \E k \in DOMAIN f : f[k] = q
  BY AllListed DEF ScoringInv, ScoringTypes
<1>2. /\ saves.line = << >> /\ saves'.line = [k \in DOMAIN f |-> Save(f[k], form.marks[f[k]])] /\ saves'.failed = {}
      /\ UNCHANGED <<form, call, inbox, stored, issued, pressed, troubles>>
  BY DEF RetrySaves
<1> HIDE DEF f
<1>3. DOMAIN f = 1..Len(f) /\ Len(f) \in Nat /\ \A k \in 1..Len(f) : f[k] \in OpenItems
  BY <1>1 DEF ScoringInv, ScoringTypes
<1>4. \A k \in DOMAIN f : /\ saves'.line[k] \in Saves /\ saves'.line[k].q = f[k]
                          /\ saves'.line[k].mark = form.marks[f[k]]
  BY <1>2, <1>3 DEF Save, Saves, ScoringInv, ScoringTypes
<1>5. DOMAIN saves'.line = DOMAIN f
  BY <1>2
<1>6. saves'.line \in Seq(Saves)
  <2>1. saves'.line \in [1..Len(f) -> Saves]
    BY <1>2, <1>3, <1>4
  <2> QED
    BY <1>3, <2>1
<1>7. ScoringTypes'
  <2>1. IsFiniteSet({})
    BY FS_EmptySet
  <2> QED
    BY <1>2, <1>6, <2>1 DEF ScoringInv, ScoringTypes
<1>8. MarksAreOld'
  BY <1>2, <1>3, <1>4, <1>5 DEF ScoringInv, MarksAreOld
<1>9. LineIsCurrent'
  <2>1. ASSUME NEW q \in OpenItems, \A k \in DOMAIN saves'.line : saves'.line[k].q # q
        PROVE  Settled(q)'
    <3>1. q \notin saves.failed
      BY <1>1, <1>4, <1>5, <2>1
    <3>2. Settled(q)
      BY <1>2, <3>1 DEF ScoringInv, LineIsCurrent
    <3> QED
      BY <1>2, <3>2 DEF Settled, AsksFor
  <2> QED
    BY <1>2, <1>4, <1>5, <2>1 DEF LineIsCurrent
<1>10. CallSound' /\ InboxSound' /\ ReportIsConfirmed'
  BY <1>2 DEF ScoringInv, CallSound, InboxSound, ReportIsConfirmed, AllMarked, IsMark
<1> QED
  BY <1>7, <1>8, <1>9, <1>10 DEF ScoringInv

\* A request leaves the page that waits for none.
LEMMA InboxGrows ==
  ASSUME ScoringInv, NEW r \in Requests, Dispatch(r), call.kind = "none"
  PROVE  /\ call' = [kind |-> r.kind, answer |-> "none"]
         /\ inbox' \in Seq(Requests)
         /\ \A k \in DOMAIN inbox : ~inbox[k].awaited
         /\ \/ inbox' = inbox
            \/ /\ DOMAIN inbox' = 1..(Len(inbox) + 1) /\ Len(inbox') = Len(inbox) + 1
               /\ DOMAIN inbox = 1..Len(inbox) /\ Len(inbox) \in Nat
               /\ inbox'[Len(inbox) + 1] = r
               /\ \A k \in DOMAIN inbox : inbox'[k] = inbox[k]
<1>1. inbox \in Seq(Requests)
  BY DEF ScoringInv, ScoringTypes
<1>2. \A k \in DOMAIN inbox : inbox[k] \in Requests
  BY <1>1
<1>3. \A k \in DOMAIN inbox : ~inbox[k].awaited
  BY <1>2 DEF ScoringInv, CallSound, Requests
<1> HIDE DEF Requests
<1>4. CASE inbox' = inbox
  BY <1>1, <1>3, <1>4 DEF Dispatch
<1>5. CASE inbox' = Append(inbox, r)
  BY <1>1, <1>3, <1>5, OneAdded DEF Dispatch
<1> QED
  BY <1>4, <1>5 DEF Dispatch

LEMMA SendKeeps ==
  ASSUME ScoringInv, SendSave
  PROVE  ScoringInv'
<1> DEFINE r == [kind |-> "score", save |-> Head(saves.line), awaited |-> TRUE]
<1>1. saves.line # << >> /\ call.kind = "none" /\ Dispatch(r)
      /\ UNCHANGED <<form, saves, stored, issued, pressed, troubles>>
  BY DEF SendSave
<1>2. Head(saves.line) = saves.line[1] /\ 1 \in DOMAIN saves.line /\ saves.line[1] \in Saves
  <2>1. saves.line \in Seq(Saves)
    BY DEF ScoringInv, ScoringTypes
  <2> HIDE DEF Saves
  <2> QED
    BY <1>1, <2>1, FirstTaken
<1>3. r \in Requests /\ r.kind = "score" /\ r.save = Head(saves.line) /\ r.save.mark <= form.edits
  BY <1>2 DEF Requests, ScoringInv, MarksAreOld
<1> HIDE DEF r
<1>4. /\ call' = [kind |-> "score", answer |-> "none"]
      /\ inbox' \in Seq(Requests)
      /\ \A k \in DOMAIN inbox : ~inbox[k].awaited
      /\ \/ inbox' = inbox
         \/ /\ DOMAIN inbox' = 1..(Len(inbox) + 1) /\ Len(inbox') = Len(inbox) + 1
            /\ DOMAIN inbox = 1..Len(inbox) /\ Len(inbox) \in Nat
            /\ inbox'[Len(inbox) + 1] = r
            /\ \A k \in DOMAIN inbox : inbox'[k] = inbox[k]
  BY <1>1, <1>3, InboxGrows
<1>5. \A k \in DOMAIN inbox' : \/ k \in DOMAIN inbox /\ inbox'[k] = inbox[k]
                               \/ k = Len(inbox) + 1 /\ k = Len(inbox') /\ inbox'[k] = r
  BY <1>4
<1>6. ScoringTypes'
  BY <1>1, <1>4 DEF ScoringInv, ScoringTypes
<1>7. MarksAreOld'
  BY <1>1, <1>3, <1>5 DEF ScoringInv, MarksAreOld
<1>8. LineIsCurrent'
  <2>1. ASSUME NEW q \in OpenItems, \A k \in DOMAIN saves.line : saves.line[k].q # q, Settled(q)
        PROVE  Settled(q)'
    <3>1. ~AsksFor(r, q)
      BY <1>2, <1>3, <2>1 DEF AsksFor
    <3>2. \A k \in DOMAIN inbox' : ~AsksFor(inbox'[k], q)
      BY <1>5, <2>1, <3>1 DEF Settled
    <3> QED
      BY <1>1, <2>1, <3>2 DEF Settled, AsksFor
  <2> QED
    BY <1>1, <2>1 DEF ScoringInv, LineIsCurrent, IsLast
<1>9. CallSound'
  BY <1>1, <1>3, <1>4, <1>5 DEF CallSound
<1>10. InboxSound'
  <2>1. \A i, j \in DOMAIN inbox' : i < j /\ inbox'[j].kind = "finalize" => inbox'[i].kind = "finalize"
    BY <1>3, <1>4, <1>5 DEF ScoringInv, InboxSound
  <2>2. ASSUME inbox' # << >>, inbox'[1].kind = "finalize" PROVE stored \in pressed
    <3>1. 1 \in DOMAIN inbox'
      BY <1>4, <2>2
    <3>2. 1 \in DOMAIN inbox /\ inbox[1].kind = "finalize" /\ inbox # << >>
      BY <1>3, <1>5, <2>2, <3>1
    <3> QED
      BY <3>2 DEF ScoringInv, InboxSound
  <2> QED
    BY <1>1, <2>1, <2>2 DEF InboxSound
<1>11. ReportIsConfirmed'
  BY <1>1 DEF ScoringInv, ReportIsConfirmed, AllMarked, IsMark
<1> QED
  BY <1>6, <1>7, <1>8, <1>9, <1>10, <1>11 DEF ScoringInv

\* With nothing left to save, the table has what the page shows and nothing is on its way.
LEMMA SavedIsStored ==
  ASSUME ScoringInv, AllSaved
  PROVE  stored = form.marks /\ \A k \in DOMAIN inbox : inbox[k].kind = "finalize"
<1>1. \A q \in OpenItems : Settled(q)
  BY DEF ScoringInv, LineIsCurrent, AllSaved
<1>2. stored = form.marks
  BY <1>1 DEF Settled, ScoringInv, ScoringTypes
<1>3. ASSUME NEW k \in DOMAIN inbox PROVE inbox[k].kind = "finalize"
  <2>1. inbox[k] \in Requests
    BY DEF ScoringInv, ScoringTypes
  <2>2. inbox[k].kind = "score" => inbox[k].save.q \in OpenItems
    BY <2>1 DEF Requests, Saves
  <2>3. inbox[k].kind # "score"
    BY <1>1, <2>2 DEF Settled, AsksFor
  <2> QED
    BY <2>1, <2>3 DEF Requests
<1> QED
  BY <1>2, <1>3

LEMMA AskKeeps ==
  ASSUME ScoringInv, AskForReport
  PROVE  ScoringInv'
<1>1. CASE saves.failed # {}
  <2>1. form' = [form EXCEPT !.step = "editing"] /\ UNCHANGED <<call, inbox, pressed, saves, stored, issued>>
    BY <1>1 DEF AskForReport
  <2>2. call.kind # "finalize"
    BY DEF AskForReport, ScoringInv, CallSound
  <2> QED
    BY <2>1, <2>2, StepChanges
<1>2. CASE saves.failed = {}
  <2> DEFINE r == [kind |-> "finalize", awaited |-> TRUE]
  <2>1. /\ form.step = "closing" /\ AllSaved /\ form' = [form EXCEPT !.step = "asking"] /\ Dispatch(r)
        /\ pressed' = pressed \cup {form.marks} /\ UNCHANGED <<saves, stored, issued, troubles>>
    BY <1>2 DEF AskForReport, Flushed, AllSaved
  <2>2. r \in Requests /\ r.kind = "finalize"
    BY DEF Requests
  <2> HIDE DEF r
  <2>3. call.kind \notin {"score", "finalize"}
    BY <2>1 DEF ScoringInv, CallSound, AllSaved
  <2>4. stored = form.marks /\ \A k \in DOMAIN inbox : inbox[k].kind = "finalize"
    BY <2>1, SavedIsStored
  <2>5. call.kind = "none"
    BY <2>3 DEF ScoringInv, ScoringTypes
  <2>6. /\ call' = [kind |-> "finalize", answer |-> "none"]
        /\ inbox' \in Seq(Requests)
        /\ \A k \in DOMAIN inbox : ~inbox[k].awaited
        /\ \/ inbox' = inbox
           \/ /\ DOMAIN inbox' = 1..(Len(inbox) + 1) /\ Len(inbox') = Len(inbox) + 1
              /\ DOMAIN inbox = 1..Len(inbox) /\ Len(inbox) \in Nat
              /\ inbox'[Len(inbox) + 1] = r
              /\ \A k \in DOMAIN inbox : inbox'[k] = inbox[k]
    BY <2>1, <2>2, <2>5, InboxGrows
  <2>7. \A k \in DOMAIN inbox' : \/ k \in DOMAIN inbox /\ inbox'[k] = inbox[k]
                                 \/ k = Len(inbox') /\ inbox'[k] = r
    BY <2>6
  <2>8. \A k \in DOMAIN inbox' : inbox'[k].kind = "finalize"
    BY <2>2, <2>4, <2>7
  <2>9. /\ DOMAIN form' = {"marks", "blanks", "edits", "step"} /\ form'.marks = form.marks
        /\ form'.blanks = form.blanks /\ form'.edits = form.edits /\ form'.step = "asking"
    BY <2>1 DEF ScoringInv, ScoringTypes
  <2>10. ScoringTypes'
    BY <2>1, <2>6, <2>9 DEF ScoringInv, ScoringTypes
  <2>11. MarksAreOld'
    BY <2>1, <2>8, <2>9 DEF ScoringInv, MarksAreOld
  <2>12. LineIsCurrent'
    BY <2>1, <2>4, <2>8, <2>9 DEF ScoringInv, LineIsCurrent, IsLast, Settled, AsksFor
  <2>13. CallSound'
    BY <2>1, <2>2, <2>6, <2>7, <2>9 DEF CallSound
  <2>14. InboxSound'
    BY <2>1, <2>4, <2>8 DEF InboxSound
  <2>15. ReportIsConfirmed'
    BY <2>1, <2>9 DEF ScoringInv, ReportIsConfirmed, AllMarked, IsMark
  <2> QED
    BY <2>10, <2>11, <2>12, <2>13, <2>14, <2>15 DEF ScoringInv
<1> QED
  BY <1>1, <1>2

LEMMA ScoringKeeps == ScoringInv /\ InOrder /\ [ScoringNext]_scoringVars => ScoringInv'
<1> SUFFICES ASSUME ScoringInv, InOrder, [ScoringNext]_scoringVars
             PROVE  ScoringInv'
  OBVIOUS
<1>1. CASE UNCHANGED scoringVars
  BY <1>1 DEF scoringVars, ScoringInv, ScoringTypes, MarksAreOld, LineIsCurrent, IsLast, Settled, AsksFor,
              CallSound, InboxSound, ReportIsConfirmed, AllMarked, IsMark
<1> QED
  BY <1>1, EditKeeps, RetryKeeps, SendKeeps, SaveAnsweredKeeps, DialogKeeps, AskKeeps, GiveUpKeeps, ServerKeeps,
     RestartKeeps DEF ScoringNext

LEMMA ScoringStarts == ScoringInit => ScoringInv
<1> SUFFICES ASSUME ScoringInit PROVE ScoringInv
  OBVIOUS
<1>1. ScoringTypes
  BY FS_EmptySet DEF ScoringInit, ScoringTypes, Unmarked, NoCall
<1>2. MarksAreOld /\ LineIsCurrent /\ CallSound /\ InboxSound /\ ReportIsConfirmed
  BY DEF ScoringInit, MarksAreOld, LineIsCurrent, Settled, CallSound, InboxSound, ReportIsConfirmed, Unmarked, NoCall
<1> QED
  BY <1>1, <1>2 DEF ScoringInv

\* While the page says that all changes are saved the table has the marks it shows, for
\* any number of questions, edits, failed and given up requests, as long as the requests
\* of one page are served in the order they came (assessor.js:214-222).
THEOREM SavedIsInTheTable ==
  ASSUME InOrder
  PROVE  ScoringSpec => []SavedMeansStored
<1>1. ScoringInv => SavedMeansStored
  BY SavedIsStored DEF SavedMeansStored
<1> QED
  BY <1>1, ScoringStarts, ScoringKeeps, PTL DEF ScoringSpec

\* The report has the marks the page showed when it was asked for, all of them real
\* (assessor.js:273-297).
THEOREM ReportsAreConfirmed ==
  ASSUME InOrder
  PROVE  ScoringSpec => []ReportIsConfirmed
<1>1. ScoringInv => ReportIsConfirmed
  BY DEF ScoringInv
<1> QED
  BY <1>1, ScoringStarts, ScoringKeeps, PTL DEF ScoringSpec

----------------------------------------------------------------------------
(* Retention *)

OneProcess == \A i, j \in Jobs : ProcessOf[i] = ProcessOf[j]

Answers == [content : BOOLEAN, ref : BOOLEAN, note : SUBSET {"sheet", "recording"}]

\* The answer a to question q lacks everything policy p removes.
LacksWhat(p, q, a) ==
  /\ p.sheets /\ (p.scope = "all" \/ q \in OpenQuestions) => ~a.content
  /\ p.clips => ~a.ref

\* What a job r may rely on, given the answers: what it has read while it holds the
\* paper is what is there, and what it has written is clean.
JobSound(r, answers) ==
  /\ "step" \in DOMAIN r
  /\ r.step \in {"list", "answers"} => r.read = answers
  /\ r.step \in {"clips", "mark"} => \A q \in Questions : LacksWhat(r.policy, q, answers[q])
  /\ r.step \in {"remove", "strip"} => r.q \in Questions /\ r.read = answers[r.q]
  /\ r.step \in {"find", "look"} => r.q \in Questions

MarkSound(a, answers) ==
  /\ "purged" \in DOMAIN a
  /\ a.purged # Unpurged => \A q \in Questions : LacksWhat(a.purged, q, answers[q])

Held(step) == step \notin {"idle", "due"}

RetentionInv ==
  /\ answer \in [Questions -> Answers]
  /\ DOMAIN job = Jobs
  /\ \A j \in Jobs : JobSound(job[j], answer)
  /\ MarkSound(paper, answer)
  /\ \A i, j \in Jobs : Held(job[i].step) /\ Held(job[j].step) => i = j

\* An answer only ever loses what it had.
Loses(a, b) == (b.content => a.content) /\ (b.ref => a.ref)

LEMMA PurgedIsClean ==
  ASSUME NEW a \in Answers, NEW q, NEW p
  PROVE  /\ PurgedAnswer(q, a, p) \in Answers
         /\ LacksWhat(p, q, PurgedAnswer(q, a, p))
         /\ Loses(a, PurgedAnswer(q, a, p))
<1> DEFINE b == PurgedAnswer(q, a, p)
<1>1. CASE DropsSheet(q, a, p)
  <2> DEFINE r == a.ref /\ ~DropsClip(a, p)
             n == {"sheet"} \cup (IF DropsClip(a, p) THEN {"recording"} ELSE a.note \cap {"recording"})
  <2>1. b = [content |-> FALSE, ref |-> r, note |-> n]
    BY <1>1 DEF PurgedAnswer
  <2>2. r \in BOOLEAN /\ n \in SUBSET {"sheet", "recording"}
    OBVIOUS
  <2>3. (r => a.ref) /\ (p.clips => ~r)
    BY DEF DropsClip
  <2> HIDE DEF r, n
  <2>4. b \in Answers /\ ~b.content /\ (b.ref <=> r)
    BY <2>1, <2>2 DEF Answers
  <2> QED
    BY <2>3, <2>4 DEF LacksWhat, Loses
<1>2. CASE ~DropsSheet(q, a, p) /\ DropsClip(a, p)
  <2>1. b = [a EXCEPT !.ref = FALSE, !.note = {"recording"}]
    BY <1>2 DEF PurgedAnswer
  <2>2. b \in Answers /\ ~b.ref /\ b.content = a.content
    BY <2>1 DEF Answers
  <2>3. p.sheets /\ (p.scope = "all" \/ q \in OpenQuestions) => ~a.content
    BY <1>2 DEF DropsSheet, HasContent
  <2> QED
    BY <2>2, <2>3 DEF LacksWhat, Loses
<1>3. CASE ~DropsSheet(q, a, p) /\ ~DropsClip(a, p)
  <2>1. b = a
    BY <1>3 DEF PurgedAnswer
  <2> QED
    BY <1>3, <2>1 DEF LacksWhat, Loses, DropsSheet, DropsClip, HasContent
<1> QED
  BY <1>1, <1>2, <1>3

LEMMA WritesInOrder ==
  ASSUME NEW j
  PROVE  /\ WriteOrder[1] = "answers"
         /\ AfterWrite(j, "answers") = [job[j] EXCEPT !.step = "clips"]
         /\ AfterWrite(j, "clips") = [job[j] EXCEPT !.step = "mark"]
         /\ AfterWrite(j, "mark") = IdleJob
<1>1. DOMAIN WriteOrder = {1, 2, 3} /\ Len(WriteOrder) = 3
  BY DEF WriteOrder
<1>2. WriteOrder[1] = "answers" /\ WriteOrder[2] = "clips" /\ WriteOrder[3] = "mark"
  BY DEF WriteOrder
<1> DEFINE n(step) == CHOOSE k \in DOMAIN WriteOrder : WriteOrder[k] = step
<1>3. \A step : AfterWrite(j, step) = IF n(step) = Len(WriteOrder) THEN IdleJob
                                      ELSE [job[j] EXCEPT !.step = WriteOrder[n(step) + 1]]
  BY DEF AfterWrite
<1>4. n("answers") = 1 /\ n("clips") = 2 /\ n("mark") = 3
  BY <1>1, <1>2
<1> HIDE DEF n
<1>5. n("answers") + 1 = 2 /\ n("clips") + 1 = 3
  BY <1>4
<1> QED
  BY <1>1, <1>2, <1>3, <1>4, <1>5

LEMMA JobTurns ==
  ASSUME RetentionInv, NEW j \in Jobs, NEW r, Does(j, r), answer' \in [Questions -> Answers],
         JobSound(r, answer'), MarkSound(paper', answer'),
         \A x \in Jobs \ {j} : JobSound(job[x], answer'),
         Held(r.step) => \A x \in Jobs \ {j} : ~Held(job[x].step)
  PROVE  RetentionInv'
<1>1. DOMAIN job' = Jobs /\ \A x \in Jobs : job'[x] = IF x = j THEN r ELSE job[x]
  BY DEF RetentionInv, Does
<1>2. \A x \in Jobs : JobSound(job'[x], answer')
  BY <1>1
<1>3. \A x, y \in Jobs : Held(job'[x].step) /\ Held(job'[y].step) => x = y
  BY <1>1 DEF RetentionInv
<1> QED
  BY <1>1, <1>2, <1>3 DEF RetentionInv

\* A job that holds the paper goes on or ends, and leaves answers and mark alone.
LEMMA HolderTurns ==
  ASSUME RetentionInv, NEW j \in Jobs, NEW r, Does(j, r), UNCHANGED <<answer, paper>>,
         JobSound(r, answer), Held(job[j].step) \/ ~Held(r.step)
  PROVE  RetentionInv'
<1>1. Held(r.step) => \A x \in Jobs \ {j} : ~Held(job[x].step)
  BY DEF RetentionInv
<1> QED
  BY <1>1, JobTurns DEF RetentionInv

\* With one instance, a job that takes the paper takes it alone.
LEMMA TakerTurns ==
  ASSUME RetentionInv, OneProcess, NEW j \in Jobs, NEW r, Does(j, r), UNCHANGED <<answer, paper>>,
         JobSound(r, answer), PaperFree(j)
  PROVE  RetentionInv'
<1>1. \A x \in Jobs \ {j} : ~Held(job[x].step)
  BY DEF OneProcess, PaperFree, Holding, Held
<1> QED
  BY <1>1, JobTurns DEF RetentionInv

\* A job that holds the paper writes answers that only lose what they had.
LEMMA AnswersLose ==
  ASSUME RetentionInv, NEW j \in Jobs, Held(job[j].step), UNCHANGED paper,
         answer' \in [Questions -> Answers], \A q \in Questions : Loses(answer[q], answer'[q])
  PROVE  /\ \A x \in Jobs \ {j} : JobSound(job[x], answer')
         /\ MarkSound(paper', answer')
         /\ \A x \in Jobs \ {j} : ~Held(job[x].step)
<1>1. \A x \in Jobs \ {j} : ~Held(job[x].step)
  BY DEF RetentionInv
<1>2. \A x \in Jobs \ {j} : JobSound(job[x], answer')
  BY <1>1 DEF RetentionInv, JobSound, Held
<1>3. ASSUME NEW q \in Questions, NEW p, LacksWhat(p, q, answer[q])
      PROVE  LacksWhat(p, q, answer'[q])
  BY <1>3 DEF LacksWhat, Loses
<1>4. MarkSound(paper', answer')
  BY <1>3 DEF RetentionInv, MarkSound
<1> QED
  BY <1>1, <1>2, <1>4

LEMMA SweepKeeps ==
  ASSUME RetentionInv, OneProcess, NEW s \in Sweeps,
         \/ StartSweep(s) \/ TakePaper(s) \/ ReadAnswers(s) \/ ListClips(s) \/ RemoveClips(s)
  PROVE  RetentionInv'
<1> s \in Jobs /\ JobSound(job[s], answer)
  BY DEF Jobs, RetentionInv
<1>1. CASE StartSweep(s)
  <2> DEFINE r == [step |-> "due", policy |-> policy, at |-> day]
  <2>1. Does(s, r) /\ UNCHANGED <<answer, paper>>
    BY <1>1 DEF StartSweep
  <2>2. JobSound(r, answer) /\ ~Held(r.step)
    BY DEF JobSound, Held
  <2> QED
    BY <2>1, <2>2, HolderTurns
<1>2. CASE TakePaper(s)
  <2> DEFINE r == IF IsDue(paper, job[s].policy, job[s].at) THEN [job[s] EXCEPT !.step = "read"] ELSE IdleJob
  <2>1. Does(s, r) /\ UNCHANGED <<answer, paper>> /\ PaperFree(s)
    BY <1>2 DEF TakePaper
  <2>2. JobSound(r, answer)
    BY DEF JobSound, IdleJob
  <2> QED
    BY <2>1, <2>2, TakerTurns
<1>3. CASE ReadAnswers(s)
  <2> DEFINE r == [step |-> "list", policy |-> job[s].policy, read |-> answer]
  <2>1. Does(s, r) /\ UNCHANGED <<answer, paper>> /\ Held(job[s].step)
    BY <1>3 DEF ReadAnswers, At, Held
  <2>2. JobSound(r, answer)
    BY DEF JobSound
  <2> QED
    BY <2>1, <2>2, HolderTurns
<1>4. CASE ListClips(s)
  <2> DEFINE r == [step |-> WriteOrder[1], policy |-> job[s].policy, read |-> job[s].read,
                   clips |-> IF job[s].policy.clips THEN clip ELSE {}]
  <2>1. Does(s, r) /\ UNCHANGED <<answer, paper>> /\ job[s].step = "list"
    BY <1>4 DEF ListClips, At
  <2>2. r.step = "answers" /\ r.read = answer /\ "step" \in DOMAIN r
    BY <2>1, WritesInOrder DEF JobSound
  <2>3. JobSound(r, answer) /\ Held(job[s].step)
    BY <2>1, <2>2 DEF JobSound, Held
  <2> HIDE DEF r
  <2> QED
    BY <2>1, <2>3, HolderTurns
<1>5. CASE RemoveClips(s)
  <2>1. Does(s, [job[s] EXCEPT !.step = "mark"]) /\ UNCHANGED <<answer, paper>> /\ job[s].step = "clips"
    BY <1>5, WritesInOrder DEF RemoveClips, At
  <2>2. JobSound([job[s] EXCEPT !.step = "mark"], answer) /\ Held(job[s].step)
    BY <2>1 DEF JobSound, Held
  <2> QED
    BY <2>1, <2>2, HolderTurns
<1> QED
  BY <1>1, <1>2, <1>3, <1>4, <1>5

LEMMA WritingKeeps ==
  ASSUME RetentionInv, NEW s \in Sweeps, WriteAnswers(s)
  PROVE  RetentionInv'
<1> DEFINE p == job[s].policy
           r == [job[s] EXCEPT !.step = "clips"]
           after(q) == PurgedAnswer(q, job[s].read[q], p)
<1>1. s \in Jobs /\ job[s].step = "answers" /\ job[s].read = answer /\ "step" \in DOMAIN job[s]
  BY DEF Jobs, RetentionInv, JobSound, WriteAnswers, At
<1>2. Does(s, r) /\ UNCHANGED paper
  BY WritesInOrder DEF WriteAnswers
<1>3. answer' = [q \in Questions |-> IF q \in {x \in Questions : after(x) # job[s].read[x]} THEN after(q) ELSE answer[q]]
  BY DEF WriteAnswers
<1>4. answer' = [q \in Questions |-> PurgedAnswer(q, answer[q], p)]
  BY <1>1, <1>3
<1>5. \A q \in Questions : /\ PurgedAnswer(q, answer[q], p) \in Answers
                           /\ LacksWhat(p, q, PurgedAnswer(q, answer[q], p))
                           /\ Loses(answer[q], PurgedAnswer(q, answer[q], p))
  BY PurgedIsClean DEF RetentionInv
<1>6. answer' \in [Questions -> Answers] /\ \A q \in Questions : LacksWhat(p, q, answer'[q]) /\ Loses(answer[q], answer'[q])
  BY <1>4, <1>5
<1>7. r.step = "clips" /\ r.policy = p /\ "step" \in DOMAIN r /\ Held(job[s].step)
  BY <1>1 DEF Held
<1>8. JobSound(r, answer')
  BY <1>6, <1>7 DEF JobSound
<1> HIDE DEF r, p
<1> QED
  BY <1>1, <1>2, <1>6, <1>7, <1>8, AnswersLose, JobTurns

LEMMA MarkingKeeps ==
  ASSUME RetentionInv, NEW s \in Sweeps, MarkPaper(s)
  PROVE  RetentionInv'
<1> DEFINE p == job[s].policy
           m == [by |-> "sweep", scope |-> p.scope, sheets |-> p.sheets, clips |-> p.clips]
<1>1. s \in Jobs /\ job[s].step = "mark" /\ Held(job[s].step) /\ JobSound(job[s], answer)
  BY DEF Jobs, RetentionInv, MarkPaper, At, Held
<1>2. Does(s, IdleJob) /\ UNCHANGED answer /\ paper' = [paper EXCEPT !.purged = m]
  BY WritesInOrder DEF MarkPaper
<1>3. \A q \in Questions : LacksWhat(p, q, answer[q])
  BY <1>1 DEF JobSound
<1>4. (m.sheets <=> p.sheets) /\ (m.clips <=> p.clips) /\ m.scope = p.scope
  OBVIOUS
<1> HIDE DEF m, p
<1>5. \A q \in Questions : LacksWhat(m, q, answer[q])
  BY <1>3, <1>4 DEF LacksWhat
<1>6. paper'.purged = m /\ "purged" \in DOMAIN paper'
  BY <1>2 DEF RetentionInv, MarkSound
<1>7. MarkSound(paper', answer')
  BY <1>2, <1>5, <1>6 DEF MarkSound
<1>8. JobSound(IdleJob, answer') /\ ~Held(IdleJob.step)
  BY DEF JobSound, IdleJob, Held
<1> QED
  BY <1>1, <1>2, <1>7, <1>8, JobTurns DEF RetentionInv

LEMMA DeletionKeeps ==
  ASSUME RetentionInv, OneProcess, NEW d \in Deletions,
         \/ \E q \in OpenQuestions : StartDeletion(d, q)
         \/ FindClip(d) \/ LookAtAnswer(d) \/ RemoveClip(d)
  PROVE  RetentionInv'
<1> d \in Jobs /\ JobSound(job[d], answer)
  BY DEF Jobs, RetentionInv
<1>1. CASE \E q \in OpenQuestions : StartDeletion(d, q)
  <2>1. PICK q \in OpenQuestions : StartDeletion(d, q)
    BY <1>1
  <2>2. JobSound([step |-> "find", q |-> q], answer)
    BY RetentionAssumption DEF JobSound
  <2> QED
    BY <2>1, <2>2, TakerTurns DEF StartDeletion
<1>2. CASE FindClip(d)
  <2> DEFINE r == [step |-> "look", q |-> job[d].q, found |-> job[d].q \in clip]
  <2>1. Does(d, r) /\ UNCHANGED <<answer, paper>> /\ job[d].step = "find" /\ Held(job[d].step)
    BY <1>2 DEF FindClip, At, Held
  <2>2. r.step = "look" /\ r.q = job[d].q /\ "step" \in DOMAIN r
    OBVIOUS
  <2> HIDE DEF r
  <2>3. JobSound(r, answer)
    BY <2>1, <2>2 DEF JobSound
  <2> QED
    BY <2>1, <2>3, HolderTurns
<1>3. CASE LookAtAnswer(d)
  <2> DEFINE a == answer[job[d].q]
             r == IF job[d].found \/ a.ref
                  THEN [step |-> "remove", q |-> job[d].q, found |-> job[d].found, read |-> a] ELSE IdleJob
  <2>1. Does(d, r) /\ UNCHANGED <<answer, paper>> /\ job[d].step = "look" /\ Held(job[d].step)
    BY <1>3 DEF LookAtAnswer, At, Held
  <2>2. JobSound(r, answer)
    BY <2>1 DEF JobSound, IdleJob
  <2> HIDE DEF r
  <2> QED
    BY <2>1, <2>2, HolderTurns
<1>4. CASE RemoveClip(d)
  <2> DEFINE r == [step |-> "strip", q |-> job[d].q, read |-> job[d].read]
  <2>1. Does(d, r) /\ UNCHANGED <<answer, paper>> /\ job[d].step = "remove" /\ Held(job[d].step)
    BY <1>4 DEF RemoveClip, At, Held
  <2>2. JobSound(r, answer)
    BY <2>1 DEF JobSound
  <2> HIDE DEF r
  <2> QED
    BY <2>1, <2>2, HolderTurns
<1> QED
  BY <1>1, <1>2, <1>3, <1>4

LEMMA StrippingKeeps ==
  ASSUME RetentionInv, NEW d \in Deletions, StripAnswer(d)
  PROVE  RetentionInv'
<1> DEFINE q == job[d].q
           p == [sheets |-> FALSE, clips |-> TRUE]
           b == PurgedAnswer(q, answer[q], p)
<1>1. d \in Jobs /\ job[d].step = "strip" /\ Held(job[d].step) /\ JobSound(job[d], answer)
  BY DEF Jobs, RetentionInv, StripAnswer, At, Held
<1>2. q \in Questions /\ job[d].read = answer[q]
  BY <1>1 DEF JobSound
<1>3. b \in Answers /\ Loses(answer[q], b)
  BY <1>2, PurgedIsClean DEF RetentionInv
<1>4. UNCHANGED paper /\ Does(d, IdleJob)
  BY DEF StripAnswer
<1>5. answer' = IF b # answer[q] THEN [answer EXCEPT ![q] = b] ELSE answer
  BY <1>2 DEF StripAnswer
<1> HIDE DEF b, q
<1>6. answer' \in [Questions -> Answers]
  BY <1>2, <1>3, <1>5 DEF RetentionInv
<1>7. \A x \in Questions : Loses(answer[x], answer'[x])
  BY <1>2, <1>3, <1>5 DEF RetentionInv, Loses
<1>8. JobSound(IdleJob, answer') /\ ~Held(IdleJob.step)
  BY DEF JobSound, IdleJob, Held
<1> QED
  BY <1>1, <1>4, <1>6, <1>7, <1>8, AnswersLose, JobTurns

LEMMA RetentionKeeps == RetentionInv /\ OneProcess /\ [RetentionNext]_retentionVars => RetentionInv'
<1> SUFFICES ASSUME RetentionInv, OneProcess, [RetentionNext]_retentionVars
             PROVE  RetentionInv'
  OBVIOUS
<1>1. CASE DayPasses \/ \E p \in Policies : SavePolicy(p)
  BY <1>1 DEF DayPasses, SavePolicy, RetentionInv
<1>2. CASE FinalizePaper
  <2>1. paper'.purged = paper.purged /\ "purged" \in DOMAIN paper' /\ UNCHANGED <<job, answer>>
    BY <1>2 DEF FinalizePaper, RetentionInv, MarkSound
  <2> QED
    BY <2>1 DEF RetentionInv, MarkSound
<1>3. CASE \E j \in Jobs : StopJob(j)
  <2>1. PICK j \in Jobs : StopJob(j)
    BY <1>3
  <2>2. JobSound(IdleJob, answer) /\ ~Held(IdleJob.step)
    BY DEF JobSound, IdleJob, Held
  <2> QED
    BY <2>1, <2>2, HolderTurns DEF StopJob
<1>4. CASE UNCHANGED retentionVars
  BY <1>4 DEF retentionVars, RetentionInv
<1> QED
  BY <1>1, <1>2, <1>3, <1>4, SweepKeeps, WritingKeeps, MarkingKeeps, DeletionKeeps, StrippingKeeps DEF RetentionNext

LEMMA RetentionStarts == RetentionInit => RetentionInv
<1> SUFFICES ASSUME RetentionInit PROVE RetentionInv
  OBVIOUS
<1>1. answer \in [Questions -> Answers]
  <2>1. \A q \in Questions : [content |-> TRUE, ref |-> q \in clip, note |-> {}] \in Answers
    BY DEF Answers
  <2> QED
    BY <2>1 DEF RetentionInit
<1>2. DOMAIN job = Jobs /\ \A j \in Jobs : job[j] = IdleJob
  BY DEF RetentionInit
<1>3. JobSound(IdleJob, answer) /\ ~Held(IdleJob.step)
  BY DEF JobSound, IdleJob, Held
<1>4. MarkSound(paper, answer)
  BY DEF RetentionInit, MarkSound
<1> QED
  BY <1>1, <1>2, <1>3, <1>4 DEF RetentionInv

\* What a job r has listed of the recordings while it is to remove them, and that
\* none is left when it is to mark the paper.
ClipsListed(r, rows) ==
  /\ r.step \in {"answers", "clips"} /\ r.policy.clips => rows \subseteq r.clips
  /\ r.step = "mark" /\ r.policy.clips => rows = {}

ClipInv ==
  /\ \A j \in Jobs : ClipsListed(job[j], clip)
  /\ paper.purged # Unpurged /\ paper.purged.clips => clip = {}

\* A recording is never added, so what is listed stays all there is.
LEMMA ClipTurns ==
  ASSUME RetentionInv, ClipInv, NEW j \in Jobs, NEW r, Does(j, r), ClipsListed(r, clip'),
         clip' \subseteq clip,
         paper'.purged # Unpurged /\ paper'.purged.clips => clip' = {}
  PROVE  ClipInv'
<1>1. \A x \in Jobs : job'[x] = IF x = j THEN r ELSE job[x]
  BY DEF RetentionInv, Does
<1>2. ASSUME NEW x, ClipsListed(x, clip) PROVE ClipsListed(x, clip')
  BY <1>2 DEF ClipsListed
<1>3. \A x \in Jobs : ClipsListed(job'[x], clip')
  BY <1>1, <1>2 DEF ClipInv
<1> QED
  BY <1>3 DEF ClipInv

\* A job that is neither to remove the recordings nor to mark the paper.
LEMMA OtherTurns ==
  ASSUME RetentionInv, ClipInv, NEW j \in Jobs, NEW r, Does(j, r),
         r.step \notin {"answers", "clips", "mark"}, clip' \subseteq clip, UNCHANGED paper
  PROVE  ClipInv'
<1>1. ClipsListed(r, clip')
  BY DEF ClipsListed
<1>2. paper'.purged # Unpurged /\ paper'.purged.clips => clip' = {}
  BY DEF ClipInv
<1> QED
  BY <1>1, <1>2, ClipTurns

LEMMA ClipsStay ==
  ASSUME RetentionInv, ClipInv, NEW s \in Sweeps,
         StartSweep(s) \/ TakePaper(s) \/ ReadAnswers(s) \/ ListClips(s) \/ WriteAnswers(s)
  PROVE  ClipInv'
<1>1. s \in Jobs /\ "step" \in DOMAIN job[s] /\ ClipsListed(job[s], clip)
  BY DEF Jobs, RetentionInv, JobSound, ClipInv
<1>2. UNCHANGED <<paper, clip>>
  BY DEF StartSweep, TakePaper, ReadAnswers, ListClips, WriteAnswers
<1>3. CASE StartSweep(s)
  BY <1>1, <1>2, <1>3, OtherTurns DEF StartSweep
<1>4. CASE TakePaper(s)
  <2> DEFINE r == IF IsDue(paper, job[s].policy, job[s].at) THEN [job[s] EXCEPT !.step = "read"] ELSE IdleJob
  <2>1. Does(s, r)
    BY <1>4 DEF TakePaper
  <2>2. r.step \in {"read", "idle"}
    BY <1>1 DEF IdleJob
  <2> HIDE DEF r
  <2> QED
    BY <1>1, <1>2, <2>1, <2>2, OtherTurns
<1>5. CASE ReadAnswers(s)
  BY <1>1, <1>2, <1>5, OtherTurns DEF ReadAnswers
<1>6. CASE ListClips(s)
  <2> DEFINE r == [step |-> WriteOrder[1], policy |-> job[s].policy, read |-> job[s].read,
                   clips |-> IF job[s].policy.clips THEN clip ELSE {}]
  <2>1. Does(s, r)
    BY <1>6 DEF ListClips
  <2>2. r.step = "answers" /\ r.policy = job[s].policy /\ (job[s].policy.clips => r.clips = clip)
    BY WritesInOrder
  <2> HIDE DEF r
  <2>3. ClipsListed(r, clip')
    BY <1>2, <2>2 DEF ClipsListed
  <2> QED
    BY <1>1, <1>2, <2>1, <2>3, ClipTurns DEF ClipInv
<1>7. CASE WriteAnswers(s)
  <2> DEFINE r == [job[s] EXCEPT !.step = "clips"]
  <2>1. Does(s, r) /\ job[s].step = "answers"
    BY <1>7, WritesInOrder DEF WriteAnswers, At
  <2>2. r.step = "clips" /\ r.policy = job[s].policy /\ r.clips = job[s].clips
    BY <1>1
  <2> HIDE DEF r
  <2>3. ClipsListed(r, clip')
    BY <1>1, <1>2, <2>1, <2>2 DEF ClipsListed
  <2> QED
    BY <1>1, <1>2, <2>1, <2>3, ClipTurns DEF ClipInv
<1> QED
  BY <1>3, <1>4, <1>5, <1>6, <1>7

LEMMA ClipsGo ==
  ASSUME RetentionInv, ClipInv, NEW s \in Sweeps, RemoveClips(s) \/ MarkPaper(s)
  PROVE  ClipInv'
<1>1. s \in Jobs /\ "step" \in DOMAIN job[s] /\ ClipsListed(job[s], clip) /\ "purged" \in DOMAIN paper
  BY DEF Jobs, RetentionInv, JobSound, MarkSound, ClipInv
<1>2. CASE RemoveClips(s)
  <2> DEFINE r == [job[s] EXCEPT !.step = "mark"]
  <2>1. Does(s, r) /\ job[s].step = "clips" /\ clip' = clip \ job[s].clips /\ UNCHANGED paper
    BY <1>2, WritesInOrder DEF RemoveClips, At
  <2>2. r.step = "mark" /\ r.policy = job[s].policy
    BY <1>1
  <2> HIDE DEF r
  <2>3. job[s].policy.clips => clip' = {}
    BY <1>1, <2>1 DEF ClipsListed
  <2>4. ClipsListed(r, clip')
    BY <2>2, <2>3 DEF ClipsListed
  <2>5. paper'.purged # Unpurged /\ paper'.purged.clips => clip' = {}
    BY <2>1 DEF ClipInv
  <2> QED
    BY <1>1, <2>1, <2>4, <2>5, ClipTurns
<1>3. CASE MarkPaper(s)
  <2> DEFINE m == [by |-> "sweep", scope |-> job[s].policy.scope, sheets |-> job[s].policy.sheets,
                   clips |-> job[s].policy.clips]
  <2>1. Does(s, IdleJob) /\ job[s].step = "mark" /\ UNCHANGED clip /\ paper' = [paper EXCEPT !.purged = m]
    BY <1>3, WritesInOrder DEF MarkPaper, At
  <2>2. m.clips = job[s].policy.clips
    OBVIOUS
  <2> HIDE DEF m
  <2>3. paper'.purged = m
    BY <1>1, <2>1
  <2>4. paper'.purged # Unpurged /\ paper'.purged.clips => clip' = {}
    BY <1>1, <2>1, <2>2, <2>3 DEF ClipsListed
  <2>5. ClipsListed(IdleJob, clip')
    BY DEF ClipsListed, IdleJob
  <2> QED
    BY <1>1, <2>1, <2>4, <2>5, ClipTurns
<1> QED
  BY <1>2, <1>3

LEMMA ClipsByHand ==
  ASSUME RetentionInv, ClipInv, NEW d \in Deletions,
         \/ \E q \in OpenQuestions : StartDeletion(d, q)
         \/ FindClip(d) \/ LookAtAnswer(d) \/ RemoveClip(d) \/ StripAnswer(d)
  PROVE  ClipInv'
<1>1. d \in Jobs
  BY DEF Jobs
<1>2. clip' \subseteq clip /\ UNCHANGED paper
  BY DEF StartDeletion, FindClip, LookAtAnswer, RemoveClip, StripAnswer
<1>3. PICK r : Does(d, r) /\ r.step \notin {"answers", "clips", "mark"}
  <2>1. CASE \E q \in OpenQuestions : StartDeletion(d, q)
    BY <2>1 DEF StartDeletion
  <2>2. CASE FindClip(d)
    BY <2>2 DEF FindClip
  <2>3. CASE LookAtAnswer(d)
    <3> DEFINE r == IF job[d].found \/ answer[job[d].q].ref
                    THEN [step |-> "remove", q |-> job[d].q, found |-> job[d].found, read |-> answer[job[d].q]]
                    ELSE IdleJob
    <3>1. Does(d, r)
      BY <2>3 DEF LookAtAnswer
    <3>2. r.step \in {"remove", "idle"}
      BY DEF IdleJob
    <3> HIDE DEF r
    <3> QED
      BY <3>1, <3>2
  <2>4. CASE RemoveClip(d)
    BY <2>4 DEF RemoveClip
  <2>5. CASE StripAnswer(d)
    BY <2>5 DEF StripAnswer, IdleJob
  <2> QED
    BY <2>1, <2>2, <2>3, <2>4, <2>5
<1> QED
  BY <1>1, <1>2, <1>3, OtherTurns

LEMMA ClipsKept == RetentionInv /\ ClipInv /\ [RetentionNext]_retentionVars => ClipInv'
<1> SUFFICES ASSUME RetentionInv, ClipInv, [RetentionNext]_retentionVars
             PROVE  ClipInv'
  OBVIOUS
<1>1. CASE DayPasses \/ \E p \in Policies : SavePolicy(p)
  BY <1>1 DEF DayPasses, SavePolicy, ClipInv
<1>2. CASE FinalizePaper
  <2>1. paper'.purged = paper.purged /\ UNCHANGED <<job, clip>>
    BY <1>2 DEF FinalizePaper, RetentionInv, MarkSound
  <2> QED
    BY <2>1 DEF ClipInv
<1>3. CASE \E j \in Jobs : StopJob(j)
  <2>1. PICK j \in Jobs : StopJob(j)
    BY <1>3
  <2> QED
    BY <2>1, OtherTurns DEF StopJob, IdleJob
<1>4. CASE UNCHANGED retentionVars
  BY <1>4 DEF retentionVars, ClipInv
<1> QED
  BY <1>1, <1>2, <1>3, <1>4, ClipsStay, ClipsGo, ClipsByHand DEF RetentionNext

\* A paper that is marked as cleaned lacks everything the mark says was removed, its
\* recordings included, for any questions, policies, sweeps and deletions of one
\* instance, wherever they stop (retention-service.mjs:68-75).
THEOREM MarkedIsClean ==
  ASSUME OneProcess
  PROVE  RetentionSpec => []CleanedIsClean
<1>1. RetentionInit => ClipInv
  BY DEF RetentionInit, ClipInv, ClipsListed, IdleJob
<1>2. RetentionInv /\ ClipInv => CleanedIsClean
  BY DEF RetentionInv, ClipInv, MarkSound, LacksWhat, CleanedIsClean
<1> QED
  BY <1>1, <1>2, RetentionStarts, RetentionKeeps, ClipsKept, PTL DEF RetentionSpec

----------------------------------------------------------------------------
(* Onboarding: numbers and pages *)

\* A set of naturals that is not empty has a least member.
LEMMA LeastNatural ==
  ASSUME NEW S \in SUBSET Nat, S # {}
  PROVE  \E x \in S : \A y \in S : x <= y
<1> DEFINE less == OpToRel(<, Nat)
<1>1. IsWellFoundedOn(less, Nat)
  BY NatLessThanWellFounded
<1>2. \A x, y \in Nat : y < x => <<y, x>> \in less
  BY DEF OpToRel
<1> HIDE DEF less
<1>3. PICK x \in S : \A y \in S : <<y, x>> \notin less
  BY <1>1, WFMin
<1>4. \A y \in S : ~(y < x)
  BY <1>2, <1>3
<1> QED
  BY <1>4

\* The rows of a page are taken one after the other, each once.
LEMMA NthFacts ==
  ASSUME NEW n \in Nat, NEW page \in SUBSET (1..n)
  PROVE  /\ Cardinality(page) \in Nat
         /\ \A i \in 1..Cardinality(page) : Nth(page, i) \in page
         /\ \A i, j \in 1..Cardinality(page) : Nth(page, i) = Nth(page, j) => i = j
<1> DEFINE upTo(k) == {j \in page : j <= k}
           m == Cardinality(page)
           place == [k \in page |-> Cardinality(upTo(k))]
<1>1. IsFiniteSet(page)
  <2>1. IsFiniteSet(1..n)
    BY FS_Interval
  <2> QED
    BY <2>1, FS_Subset
<1>2. m \in Nat /\ IsFiniteSet(1..m) /\ Cardinality(1..m) = m
  BY <1>1, FS_CardinalityType, FS_Interval
<1>3. \A k \in page : place[k] \in 1..m
  <2> SUFFICES ASSUME NEW k \in page PROVE Cardinality(upTo(k)) \in 1..m
    OBVIOUS
  <2>1. upTo(k) \in SUBSET page /\ k \in upTo(k)
    OBVIOUS
  <2>2. IsFiniteSet(upTo(k)) /\ Cardinality(upTo(k)) <= m
    BY <1>1, <2>1, FS_Subset
  <2>3. Cardinality(upTo(k)) \in Nat /\ Cardinality(upTo(k)) # 0
    BY <2>1, <2>2, FS_CardinalityType, FS_EmptySet
  <2> QED
    BY <1>2, <2>2, <2>3
<1>4. \A k, l \in page : place[k] = place[l] => k = l
  <2> SUFFICES ASSUME NEW k \in page, NEW l \in page, k < l
               PROVE  Cardinality(upTo(k)) # Cardinality(upTo(l))
    <3>1. \A x, y \in page : x < y \/ x = y \/ y < x
      OBVIOUS
    <3>2. \A x \in page : place[x] = Cardinality(upTo(x))
      OBVIOUS
    <3> HIDE DEF upTo, place
    <3> QED
      BY <3>1, <3>2
  <2>0. \A x \in page : x \in Int
    OBVIOUS
  <2>1. upTo(k) \in SUBSET upTo(l) /\ l \in upTo(l) /\ l \notin upTo(k) /\ upTo(l) \in SUBSET page
    <3>1. \A x \in page : (x <= k => x <= l) /\ l <= l /\ ~(l <= k)
      BY <2>0
    <3> QED
      BY <3>1
  <2>2. IsFiniteSet(upTo(l))
    BY <1>1, <2>1, FS_Subset
  <2>3. Cardinality(upTo(l)) = Cardinality(upTo(k)) => upTo(l) = upTo(k)
    BY <2>1, <2>2, FS_Subset
  <2> QED
    BY <2>1, <2>3
<1>5. place \in Injection(page, 1..m)
  BY <1>3, <1>4 DEF Injection, IsInjective
<1>6. place \in Surjection(page, 1..m)
  BY <1>2, <1>5, FS_Injection
<1>7. \A i \in 1..m : \E k \in page : Cardinality(upTo(k)) = i
  BY <1>6 DEF Surjection
<1>8. \A i \in 1..m : Nth(page, i) \in page /\ Cardinality(upTo(Nth(page, i))) = i
  BY <1>7 DEF Nth
<1> QED
  <2> HIDE DEF upTo
  <2> QED
    BY <1>2, <1>8

\* A login is found, and nobody has it.
LEMMA DerivedIsFree ==
  ASSUME NEW base, NEW used, IsFiniteSet(used)
  PROVE  Derived(base, used) \notin used /\ \E n \in Nat : Derived(base, used) = <<base, n>>
<1> DEFINE c == Cardinality(used)
           free == {n \in 1..(c + 1) : <<base, n>> \notin used}
           try == [n \in 1..(c + 1) |-> <<base, n>>]
<1>1. c \in Nat /\ IsFiniteSet(1..(c + 1)) /\ Cardinality(1..(c + 1)) = c + 1
  <2>1. c \in Nat
    BY FS_CardinalityType
  <2> HIDE DEF c
  <2>2. 1 \in Int /\ c + 1 \in Int /\ (c + 1) - 1 + 1 = c + 1
    BY <2>1
  <2> QED
    BY <2>1, <2>2, FS_Interval
<1>2. free # {}
  <2> SUFFICES ASSUME free = {} PROVE FALSE
    OBVIOUS
  <2>1. try \in [1..(c + 1) -> used]
    OBVIOUS
  <2>2. \A i, j \in 1..(c + 1) : try[i] = try[j] => i = j
    OBVIOUS
  <2>3. \E i, j \in 1..(c + 1) : i # j /\ try[i] = try[j]
    <3>1. c < c + 1
      BY <1>1
    <3> HIDE DEF try
    <3> QED
      BY <1>1, <2>1, <3>1, FS_PigeonHole
  <2> QED
    BY <2>2, <2>3
<1>3. PICK least \in free : \A n \in free : least <= n
  <2>1. free \in SUBSET Nat
    OBVIOUS
  <2> QED
    BY <1>2, <2>1, LeastNatural
<1>4. <<base, least>> \notin used /\ \A m \in 1..(least - 1) : <<base, m>> \in used
  BY <1>1, <1>3
<1> DEFINE number == CHOOSE n \in 1..(c + 1) : <<base, n>> \notin used /\ \A m \in 1..(n - 1) : <<base, m>> \in used
<1>5. number \in 1..(c + 1) /\ <<base, number>> \notin used
  BY <1>4
<1>6. Derived(base, used) = <<base, number>>
  BY DEF Derived
<1> QED
  <2> HIDE DEF number
  <2> QED
    BY <1>1, <1>5, <1>6

----------------------------------------------------------------------------
(* Onboarding: the verdict on a sheet *)

\* f has the verdicts on the first rows of a sheet, up to N of them.
VerdictsAre(f, N, rows, emails, names, first) ==
  f = [n \in 0..N |-> IF n = 0 THEN first ELSE Verdict(f[n - 1], rows[n], emails, names)]

LEMMA VerdictsExist ==
  ASSUME NEW N \in Nat, NEW rows, NEW emails, NEW names, NEW first
  PROVE  \E f : VerdictsAre(f, N, rows, emails, names, first)
<1> DEFINE exists(m) == \E f : f = [n \in 0..m |-> IF n = 0 THEN first
                                                  ELSE Verdict(f[n - 1], rows[n], emails, names)]
           bad == {m \in 0..N : ~exists(m)}
<1> SUFFICES ASSUME bad # {} PROVE FALSE
  BY DEF VerdictsAre
<1>1. bad \in SUBSET Nat
  OBVIOUS
<1>2. PICK m \in bad : \A k \in bad : m <= k
  BY <1>1, LeastNatural
<1>3. CASE m = 0
  <2> DEFINE g == [n \in 0..0 |-> first]
  <2>1. g = [n \in 0..0 |-> IF n = 0 THEN first ELSE Verdict(g[n - 1], rows[n], emails, names)]
    OBVIOUS
  <2>2. exists(0)
    <3> HIDE DEF g
    <3> QED
      BY <2>1
  <2> QED
    BY <1>2, <1>3, <2>2
<1>4. CASE m # 0
  <2>1. m \in Nat /\ m - 1 \in 0..N /\ m - 1 \notin bad
    BY <1>2, <1>4
  <2>2. PICK f : f = [n \in 0..(m - 1) |-> IF n = 0 THEN first ELSE Verdict(f[n - 1], rows[n], emails, names)]
    BY <2>1
  <2> DEFINE g == [n \in 0..m |-> IF n < m THEN f[n] ELSE Verdict(f[m - 1], rows[m], emails, names)]
  <2>3. \A n \in 0..m : g[n] = IF n = 0 THEN first ELSE Verdict(g[n - 1], rows[n], emails, names)
    <3>1. ASSUME NEW n \in 0..m, n < m PROVE g[n] = f[n]
      BY <3>1
    <3>2. ASSUME NEW n \in 0..m, n < m
          PROVE  f[n] = IF n = 0 THEN first ELSE Verdict(f[n - 1], rows[n], emails, names)
      <4>1. n \in 0..(m - 1)
        BY <2>1, <3>2
      <4> QED
        BY <2>2, <4>1
    <3>3. g[m] = Verdict(f[m - 1], rows[m], emails, names)
      BY <2>1
    <3> HIDE DEF g
    <3>4. ASSUME NEW n \in 0..m, n < m
          PROVE  g[n] = IF n = 0 THEN first ELSE Verdict(g[n - 1], rows[n], emails, names)
      <4>1. CASE n = 0
        BY <3>1, <3>2, <3>4, <4>1
      <4>2. CASE n # 0
        <5>1. n - 1 \in 0..m /\ n - 1 < m
          BY <2>1, <3>4, <4>2
        <5>2. g[n - 1] = f[n - 1] /\ g[n] = f[n]
          BY <3>1, <3>4, <5>1
        <5> QED
          BY <3>2, <3>4, <4>2, <5>2
      <4> QED
        BY <4>1, <4>2
    <3>5. g[m - 1] = f[m - 1]
      BY <2>1, <3>1
    <3>6. ASSUME NEW n \in 0..m, ~(n < m) PROVE n = m
      BY <2>1, <3>6
    <3> QED
      BY <1>4, <3>3, <3>4, <3>5, <3>6
  <2>4. exists(m)
    <3>1. g = [n \in 0..m |-> g[n]]
      OBVIOUS
    <3> HIDE DEF g
    <3>2. g = [n \in 0..m |-> IF n = 0 THEN first ELSE Verdict(g[n - 1], rows[n], emails, names)]
      BY <2>3, <3>1
    <3> QED
      BY <3>2
  <2> QED
    BY <1>2, <2>4
<1> QED
  BY <1>3, <1>4

\* Rows of any sheet, and the logins they may be given.
AllRows == UNION {{s[n] : n \in DOMAIN s} : s \in Sheets}
LoginNames == {r.login : r \in AllRows} \cup {<<r.base, n>> : r \in AllRows, n \in Nat}

\* Two rows that may both be taken from one page: they are not known by one email, nor
\* both by one name.
Apart(a, b) == IF b.email # NoEmail THEN a.email # b.email ELSE a.name = b.name => a.email # NoEmail

\* A verdict v on the first n rows: the rows that are accepted have logins that are free and
\* their own, are not in the directory, and stand apart from each other.
Verdicts == [given : Seq(LoginNames \cup {NoLogin}), used : SUBSET LoginNames,
             emails : SUBSET {r.email : r \in AllRows}, names : SUBSET {r.name : r \in AllRows}]

Listed(v, n, row, login, emails, names, taken) ==
  /\ login \in v.used /\ login \notin taken
  /\ IF row.email # NoEmail THEN row.email \in v.emails /\ row.email \notin emails
                            ELSE row.name \in v.names /\ row.name \notin names

VerdictSound(v, n, rows, emails, names, taken) ==
  /\ v \in Verdicts /\ Len(v.given) = n /\ IsFiniteSet(v.used) /\ taken \subseteq v.used
  /\ \A k \in 1..n : v.given[k] # NoLogin =>
       Listed(v, n, rows[k], v.given[k], emails, names, taken)
  /\ \A i, k \in 1..n : i # k /\ v.given[i] # NoLogin /\ v.given[k] # NoLogin =>
       v.given[i] # v.given[k] /\ Apart(rows[i], rows[k])

LEMMA RowJudged ==
  ASSUME NEW n \in Nat, NEW rows, \A k \in 1..(n + 1) : rows[k] \in AllRows, NEW emails, NEW names, NEW taken,
         NEW v, VerdictSound(v, n, rows, emails, names, taken)
  PROVE  VerdictSound(Verdict(v, rows[n + 1], emails, names), n + 1, rows, emails, names, taken)
<1>1. PICK row \in AllRows : row = rows[n + 1]
  BY 1 \in Nat
<1>2. PICK login : login = IF row.login # NoLogin THEN row.login ELSE Derived(row.base, v.used)
  OBVIOUS
<1>3. PICK w : w = Verdict(v, row, emails, names)
  OBVIOUS
<1>4. /\ v.given \in Seq(LoginNames \cup {NoLogin}) /\ v.used \in SUBSET LoginNames
      /\ v.emails \in SUBSET {r.email : r \in AllRows} /\ v.names \in SUBSET {r.name : r \in AllRows}
      /\ Len(v.given) = n /\ IsFiniteSet(v.used) /\ taken \subseteq v.used
  BY DEF VerdictSound, Verdicts
<1>5. ASSUME NEW x \in LoginNames \cup {NoLogin}
      PROVE  /\ Append(v.given, x) \in Seq(LoginNames \cup {NoLogin}) /\ Len(Append(v.given, x)) = n + 1
             /\ \A k \in 1..n : Append(v.given, x)[k] = v.given[k]
             /\ Append(v.given, x)[n + 1] = x
  <2>1. PICK G : G = LoginNames \cup {NoLogin}
    OBVIOUS
  <2> QED
    BY <1>4, <2>1
<1>6. \A k \in 1..(n + 1) : k \in 1..n \/ k = n + 1
  OBVIOUS
<1> DEFINE duplicate == Known(row, emails \cup v.emails, names \cup v.names) \/ row.login \in v.used
<1>7. CASE duplicate \/ ~row.valid
  <2>1. w = [v EXCEPT !.given = Append(v.given, NoLogin)]
    BY <1>3, <1>7 DEF Verdict
  <2>2. w = [given |-> Append(v.given, NoLogin), used |-> v.used, emails |-> v.emails, names |-> v.names]
    BY <2>1 DEF VerdictSound, Verdicts
  <2>3. /\ w \in Verdicts /\ Len(w.given) = n + 1 /\ w.used = v.used /\ w.emails = v.emails /\ w.names = v.names
        /\ w.given[n + 1] = NoLogin /\ \A k \in 1..n : w.given[k] = v.given[k]
    <3>1. NoLogin \in LoginNames \cup {NoLogin}
      OBVIOUS
    <3> QED
      BY <1>4, <1>5, <2>2, <3>1 DEF Verdicts
  <2>4. ASSUME NEW k \in 1..(n + 1), w.given[k] # NoLogin
        PROVE  k \in 1..n /\ w.given[k] = v.given[k] /\ v.given[k] # NoLogin
    BY <1>6, <2>3, <2>4
  <2>5. ASSUME NEW k \in 1..(n + 1), w.given[k] # NoLogin
        PROVE  Listed(w, n + 1, rows[k], w.given[k], emails, names, taken)
    BY <2>3, <2>4, <2>5 DEF VerdictSound, Listed
  <2>6. ASSUME NEW i \in 1..(n + 1), NEW k \in 1..(n + 1), i # k, w.given[i] # NoLogin, w.given[k] # NoLogin
        PROVE  w.given[i] # w.given[k] /\ Apart(rows[i], rows[k])
    BY <2>4, <2>6 DEF VerdictSound
  <2> QED
    BY <1>1, <1>3, <1>4, <2>3, <2>5, <2>6 DEF VerdictSound
<1>8. CASE ~duplicate /\ row.valid
  <2>1. w = [given |-> Append(v.given, login), used |-> v.used \cup {login},
             emails |-> IF row.email # NoEmail THEN v.emails \cup {row.email} ELSE v.emails,
             names |-> IF row.email # NoEmail THEN v.names ELSE v.names \cup {row.name}]
    BY <1>2, <1>3, <1>8 DEF Verdict, Uses
  <2>2. login \notin v.used /\ login \in LoginNames
    <3>1. CASE row.login # NoLogin
      BY <1>2, <1>8, <3>1 DEF LoginNames
    <3>2. CASE row.login = NoLogin
      <4>1. login = Derived(row.base, v.used)
        BY <1>2, <3>2
      <4>2. login \notin v.used /\ \E m \in Nat : login = <<row.base, m>>
        BY <1>4, <4>1, DerivedIsFree
      <4> QED
        BY <4>2 DEF LoginNames
    <3> QED
      BY <3>1, <3>2
  <2>3. /\ w.given = Append(v.given, login) /\ w.used = v.used \cup {login}
        /\ w.emails = IF row.email # NoEmail THEN v.emails \cup {row.email} ELSE v.emails
        /\ w.names = IF row.email # NoEmail THEN v.names ELSE v.names \cup {row.name}
    BY <2>1
  <2>4. /\ Len(w.given) = n + 1 /\ w.given[n + 1] = login /\ \A k \in 1..n : w.given[k] = v.given[k]
        /\ w.given \in Seq(LoginNames \cup {NoLogin})
    BY <1>5, <2>2, <2>3
  <2>5. w \in Verdicts
    <3>1. row.email \in {r.email : r \in AllRows} /\ row.name \in {r.name : r \in AllRows}
      OBVIOUS
    <3>2. w.emails \in SUBSET {r.email : r \in AllRows} /\ w.names \in SUBSET {r.name : r \in AllRows}
      BY <1>4, <2>3, <3>1
    <3>3. w = [given |-> w.given, used |-> w.used, emails |-> w.emails, names |-> w.names]
      BY <2>1
    <3> QED
      BY <1>4, <2>2, <2>3, <2>4, <3>2, <3>3 DEF Verdicts
  <2>6. IsFiniteSet(w.used) /\ taken \subseteq w.used
    <3>1. w.used = v.used \cup {login} /\ IsFiniteSet(v.used) /\ taken \subseteq v.used
      BY <1>4, <2>3
    <3>2. IsFiniteSet(v.used \cup {login})
      BY <3>1, FS_AddElement
    <3> QED
      BY <3>1, <3>2
  <2>7. IF row.email # NoEmail THEN row.email \notin emails /\ row.email \notin v.emails
                               ELSE row.name \notin names /\ row.name \notin v.names
    BY <1>8 DEF Known
  <2>8. ASSUME NEW k \in 1..n, v.given[k] # NoLogin
        PROVE  /\ Listed(v, n, rows[k], v.given[k], emails, names, taken)
               /\ v.given[k] # login /\ Apart(rows[k], row) /\ Apart(row, rows[k])
    <3>1. Listed(v, n, rows[k], v.given[k], emails, names, taken)
      BY <2>8 DEF VerdictSound
    <3> QED
      BY <2>2, <2>7, <3>1 DEF Listed, Apart
  <2>9. ASSUME NEW k \in 1..(n + 1), w.given[k] # NoLogin
        PROVE  Listed(w, n + 1, rows[k], w.given[k], emails, names, taken)
    <3>1. CASE k = n + 1
      <4>1. w.given[k] = login /\ rows[k] = row
        BY <1>1, <2>4, <3>1
      <4> QED
        BY <1>4, <2>2, <2>3, <2>7, <4>1 DEF Listed
    <3>2. CASE k \in 1..n
      <4>1. w.given[k] = v.given[k] /\ Listed(v, n, rows[k], v.given[k], emails, names, taken)
        BY <2>4, <2>8, <2>9, <3>2
      <4> QED
        BY <2>3, <4>1 DEF Listed
    <3> QED
      BY <1>6, <3>1, <3>2
  <2>10. ASSUME NEW i \in 1..(n + 1), NEW k \in 1..(n + 1), i # k, w.given[i] # NoLogin, w.given[k] # NoLogin
         PROVE  w.given[i] # w.given[k] /\ Apart(rows[i], rows[k])
    <3>1. CASE i \in 1..n /\ k \in 1..n
      BY <2>4, <2>10, <3>1 DEF VerdictSound
    <3>2. CASE i = n + 1 /\ k \in 1..n
      BY <1>1, <2>4, <2>8, <2>10, <3>2
    <3>3. CASE k = n + 1 /\ i \in 1..n
      BY <1>1, <2>4, <2>8, <2>10, <3>3
    <3> QED
      BY <1>6, <2>10, <3>1, <3>2, <3>3
  <2> QED
    BY <1>1, <1>3, <2>4, <2>5, <2>6, <2>9, <2>10 DEF VerdictSound
<1> QED
  BY <1>7, <1>8

\* What the import believes of the rows it accepts.
LEMMA SheetJudged ==
  ASSUME NEW rows \in Seq(AllRows), NEW emails, NEW names, NEW taken \in SUBSET LoginNames, IsFiniteSet(taken)
  PROVE  \E v : /\ VerdictSound(v, Len(rows), rows, emails, names, taken)
                /\ Judged(rows, emails, names, taken) = v.given
<1>1. PICK N \in Nat : N = Len(rows)
  OBVIOUS
<1>2. PICK first : first = [given |-> << >>, used |-> taken, emails |-> {}, names |-> {}]
  OBVIOUS
<1>3. PICK f : f = CHOOSE g : VerdictsAre(g, N, rows, emails, names, first)
  OBVIOUS
<1>4. f = [n \in 0..N |-> IF n = 0 THEN first ELSE Verdict(f[n - 1], rows[n], emails, names)]
  <2>1. \E g : VerdictsAre(g, N, rows, emails, names, first)
    BY VerdictsExist
  <2>2. VerdictsAre(f, N, rows, emails, names, first)
    BY <1>3, <2>1, Zenon
  <2> QED
    BY <2>2 DEF VerdictsAre
<1>5. Judged(rows, emails, names, taken) = f[N].given
  BY <1>1, <1>2, <1>3, Zenon DEF Judged, VerdictsAre
<1> DEFINE bad == {n \in 0..N : ~VerdictSound(f[n], n, rows, emails, names, taken)}
<1>6. bad = {}
  <2> SUFFICES ASSUME bad # {} PROVE FALSE
    OBVIOUS
  <2>1. bad \in SUBSET Nat
    OBVIOUS
  <2>2. PICK n \in bad : \A k \in bad : n <= k
    BY <2>1, LeastNatural
  <2>3. CASE n = 0
    <3>1. f[0] = first
      BY <1>4
    <3>2. first \in Verdicts /\ Len(first.given) = 0 /\ first.used = taken
      <4>1. PICK G : G = LoginNames \cup {NoLogin}
        OBVIOUS
      <4>2. << >> \in Seq(G) /\ Len(<< >>) = 0
        OBVIOUS
      <4> QED
        BY <1>2, <4>1, <4>2 DEF Verdicts
    <3>3. VerdictSound(first, 0, rows, emails, names, taken)
      BY <3>2 DEF VerdictSound
    <3> QED
      BY <2>2, <2>3, <3>1, <3>3
  <2>4. CASE n # 0
    <3>1. PICK m \in Nat : n = m + 1 /\ m \in 0..N /\ m \notin bad
      <4>1. n \in Nat /\ n - 1 \in Nat /\ n - 1 \in 0..N /\ n - 1 \notin bad /\ n = (n - 1) + 1
        BY <2>2, <2>4
      <4> QED
        BY <4>1
    <3>2. VerdictSound(f[m], m, rows, emails, names, taken)
      BY <3>1
    <3>3. m + 1 \in 0..N /\ m + 1 # 0 /\ (m + 1) - 1 = m
      BY <2>2, <3>1
    <3>4. f[m + 1] = Verdict(f[m], rows[m + 1], emails, names)
      BY <1>4, <3>3
    <3>5. \A k \in 1..(m + 1) : rows[k] \in AllRows
      BY <1>1, <3>3
    <3>6. VerdictSound(Verdict(f[m], rows[m + 1], emails, names), m + 1, rows, emails, names, taken)
      BY <3>2, <3>5, RowJudged
    <3> QED
      BY <2>2, <3>1, <3>4, <3>6
  <2> QED
    BY <2>3, <2>4
<1>7. N \in 0..N /\ N \notin bad
  BY <1>6
<1>8. VerdictSound(f[N], N, rows, emails, names, taken)
  BY <1>7
<1> QED
  BY <1>1, <1>5, <1>8

----------------------------------------------------------------------------
(* Onboarding: nobody twice *)

OneOffice == \A o, x \in Offices : ServerOfOffice[o] = ServerOfOffice[x]

UserSteps == {"candidates", "users", "papers", "login", "wait", "auto"}

Records == [email : {r.email : r \in AllRows}, name : {r.name : r \in AllRows}, page : Nat]
LoginRecords == [login : LoginNames, owner : Nat, request : FormIds \cup {NoLogin}]

\* The logins an import has drawn for its m rows are its own.
Drawn(given, m, users) ==
  /\ given \in [1..m -> LoginNames]
  /\ \A i, k \in 1..m : given[i] = given[k] => i = k
  /\ \A i \in 1..m, k \in DOMAIN users : users[k].login # given[i]

\* Nobody who was imported is known by the email of the row, or its name if it has none.
NotYet(row, people) ==
  \A n \in DOMAIN people : people[n].page # 0 =>
    IF row.email # NoEmail THEN people[n].email # row.email ELSE people[n].name # row.name

\* What a request r may rely on, given the candidates and their logins.
OfficeSound(r, people, users) ==
  /\ r.step = "candidates" =>
       \E m \in Nat : /\ r.rows \in [1..m -> AllRows] /\ Drawn(r.given, m, users)
                      /\ \A i \in 1..m : NotYet(r.rows[i], people)
                      /\ \A i, k \in 1..m : i # k => Apart(r.rows[i], r.rows[k])
  /\ r.step = "users" =>
       \E m \in Nat : /\ Drawn(r.given, m, users)
                      /\ r.first \in Nat \ {0} /\ r.first + m <= Len(people) + 1
                      /\ \A k \in DOMAIN users : users[k].owner < r.first
  /\ r.step = "login" => /\ r.n \in DOMAIN people /\ r.login \in LoginNames /\ r.request \in FormIds
                         /\ \A k \in DOMAIN users : users[k].login # r.login /\ users[k].owner # r.n

OfficeTypes ==
  /\ sheet \in Seq(AllRows)
  /\ candidates \in Seq(Records) /\ logins \in Seq(LoginRecords)
  /\ DOMAIN office = Offices

AloneInOffice == \A o, x \in Offices : office[o].step \in UserSteps /\ office[x].step \in UserSteps => o = x

OnboardingInv ==
  /\ OfficeTypes /\ AloneInOffice
  /\ \A o \in Offices : OfficeSound(office[o], candidates, logins)
  /\ \A k \in DOMAIN logins : logins[k].owner \in DOMAIN candidates
  /\ NobodyTwice

LEMMA OnboardingStarts == OnboardingInit => OnboardingInv
<1> SUFFICES ASSUME OnboardingInit PROVE OnboardingInv
  OBVIOUS
<1>1. OfficeTypes
  <2>1. sheet \in Seq({sheet[n] : n \in DOMAIN sheet}) /\ {sheet[n] : n \in DOMAIN sheet} \subseteq AllRows
    BY OnboardingAssumption DEF OnboardingInit, AllRows
  <2>2. sheet \in Seq(AllRows)
    <3>1. PICK S \in SUBSET AllRows : S = {sheet[n] : n \in DOMAIN sheet}
      BY <2>1
    <3> QED
      BY <2>1, <3>1
  <2>3. \A S : << >> \in Seq(S)
    OBVIOUS
  <2> QED
    BY <2>2, <2>3 DEF OfficeTypes, OnboardingInit
<1>2. \A o \in Offices : office[o].step = "idle"
  BY DEF OnboardingInit, Absent
<1>3. DOMAIN candidates = {} /\ DOMAIN logins = {}
  BY DEF OnboardingInit
<1> QED
  BY <1>1, <1>2, <1>3 DEF OnboardingInv, AloneInOffice, UserSteps, OfficeSound, NobodyTwice

\* A request that is not in one of these steps relies on nothing.
LEMMA Carefree ==
  ASSUME NEW r, r.step \notin UserSteps, NEW people, NEW users
  PROVE  OfficeSound(r, people, users)
  BY DEF OfficeSound, UserSteps

LEMMA OfficeTurned ==
  ASSUME OnboardingInv, NEW o \in Offices, NEW r, Handles(o, r),
         OfficeSound(r, candidates', logins'),
         \/ office[o].step \in UserSteps
         \/ \A x \in Offices \ {o} : office[x].step \notin UserSteps
         \/ r.step \notin UserSteps /\ UNCHANGED <<candidates, logins>>
  PROVE  /\ DOMAIN office' = Offices /\ AloneInOffice'
         /\ \A x \in Offices : OfficeSound(office'[x], candidates', logins')
<1>1. DOMAIN office' = Offices /\ \A x \in Offices : office'[x] = IF x = o THEN r ELSE office[x]
  BY DEF OnboardingInv, OfficeTypes, Handles
<1>2. ASSUME \A x \in Offices \ {o} : office[x].step \notin UserSteps
      PROVE  AloneInOffice' /\ \A x \in Offices : OfficeSound(office'[x], candidates', logins')
  BY <1>1, <1>2, Carefree DEF AloneInOffice
<1>3. CASE office[o].step \in UserSteps
  <2>1. \A x \in Offices \ {o} : office[x].step \notin UserSteps
    BY <1>3 DEF OnboardingInv, AloneInOffice
  <2> QED
    BY <1>1, <1>2, <2>1
<1>4. CASE r.step \notin UserSteps /\ UNCHANGED <<candidates, logins>>
  <2>1. \A x \in Offices \ {o} : OfficeSound(office'[x], candidates', logins')
    BY <1>1, <1>4 DEF OnboardingInv
  <2>2. AloneInOffice'
    BY <1>1, <1>4 DEF OnboardingInv, AloneInOffice
  <2> QED
    BY <1>1, <2>1, <2>2
<1> QED
  BY <1>1, <1>2, <1>3, <1>4

\* A request takes the lock when nobody has it.
LEMMA LockTaken ==
  ASSUME OneOffice, NEW o \in Offices, UsersFree(o)
  PROVE  \A x \in Offices \ {o} : office[x].step \notin UserSteps
  BY DEF OneOffice, UsersFree, UserSteps

LEMMA AddsByHand ==
  ASSUME OnboardingInv, NEW n \in DOMAIN sheet, AddCandidate(sheet[n])
  PROVE  OnboardingInv'
<1>1. PICK c : c = [email |-> sheet[n].email, name |-> sheet[n].name, page |-> 0]
  OBVIOUS
<1>2. candidates \in Seq(Records) /\ sheet \in Seq(AllRows)
  BY DEF OnboardingInv, OfficeTypes
<1>3. c \in Records /\ c.page = 0
  <2>1. sheet[n] \in AllRows
    BY <1>2
  <2> QED
    BY <1>1, <2>1 DEF Records
<1>4. candidates' = Append(candidates, c) /\ UNCHANGED <<sheet, logins, office>>
  BY <1>1 DEF AddCandidate
<1>5. /\ candidates' \in Seq(Records) /\ Len(candidates') = Len(candidates) + 1
      /\ DOMAIN candidates = 1..Len(candidates) /\ DOMAIN candidates' = 1..(Len(candidates) + 1) /\ Len(candidates) \in Nat
      /\ \A k \in DOMAIN candidates : candidates'[k] = candidates[k]
      /\ candidates'[Len(candidates) + 1] = c
  BY <1>2, <1>3, <1>4
<1>6. \A k \in DOMAIN candidates' : candidates'[k].page # 0 => k \in DOMAIN candidates /\ candidates'[k] = candidates[k]
  BY <1>3, <1>5
<1>7. \A row : NotYet(row, candidates) => NotYet(row, candidates')
  BY <1>6 DEF NotYet
<1>8. DOMAIN candidates \subseteq DOMAIN candidates'
  BY <1>5
<1>9. ASSUME NEW o \in Offices PROVE OfficeSound(office'[o], candidates', logins')
  <2>1. PICK r : r = office[o] /\ r = office'[o]
    BY <1>4
  <2>2. OfficeSound(r, candidates, logins)
    BY <2>1 DEF OnboardingInv
  <2>3. r.step = "users" =>
          \E m \in Nat : /\ Drawn(r.given, m, logins)
                         /\ r.first \in Nat \ {0} /\ r.first + m <= Len(candidates') + 1
                         /\ \A k \in DOMAIN logins : logins[k].owner < r.first
    <3> SUFFICES ASSUME r.step = "users"
                 PROVE  \E m \in Nat : /\ Drawn(r.given, m, logins)
                                       /\ r.first \in Nat \ {0} /\ r.first + m <= Len(candidates') + 1
                                       /\ \A k \in DOMAIN logins : logins[k].owner < r.first
      OBVIOUS
    <3>1. PICK m \in Nat : /\ Drawn(r.given, m, logins)
                           /\ r.first \in Nat \ {0} /\ r.first + m <= Len(candidates) + 1
                           /\ \A k \in DOMAIN logins : logins[k].owner < r.first
      BY <2>2 DEF OfficeSound
    <3>2. r.first + m <= Len(candidates') + 1
      BY <1>5, <3>1
    <3> QED
      BY <3>1, <3>2
  <2>4. r.step = "candidates" =>
          \E m \in Nat : /\ r.rows \in [1..m -> AllRows] /\ Drawn(r.given, m, logins)
                         /\ \A i \in 1..m : NotYet(r.rows[i], candidates')
                         /\ \A i, k \in 1..m : i # k => Apart(r.rows[i], r.rows[k])
    BY <1>7, <2>2 DEF OfficeSound
  <2>5. OfficeSound(r, candidates', logins)
    BY <1>8, <2>2, <2>3, <2>4 DEF OfficeSound
  <2> QED
    BY <1>4, <2>1, <2>5
<1>10. NobodyTwice'
  <2>1. ASSUME NEW i \in DOMAIN candidates', NEW k \in DOMAIN candidates', i < k, Imported(i)', Imported(k)'
        PROVE  IF candidates'[k].email # NoEmail THEN candidates'[i].email # candidates'[k].email
               ELSE candidates'[i].name = candidates'[k].name =>
                      candidates'[i].page = candidates'[k].page /\ candidates'[i].email # NoEmail
    <3>1. i \in DOMAIN candidates /\ k \in DOMAIN candidates /\ candidates'[i] = candidates[i] /\ candidates'[k] = candidates[k]
      BY <1>6, <2>1 DEF Imported
    <3>2. Imported(i) /\ Imported(k)
      BY <2>1, <3>1 DEF Imported
    <3> QED
      BY <2>1, <3>1, <3>2 DEF OnboardingInv, NobodyTwice
  <2> QED
    BY <1>4, <2>1 DEF OnboardingInv, NobodyTwice
<1> QED
  BY <1>4, <1>5, <1>8, <1>9, <1>10 DEF OnboardingInv, OfficeTypes, AloneInOffice

\* The whole page is judged against the directory there is, and nobody else adds to it.
LEMMA PageIsSound ==
  ASSUME OnboardingInv, NEW from \in Nat, NEW given, given = Judged(sheet, Emails, Names, Taken),
         NEW page, page = {n \in DOMAIN sheet : n > from /\ n <= from + PageSize /\ given[n] # NoLogin},
         NEW r, r = [step |-> "candidates",
                     rows |-> [i \in 1..Cardinality(page) |-> sheet[Nth(page, i)]],
                     given |-> [i \in 1..Cardinality(page) |-> given[Nth(page, i)]]]
  PROVE  OfficeSound(r, candidates, logins)
<1>1. sheet \in Seq(AllRows) /\ logins \in Seq(LoginRecords)
  BY DEF OnboardingInv, OfficeTypes
<1>2. PICK emails, names, taken : emails = Emails /\ names = Names /\ taken = Taken
  OBVIOUS
<1>3. taken \in SUBSET LoginNames /\ IsFiniteSet(taken)
  <2>1. ASSUME NEW k \in DOMAIN logins PROVE logins[k].login \in LoginNames
    <3>1. logins[k] \in LoginRecords
      BY <1>1
    <3> QED
      BY <3>1 DEF LoginRecords
  <2>2. DOMAIN logins = 1..Len(logins) /\ Len(logins) \in Nat
    BY <1>1
  <2>3. IsFiniteSet(DOMAIN logins)
    BY <2>2, FS_Interval
  <2>4. IsFiniteSet({logins[k].login : k \in DOMAIN logins})
    <3>1. PICK S, T, f : /\ S = DOMAIN logins /\ T = {logins[k].login : k \in S}
                         /\ f = [k \in S |-> logins[k].login]
      OBVIOUS
    <3>2. f \in Surjection(S, T)
      BY <3>1 DEF Surjection
    <3> QED
      BY <2>3, <3>1, <3>2, FS_Surjection
  <2> QED
    BY <1>2, <2>1, <2>4 DEF Taken
<1>4. PICK v : VerdictSound(v, Len(sheet), sheet, emails, names, taken) /\ given = v.given
  BY <1>1, <1>2, <1>3, SheetJudged
<1>5. PICK N \in Nat : N = Len(sheet) /\ DOMAIN sheet = 1..N
  BY <1>1
<1>6. page \in SUBSET (1..N) /\ \A n \in page : given[n] # NoLogin
  BY <1>5
<1>7. PICK m \in Nat : m = Cardinality(page)
  BY <1>5, <1>6, NthFacts
<1>8. PICK nth \in [1..m -> page] : /\ \A i \in 1..m : nth[i] = Nth(page, i)
                                    /\ \A i, k \in 1..m : nth[i] = nth[k] => i = k
  <2>1. \A i \in 1..m : Nth(page, i) \in page
    BY <1>5, <1>6, <1>7, NthFacts
  <2>2. \A i, k \in 1..m : Nth(page, i) = Nth(page, k) => i = k
    BY <1>5, <1>6, <1>7, NthFacts
  <2>3. [i \in 1..m |-> Nth(page, i)] \in [1..m -> page]
    BY <2>1
  <2> QED
    BY <2>2, <2>3
<1>9. /\ r.step = "candidates" /\ DOMAIN r.rows = 1..m /\ DOMAIN r.given = 1..m
      /\ r.rows = [i \in 1..m |-> r.rows[i]] /\ r.given = [i \in 1..m |-> r.given[i]]
      /\ \A i \in 1..m : r.rows[i] = sheet[nth[i]] /\ r.given[i] = given[nth[i]]
  BY <1>7, <1>8
<1>10. \A i \in 1..m : nth[i] \in 1..N /\ given[nth[i]] # NoLogin
  BY <1>6, <1>8
<1>11. ASSUME NEW i \in 1..m
       PROVE  /\ Listed(v, N, r.rows[i], r.given[i], emails, names, taken)
              /\ r.rows[i] \in AllRows /\ r.given[i] \in LoginNames
  <2>1. Listed(v, N, sheet[nth[i]], given[nth[i]], emails, names, taken)
    BY <1>4, <1>5, <1>10 DEF VerdictSound
  <2>2. v.used \in SUBSET LoginNames
    BY <1>4 DEF VerdictSound, Verdicts
  <2>3. sheet[nth[i]] \in AllRows
    BY <1>1, <1>5, <1>10
  <2> QED
    BY <1>9, <2>1, <2>2, <2>3 DEF Listed
<1>12. ASSUME NEW i \in 1..m, NEW k \in 1..m, i # k
       PROVE  r.given[i] # r.given[k] /\ Apart(r.rows[i], r.rows[k])
  <2>1. nth[i] # nth[k]
    BY <1>8, <1>12
  <2>2. \A x, y \in 1..N : x # y /\ v.given[x] # NoLogin /\ v.given[y] # NoLogin =>
          v.given[x] # v.given[y] /\ Apart(sheet[x], sheet[y])
    BY <1>4, <1>5 DEF VerdictSound
  <2>3. given[nth[i]] # given[nth[k]] /\ Apart(sheet[nth[i]], sheet[nth[k]])
    BY <1>4, <1>10, <2>1, <2>2
  <2> QED
    BY <1>9, <2>3
<1>13. Drawn(r.given, m, logins)
  <2>1. r.given \in [1..m -> LoginNames]
    BY <1>9, <1>11
  <2>2. ASSUME NEW i \in 1..m, NEW k \in DOMAIN logins PROVE logins[k].login # r.given[i]
    <3>1. r.given[i] \notin taken
      BY <1>11 DEF Listed
    <3>2. logins[k].login \in Taken
      BY DEF Taken
    <3> QED
      BY <1>2, <3>1, <3>2
  <2> QED
    BY <1>12, <2>1, <2>2 DEF Drawn
<1>14. ASSUME NEW i \in 1..m PROVE NotYet(r.rows[i], candidates)
  <2>1. IF r.rows[i].email # NoEmail THEN r.rows[i].email \notin emails ELSE r.rows[i].name \notin names
    BY <1>11 DEF Listed
  <2>2. ASSUME NEW n \in DOMAIN candidates
        PROVE  candidates[n].name \in Names /\ (candidates[n].email # NoEmail => candidates[n].email \in Emails)
    BY DEF Emails, Names
  <2> QED
    BY <1>2, <2>1, <2>2 DEF NotYet
<1>15. r.rows \in [1..m -> AllRows]
  BY <1>9, <1>11
<1> QED
  BY <1>9, <1>12, <1>13, <1>14, <1>15 DEF OfficeSound

LEMMA StepsLikeThat ==
  /\ {"candidates", "users", "papers", "login", "wait", "auto"} = UserSteps
  /\ "idle" \notin UserSteps /\ "hand" \notin UserSteps
  BY DEF UserSteps

\* A request that leaves candidates and logins alone.
LEMMA DirectoryRests ==
  ASSUME OnboardingInv, UNCHANGED <<sheet, candidates, logins>>, NEW o \in Offices, NEW r, Handles(o, r),
         OfficeSound(r, candidates, logins),
         \/ office[o].step \in UserSteps
         \/ \A x \in Offices \ {o} : office[x].step \notin UserSteps
         \/ r.step \notin UserSteps
  PROVE  OnboardingInv'
<1>1. /\ DOMAIN office' = Offices /\ AloneInOffice'
      /\ \A x \in Offices : OfficeSound(office'[x], candidates', logins')
  BY OfficeTurned
<1>2. NobodyTwice'
  BY DEF OnboardingInv, NobodyTwice, Imported
<1> QED
  BY <1>1, <1>2 DEF OnboardingInv, OfficeTypes

LEMMA PagesImported ==
  ASSUME OneOffice, OnboardingInv, NEW o \in Offices, NEW from \in Nat, ImportPage(o, from)
  PROVE  OnboardingInv'
<1>1. PICK given : given = Judged(sheet, Emails, Names, Taken)
  OBVIOUS
<1>2. PICK page : page = {n \in DOMAIN sheet : n > from /\ n <= from + PageSize /\ given[n] # NoLogin}
  OBVIOUS
<1>3. PICK r : r = [step |-> "candidates",
                    rows |-> [i \in 1..Cardinality(page) |-> sheet[Nth(page, i)]],
                    given |-> [i \in 1..Cardinality(page) |-> given[Nth(page, i)]]]
  OBVIOUS
<1>4. Handles(o, r) /\ UsersFree(o) /\ UNCHANGED <<sheet, candidates, logins>>
  BY <1>1, <1>2, <1>3 DEF ImportPage
<1>5. OfficeSound(r, candidates, logins)
  BY <1>1, <1>2, <1>3, PageIsSound
<1> QED
  BY <1>4, <1>5, LockTaken, DirectoryRests

\* What the table has after a batched write.
LEMMA Joined ==
  ASSUME NEW S, NEW s \in Seq(S), NEW t \in Seq(S), NEW n \in Nat, NEW m \in Nat, n = Len(s), m = Len(t)
  PROVE  /\ s \o t \in Seq(S) /\ Len(s \o t) = n + m /\ DOMAIN (s \o t) = 1..(n + m)
         /\ \A k \in 1..n : (s \o t)[k] = s[k]
         /\ \A k \in 1..m : (s \o t)[n + k] = t[k]
  OBVIOUS

LEMMA CandidatesWritten ==
  ASSUME OnboardingInv, NEW o \in Offices, WriteCandidates(o)
  PROVE  OnboardingInv'
<1>1. PICK w : w = office[o]
  OBVIOUS
<1>2. PICK m \in Nat : /\ w.rows \in [1..m -> AllRows] /\ Drawn(w.given, m, logins)
                       /\ \A i \in 1..m : NotYet(w.rows[i], candidates)
                       /\ \A i, k \in 1..m : i # k => Apart(w.rows[i], w.rows[k])
  <2>1. OfficeSound(w, candidates, logins) /\ w.step = "candidates"
    BY <1>1 DEF OnboardingInv, WriteCandidates, InOffice
  <2> QED
    BY <2>1 DEF OfficeSound
<1>3. candidates \in Seq(Records) /\ logins \in Seq(LoginRecords)
  BY DEF OnboardingInv, OfficeTypes
<1>4. PICK c \in Nat : c = Len(candidates) /\ DOMAIN candidates = 1..c
  BY <1>3
<1>5. PICK new : new = [i \in 1..m |-> [email |-> w.rows[i].email, name |-> w.rows[i].name, page |-> c + 1]]
  OBVIOUS
<1>6. new \in Seq(Records) /\ Len(new) = m /\ \A i \in 1..m : new[i] \in Records
  <2>1. \A i \in 1..m : new[i] \in Records
    BY <1>2, <1>5 DEF Records
  <2>2. DOMAIN new = 1..m /\ new = [i \in 1..m |-> new[i]]
    BY <1>5
  <2>3. new \in [1..m -> Records]
    BY <2>1, <2>2
  <2> QED
    BY <2>1, <2>3
<1>7. candidates' = candidates \o new /\ UNCHANGED <<sheet, logins>>
  BY <1>1, <1>2, <1>4, <1>5 DEF WriteCandidates
<1>8. /\ candidates' \in Seq(Records) /\ Len(candidates') = c + m /\ DOMAIN candidates' = 1..(c + m)
      /\ \A k \in 1..c : candidates'[k] = candidates[k]
      /\ \A i \in 1..m : candidates'[c + i] = new[i]
  <2>1. PICK all : all = candidates \o new
    OBVIOUS
  <2>2. /\ all \in Seq(Records) /\ Len(all) = c + m /\ DOMAIN all = 1..(c + m)
        /\ \A k \in 1..c : all[k] = candidates[k]
        /\ \A i \in 1..m : all[c + i] = new[i]
    BY <1>3, <1>4, <1>6, <2>1, Joined
  <2> QED
    BY <1>7, <2>1, <2>2
<1>9. PICK r : r = [step |-> "users", given |-> w.given, first |-> c + 1]
  OBVIOUS
<1>10. Handles(o, r) /\ office[o].step \in UserSteps
  BY <1>1, <1>4, <1>9 DEF WriteCandidates, InOffice, UserSteps
<1>11. OfficeSound(r, candidates', logins')
  <2>1. \A k \in DOMAIN logins : logins[k].owner < c + 1
    BY <1>4 DEF OnboardingInv
  <2>2. c + 1 \in Nat \ {0} /\ (c + 1) + m <= Len(candidates') + 1
    BY <1>8
  <2>3. r.step = "users" /\ r.given = w.given /\ r.first = c + 1
    BY <1>9
  <2> QED
    BY <1>2, <1>7, <2>1, <2>2, <2>3 DEF OfficeSound
<1>12. /\ DOMAIN office' = Offices /\ AloneInOffice'
       /\ \A x \in Offices : OfficeSound(office'[x], candidates', logins')
  BY <1>10, <1>11, OfficeTurned
<1>13. \A k \in DOMAIN candidates' : k \in 1..c \/ \E i \in 1..m : k = c + i
  <2>1. ASSUME NEW k \in 1..(c + m), k \notin 1..c PROVE k - c \in 1..m /\ k = c + (k - c)
    BY <2>1
  <2> QED
    BY <1>8, <2>1
<1>14. NobodyTwice'
  <2>1. ASSUME NEW i \in DOMAIN candidates', NEW k \in DOMAIN candidates', i < k, Imported(i)', Imported(k)'
        PROVE  IF candidates'[k].email # NoEmail THEN candidates'[i].email # candidates'[k].email
               ELSE candidates'[i].name = candidates'[k].name =>
                      candidates'[i].page = candidates'[k].page /\ candidates'[i].email # NoEmail
    <3>1. CASE i \in 1..c /\ k \in 1..c
      <4>1. Imported(i) /\ Imported(k) /\ candidates'[i] = candidates[i] /\ candidates'[k] = candidates[k]
        BY <1>8, <2>1, <3>1 DEF Imported
      <4> QED
        BY <1>4, <2>1, <3>1, <4>1 DEF OnboardingInv, NobodyTwice
    <3>2. ASSUME i \in 1..c, NEW b \in 1..m, k = c + b
          PROVE  IF candidates'[k].email # NoEmail THEN candidates'[i].email # candidates'[k].email
                 ELSE candidates'[i].name # candidates'[k].name
      <4>1. NotYet(w.rows[b], candidates) /\ candidates'[i] = candidates[i]
        BY <1>2, <1>8, <3>2
      <4>2. candidates[i].page # 0
        BY <2>1, <4>1 DEF Imported
      <4>3. candidates'[k] = new[b] /\ new[b].email = w.rows[b].email /\ new[b].name = w.rows[b].name
        BY <1>5, <1>8, <3>2
      <4> QED
        BY <1>4, <3>2, <4>1, <4>2, <4>3 DEF NotYet
    <3>3. ASSUME NEW a \in 1..m, i = c + a, NEW b \in 1..m, k = c + b
          PROVE  IF candidates'[k].email # NoEmail THEN candidates'[i].email # candidates'[k].email
                 ELSE candidates'[i].name = candidates'[k].name =>
                        candidates'[i].page = candidates'[k].page /\ candidates'[i].email # NoEmail
      <4>1. candidates'[i] = new[a] /\ candidates'[k] = new[b] /\ a # b
        BY <1>8, <2>1, <3>3
      <4>2. /\ new[a].email = w.rows[a].email /\ new[a].name = w.rows[a].name /\ new[a].page = c + 1
            /\ new[b].email = w.rows[b].email /\ new[b].name = w.rows[b].name /\ new[b].page = c + 1
        BY <1>5
      <4>3. Apart(w.rows[a], w.rows[b])
        BY <1>2, <4>1
      <4> QED
        BY <4>1, <4>2, <4>3 DEF Apart
    <3>4. ASSUME NEW a \in 1..m, i = c + a, k \in 1..c PROVE FALSE
      BY <2>1, <3>4
    <3> QED
      BY <1>13, <2>1, <3>1, <3>2, <3>3, <3>4
  <2> QED
    BY <1>7, <2>1 DEF OnboardingInv, NobodyTwice
<1>15. \A k \in DOMAIN logins' : logins'[k].owner \in DOMAIN candidates'
  <2>1. 1..c \subseteq 1..(c + m)
    OBVIOUS
  <2> QED
    BY <1>4, <1>7, <1>8, <2>1 DEF OnboardingInv
<1> QED
  BY <1>7, <1>8, <1>12, <1>14, <1>15 DEF OnboardingInv, OfficeTypes

LEMMA UsersWritten ==
  ASSUME OnboardingInv, NEW o \in Offices, WriteUsers(o)
  PROVE  OnboardingInv'
<1>1. PICK w : w = office[o]
  OBVIOUS
<1>2. PICK m \in Nat : /\ Drawn(w.given, m, logins)
                       /\ w.first \in Nat \ {0} /\ w.first + m <= Len(candidates) + 1
                       /\ \A k \in DOMAIN logins : logins[k].owner < w.first
  <2>1. OfficeSound(w, candidates, logins) /\ w.step = "users"
    BY <1>1 DEF OnboardingInv, WriteUsers, InOffice
  <2> QED
    BY <2>1 DEF OfficeSound
<1>3. candidates \in Seq(Records) /\ logins \in Seq(LoginRecords)
  BY DEF OnboardingInv, OfficeTypes
<1>4. PICK n, c \in Nat : n = Len(logins) /\ DOMAIN logins = 1..n /\ c = Len(candidates) /\ DOMAIN candidates = 1..c
  BY <1>3
<1>5. PICK new : new = [k \in 1..m |-> [login |-> w.given[k], owner |-> w.first + k - 1, request |-> NoLogin]]
  OBVIOUS
<1>6. ASSUME NEW k \in 1..m
      PROVE  /\ new[k].login = w.given[k] /\ new[k].owner = w.first + k - 1
             /\ new[k] \in LoginRecords /\ w.first + k - 1 \in Nat
  <2>1. w.given[k] \in LoginNames /\ w.first + k - 1 \in Nat
    BY <1>2 DEF Drawn
  <2> QED
    BY <1>5, <2>1 DEF LoginRecords
<1>7. new \in Seq(LoginRecords) /\ Len(new) = m
  <2>1. DOMAIN new = 1..m /\ new = [k \in 1..m |-> new[k]]
    BY <1>5
  <2>2. new \in [1..m -> LoginRecords]
    BY <1>6, <2>1
  <2> QED
    BY <2>2
<1>8. logins' = logins \o new /\ UNCHANGED <<sheet, candidates>>
  <2>1. DOMAIN w.given = 1..m
    BY <1>2 DEF Drawn
  <2> QED
    BY <1>1, <1>5, <2>1 DEF WriteUsers
<1>9. /\ logins' \in Seq(LoginRecords) /\ DOMAIN logins' = 1..(n + m)
      /\ \A k \in 1..n : logins'[k] = logins[k]
      /\ \A k \in 1..m : logins'[n + k] = new[k]
  <2>1. PICK all : all = logins \o new
    OBVIOUS
  <2>2. /\ all \in Seq(LoginRecords) /\ DOMAIN all = 1..(n + m)
        /\ \A k \in 1..n : all[k] = logins[k]
        /\ \A k \in 1..m : all[n + k] = new[k]
    BY <1>3, <1>4, <1>7, <2>1, Joined
  <2> QED
    BY <1>8, <2>1, <2>2
<1>10. \A k \in DOMAIN logins' : k \in 1..n \/ \E i \in 1..m : k = n + i
  <2>1. ASSUME NEW k \in 1..(n + m), k \notin 1..n PROVE k - n \in 1..m /\ k = n + (k - n)
    BY <2>1
  <2> QED
    BY <1>9, <2>1
<1>11. /\ DOMAIN office' = Offices /\ AloneInOffice'
       /\ \A x \in Offices : OfficeSound(office'[x], candidates', logins')
  <2>1. PICK r : Handles(o, r) /\ r.step = "papers"
    BY DEF WriteUsers
  <2>2. OfficeSound(r, candidates', logins')
    BY <2>1 DEF OfficeSound
  <2>3. office[o].step \in UserSteps
    BY DEF WriteUsers, InOffice, UserSteps
  <2> QED
    BY <2>1, <2>2, <2>3, OfficeTurned
<1>12. ASSUME NEW i \in DOMAIN logins', NEW k \in DOMAIN logins', i # k
       PROVE  logins'[i].login # logins'[k].login /\ logins'[i].owner # logins'[k].owner
  <2>1. ASSUME NEW a \in 1..n, NEW b \in 1..m
        PROVE  logins'[a].login # logins'[n + b].login /\ logins'[a].owner # logins'[n + b].owner
    <3>1. logins[a].owner < w.first /\ logins[a].login # w.given[b] /\ logins[a].owner \in 1..c
      BY <1>2, <1>4 DEF Drawn, OnboardingInv
    <3>2. logins[a].owner # w.first + b - 1
      BY <1>2, <3>1
    <3> QED
      BY <1>6, <1>9, <3>1, <3>2
  <2>2. CASE i \in 1..n /\ k \in 1..n
    BY <1>4, <1>9, <1>12, <2>2 DEF OnboardingInv, NobodyTwice
  <2>3. ASSUME NEW a \in 1..m, i = n + a, NEW b \in 1..m, k = n + b
        PROVE  logins'[i].login # logins'[k].login /\ logins'[i].owner # logins'[k].owner
    <3>1. a # b
      BY <1>12, <2>3
    <3>2. w.given[a] # w.given[b] /\ w.first + a - 1 # w.first + b - 1
      <4>1. w.given[a] # w.given[b]
        BY <1>2, <3>1 DEF Drawn
      <4>2. PICK f \in Nat : f = w.first
        BY <1>2
      <4>3. f + a - 1 # f + b - 1
        BY <3>1
      <4> QED
        BY <4>1, <4>2, <4>3
    <3>3. logins'[i] = new[a] /\ logins'[k] = new[b]
      BY <1>9, <2>3
    <3> QED
      BY <1>6, <3>2, <3>3
  <2> QED
    BY <1>10, <2>1, <2>2, <2>3
<1>13. NobodyTwice'
  BY <1>8, <1>12 DEF OnboardingInv, NobodyTwice, Imported
<1>14. \A k \in DOMAIN logins' : logins'[k].owner \in DOMAIN candidates'
  <2>1. ASSUME NEW k \in 1..n PROVE logins'[k].owner \in 1..c
    BY <1>4, <1>9, <2>1 DEF OnboardingInv
  <2>2. ASSUME NEW k \in 1..m PROVE logins'[n + k].owner \in 1..c
    <3>1. w.first + k - 1 <= c
      BY <1>2, <1>4
    <3>2. w.first + k - 1 >= 1 /\ w.first + k - 1 \in Nat
      BY <1>2
    <3>3. logins'[n + k].owner = w.first + k - 1
      BY <1>6, <1>9
    <3> QED
      BY <3>1, <3>2, <3>3
  <2> QED
    BY <1>4, <1>8, <1>10, <2>1, <2>2
<1> QED
  BY <1>8, <1>9, <1>11, <1>13, <1>14 DEF OnboardingInv, OfficeTypes

LEMMA UserInserted ==
  ASSUME OnboardingInv, NEW o \in Offices, InsertUser(o)
  PROVE  OnboardingInv'
<1>1. PICK w : w = office[o]
  OBVIOUS
<1>2. /\ w.n \in DOMAIN candidates /\ w.login \in LoginNames /\ w.request \in FormIds
      /\ \A k \in DOMAIN logins : logins[k].login # w.login /\ logins[k].owner # w.n
  BY <1>1 DEF OnboardingInv, OfficeSound, InsertUser, InOffice
<1>3. candidates \in Seq(Records) /\ logins \in Seq(LoginRecords)
  BY DEF OnboardingInv, OfficeTypes
<1>4. PICK n, c \in Nat : n = Len(logins) /\ DOMAIN logins = 1..n /\ c = Len(candidates) /\ DOMAIN candidates = 1..c
  BY <1>3
<1>5. PICK new : new = [login |-> w.login, owner |-> w.n, request |-> w.request]
  OBVIOUS
<1>6. new \in LoginRecords /\ new.login = w.login /\ new.owner = w.n
  BY <1>2, <1>4, <1>5 DEF LoginRecords
<1>7. logins' = Append(logins, new) /\ UNCHANGED <<sheet, candidates>>
  BY <1>1, <1>5 DEF InsertUser
<1>8. /\ logins' \in Seq(LoginRecords) /\ DOMAIN logins' = 1..(n + 1)
      /\ \A k \in 1..n : logins'[k] = logins[k]
      /\ logins'[n + 1] = new
  BY <1>3, <1>4, <1>6, <1>7
<1>9. \A k \in DOMAIN logins' : k \in 1..n \/ k = n + 1
  BY <1>8
<1>10. /\ DOMAIN office' = Offices /\ AloneInOffice'
       /\ \A x \in Offices : OfficeSound(office'[x], candidates', logins')
  <2>1. PICK r : Handles(o, r) /\ r.step = "wait"
    BY DEF InsertUser
  <2>2. OfficeSound(r, candidates', logins')
    BY <2>1 DEF OfficeSound
  <2>3. office[o].step \in UserSteps
    BY DEF InsertUser, InOffice, UserSteps
  <2> QED
    BY <2>1, <2>2, <2>3, OfficeTurned
<1>11. \A i, k \in DOMAIN logins' :
         i # k => logins'[i].login # logins'[k].login /\ logins'[i].owner # logins'[k].owner
  BY <1>2, <1>4, <1>6, <1>8, <1>9 DEF OnboardingInv, NobodyTwice
<1>12. NobodyTwice'
  BY <1>7, <1>11 DEF OnboardingInv, NobodyTwice, Imported
<1>13. \A k \in DOMAIN logins' : logins'[k].owner \in DOMAIN candidates'
  BY <1>2, <1>4, <1>6, <1>7, <1>8, <1>9 DEF OnboardingInv
<1> QED
  BY <1>7, <1>8, <1>10, <1>12, <1>13 DEF OnboardingInv, OfficeTypes

LEMMA UserAdded ==
  ASSUME OneOffice, OnboardingInv, NEW o \in Offices, NEW n \in DOMAIN candidates,
         NEW login \in LoginsInUse, NEW request \in FormIds, AddUser(o, n, login, request)
  PROVE  OnboardingInv'
<1>1. \A x \in Offices \ {o} : office[x].step \notin UserSteps
  BY LockTaken DEF AddUser
<1>2. UNCHANGED <<sheet, candidates, logins>>
  BY DEF AddUser
<1>3. CASE login \in Taken
  <2>1. PICK r : Handles(o, r) /\ r.step = "wait"
    BY <1>3 DEF AddUser
  <2>2. OfficeSound(r, candidates, logins)
    BY <2>1 DEF OfficeSound
  <2> QED
    BY <1>1, <1>2, <2>1, <2>2, DirectoryRests
<1>4. CASE login \notin Taken
  <2>1. PICK r : /\ Handles(o, r)
                 /\ r = [step |-> "login", n |-> n, login |-> login, request |-> request]
    BY <1>4 DEF AddUser
  <2>2. login \in LoginNames
    <3>1. PICK k \in DOMAIN sheet : login = <<sheet[k].base, 1>>
      BY <1>4 DEF LoginsInUse
    <3>2. sheet[k] \in AllRows
      BY DEF OnboardingInv, OfficeTypes
    <3> QED
      BY <3>1, <3>2 DEF LoginNames
  <2>3. \A k \in DOMAIN logins : logins[k].login # login
    BY <1>4 DEF Taken
  <2>4. \A k \in DOMAIN logins : logins[k].owner # n
    BY <2>3 DEF AddUser, Unlinked
  <2>5. OfficeSound(r, candidates, logins)
    BY <2>1, <2>2, <2>3, <2>4 DEF OfficeSound
  <2> QED
    BY <1>1, <1>2, <2>1, <2>5, DirectoryRests
<1> QED
  BY <1>3, <1>4

\* The steps that only deal with papers, and those that fail.
LEMMA DeskCleared ==
  ASSUME OnboardingInv, NEW o \in Offices, WritePapers(o) \/ InsertPaperOf(o) \/ OfficeFails(o)
  PROVE  OnboardingInv'
<1>1. Handles(o, Absent) /\ UNCHANGED <<sheet, candidates, logins>>
  BY DEF WritePapers, InsertPaperOf, OfficeFails
<1>2. Absent.step = "idle"
  BY DEF Absent
<1>3. Absent.step \notin UserSteps /\ OfficeSound(Absent, candidates, logins)
  BY <1>2 DEF OfficeSound, UserSteps
<1> QED
  BY <1>1, <1>3, DirectoryRests

LEMMA PaperLookedFor ==
  ASSUME OnboardingInv, NEW o \in Offices, NEW n, NEW step, LookForPaper(o, n, step)
  PROVE  OnboardingInv'
<1>1. PICK r : Handles(o, r) /\ r.step = step /\ UNCHANGED <<sheet, candidates, logins>>
  BY DEF LookForPaper
<1>2. \/ step = "auto" /\ office[o].step = "wait"
      \/ step = "hand"
  BY DEF LookForPaper, InOffice
<1>3. OfficeSound(r, candidates, logins)
  BY <1>1, <1>2 DEF OfficeSound
<1>4. office[o].step \in UserSteps \/ r.step \notin UserSteps
  BY <1>1, <1>2 DEF UserSteps
<1> QED
  BY <1>1, <1>3, <1>4, DirectoryRests

LEMMA OnboardingStays ==
  ASSUME OneOffice, OnboardingInv, [OnboardingNext]_onboardingVars
  PROVE  OnboardingInv'
<1>1. CASE \E n \in DOMAIN sheet : AddCandidate(sheet[n])
  BY <1>1, AddsByHand
<1>2. ASSUME NEW o \in Offices, NEW k \in 0..(Len(sheet) - 1), ImportPage(o, k) PROVE OnboardingInv'
  <2>1. k \in Nat
    BY DEF OnboardingInv, OfficeTypes
  <2> QED
    BY <1>2, <2>1, PagesImported
<1>3. ASSUME NEW o \in Offices, NEW n \in DOMAIN candidates,
             \/ \E step \in {"auto", "hand"} : LookForPaper(o, n, step)
             \/ \E login \in LoginsInUse, request \in FormIds : AddUser(o, n, login, request)
      PROVE  OnboardingInv'
  BY <1>3, PaperLookedFor, UserAdded
<1>4. ASSUME NEW o \in Offices,
             \/ WriteCandidates(o) \/ WriteUsers(o) \/ WritePapers(o)
             \/ InsertUser(o) \/ InsertPaperOf(o) \/ OfficeFails(o)
      PROVE  OnboardingInv'
  BY <1>4, CandidatesWritten, UsersWritten, UserInserted, DeskCleared
<1>5. CASE UNCHANGED onboardingVars
  BY <1>5 DEF onboardingVars, OnboardingInv, OfficeTypes, AloneInOffice, NobodyTwice, Imported
<1> QED
  BY <1>1, <1>2, <1>3, <1>4, <1>5 DEF OnboardingNext

\* On one instance, for every spreadsheet, page size and number of requests: no username
\* and no candidate has two accounts, and no mix of imports, sent again in whole or in
\* part, makes a second record of a person (people.mjs:95-98 and 528-532,
\* candidate-import.mjs:259-265).
THEOREM NobodyComesTwice ==
  ASSUME OneOffice
  PROVE  OnboardingSpec => []NobodyTwice
<1>1. OnboardingInv => NobodyTwice
  BY DEF OnboardingInv
<1> QED
  BY <1>1, OnboardingStarts, OnboardingStays, PTL DEF OnboardingSpec

=============================================================================
