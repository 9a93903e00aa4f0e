# A TLA+ model of Anthroprime ECOD

ECOD assesses candidates: an administrator gives a candidate an exam (a *paper* of
questions), the candidate sits it in a browser, an assessor scores it and publishes a
report. The server is Node.js without a framework; it runs as one long-lived process
(`src/server.mjs`) on a JSON file, or as serverless functions
(`src/netlify/functions/api.mjs`) of which **many instances run at once against one blob
store**. There are no transactions: a request is a sequence of storage calls, any of which
may be the last one its instance makes.

The modules here model the parts where that matters, call by call; TLC checks them on small
instances and TLAPS proves the main safety results for every size of instance. Paths below are
relative to the repository's root (`src/` there is the server's own directory).

## 1. Inventory

| Part | Code | State | Operations | What makes it hard | What must hold |
|---|---|---|---|---|---|
| Exam session | `src/api/handlers/candidate.mjs`, `quiz-session.mjs` | the assessment row with its quiz state (cursor, phase, clock, integrity trail); a response row per question | open, draft, phase, next, beacon, hand in | the row lock and the cursor are in different objects; retries, lost answers, two instances | answers are sealed in order and stay sealed; clocks start once; nothing of the trail is lost or doubled |
| Exam clock and expiry | `exam-expiry.mjs` | `started_at`, `scheduled_at`, the booking's status | admission check, expire on access, cancel | nobody runs at the deadline; listings write without the paper's lock | the deadline seals the answers; an overdue or cancelled paper is closed in the end |
| Device binding | `candidate.mjs` 54-98 | `device_session`, `device_ip` of the quiz state | claim, take over | decided before the handler runs; other writers rebuild the quiz state | one browser at a time, moved by choice only; a move is in the trail, also one that overtakes a request of the browser that had the exam |
| Exam page | `public/js/views/candidate.js`, `api.js` | the live question, its draft, the recorder, requests under way | review, record, edit, lock, hand in, reload | lost requests and answers, timers, a recorder that fails | nothing passes unseen; a lock keeps the work; the paper is handed in |
| Scoring | `handlers/assessor.mjs`, `assessment-service.mjs`, `core/scoring.mjs`; `public/js/views/assessor.js`, `score-save-queue.js` | scores on response rows, `report_json`; the page's marks and its queue of saves | enter scores, finalize | many row writes, the report last; a page that goes on while saves are under way | the report is computed from the answers on the paper and the marks that were confirmed |
| Test bookings | `handlers/bookings.mjs` | booking rows | create link, book, repair, cancel | provisioning is a saga over four tables | one use per link, one booking per address, set up in the end |
| Person and exam deletion | `person-purge.mjs`, `handlers/admin/assessments.mjs` | all of a person's rows | purge, delete exam | stopped half way; races with set-up and hand-in | no orphans; nobody is let in |
| Allocation | `assessment-service.mjs`, `handlers/admin/assessments.mjs`, `people.mjs`, `shared.mjs` | papers, the candidate's assessor and stage | allocate, reassign, batch, advance stage | two tables per change | one open paper per candidate and track; a scored paper keeps its assessor |
| Onboarding | `handlers/admin/people.mjs`, `core/candidate-import.mjs` | candidates, users | import page by page, add, add a login | derived logins against a snapshot, three writes per page | nobody twice |
| Drawing a paper | `core/question-selection.mjs`, `test-generation.mjs`, `paper-order.mjs`, `module-assessment.mjs` | none | reserve, apportion, draw, arrange | quotas, rounding, three rules that count a bank | the seats are filled, weights decide, the plan keeps its word |
| Question bank | `handlers/admin/question-bank.mjs`, `bank-service.mjs`, `core/question-intake.mjs` | authored questions, removals of published ones | save, edit, import, hide, restore | checks outside the lock | no twins, what is restored is shown |
| Tracks and catalogues | `catalogue-service.mjs`, `handlers/admin/tracks.mjs`, `content.mjs` | roles, frameworks, competencies, questions | install, sync, undo, add, delete | four tables per track, undone by hand | one track per key, all or nothing |
| Accounts | `handlers/auth.mjs`, `mfa-service.mjs`, `recovery-service.mjs` | users, sessions, recovery links | sign in, change password, second factor, recover, administer | generations read before an `await` | secrets work once; revoked sessions stay dead; the second factor holds |
| Retention | `retention-service.mjs`, `core/retention.mjs` | policy, marker on the paper, notes on answers | sweep, delete one recording | listed, then re-read under a lock; marker last | what is marked clean is clean; what is gone is explained |
| Storage: tables in blobs | `storage/netlify-blobs.mjs` | one object per table with an ETag | read, compare-and-set, retry | lost updates; ambiguous PUTs | each call atomic |
| Storage: shards and columns | `storage/row-tables.mjs` | an object per shard or detached column, an old whole-table object | change, fold, drop, split, attach | several objects per row | no answer lost in the move; a reader gets the paper of its row |
| Storage: JSON file | `storage/json-file.mjs` | one file, a copy in each process | reload, revision check, rename, roll back | a second process | who waits for his turn loses nothing |
| Locks | `api/mutex.mjs` | promise chains | lock | per process only | mutual exclusion per key and process |
| Gate, limits, audit rotation | `core/gate.mjs`, `api/rate-limit.mjs`, `storage/audit-rotation.mjs` | counters in memory, the audit table | bound, count, trim | at the limit | not modelled |
| Transports, other screens, scripts, content | `server.mjs`, `app.mjs`, `router.mjs`, `public/js`, `scripts`, `src/content` | requests, screens, data | HTTP, rendering | | not modelled |

The parts meet in three ways. *Calls*: handlers call the services and the store.
*Shared rows*: the exam, its listing screens, the bookings and the deletions all write the
assessment row, and the bookings are read by the exam. *Locks*: `withLock(key)` orders the
requests of one process on `assessment:<id>`, `booking:<id>`, `users:create`,
`identity:<id>`, `bank:<key>`, `role-key:<key>` and the allocation keys; across processes
only a conditional write (`changeRow`) does.

`PROJECT.json` lists every component with what is modelled of it, and the hazards, each at
its line with the properties that would show it going wrong.

## 2. Modules

| Module | Models | Extends or instantiates |
|---|---|---|
| `AnswerSheet` | abstract: a sheet whose answers are sealed one after another | - |
| `ExamHall` | one paper from assignment to report: exam routes, expiry, listings, scoring | implements `AnswerSheet` |
| `ExamDevice` | which browser holds an exam | - |
| `ExamPage` | the exam in the candidate's browser, over a network that loses things | - |
| `ScoringScreen` | the assessor's page, its queue of saves, and the two routes it calls | - |
| `TestBooking` | booking links, provisioning, cancellation, exam and person deletion | - |
| `Allocation` | who gets a paper and who scores it | - |
| `Onboarding` | imports, new candidates, new logins | - |
| `Accounts` | one account, its sessions, second factor and recovery links | - |
| `Retention` | the sweep, the deletion of a recording, the notes they leave | - |
| `PaperDrawing` | how a paper is drawn and arranged | - |
| `QuestionBank` | authored, imported and hidden questions | - |
| `Tracks` | installing, syncing and deleting a track | - |
| `TableRows` | what a storage call does to the rows of a table | - |
| `AtomicTable` | abstract: every call takes effect at one instant, between its call and its answer | `TableRows` |
| `BlobTable` | the compare-and-set loop over one object | `TableRows`, implements `AtomicTable` |
| `ShardMove` | a shard and the old whole-table object that is folded into it | - |
| `DetachedColumns` | a heavy column in objects of its own | - |
| `FileStore` | two processes on one JSON file | - |
| `ExamHallProofs`, `BlobTableProofs`, `TestBookingProofs`, `AccountsProofs` | proofs about the module they are named after | that module |
| `BrowserProofs` | proofs about `ExamDevice` and `ExamPage` | both |
| `StorageProofs` | proofs about `ShardMove`, `DetachedColumns`, `FileStore` | all three |
| `PapersProofs` | proofs about `Allocation`, `Onboarding`, `ScoringScreen`, `Retention` | all four |
| `ContentProofs` | proofs about `QuestionBank`, `Tracks`, `PaperDrawing` | all three |
| `MCExamHall`, `MCBlobTable`, `MCTestBooking`, `MCExamPage`, `MCRetention`, `MCPaperDrawing` | the values TLC gives the constants | their module |
| `MCServer` | a behaviour of one of `ShardMove`, `DetachedColumns`, `FileStore`, `Accounts` | all four |
| `MCServices` | a behaviour of one of `ExamDevice`, `Retention`, `Allocation`, `Onboarding`, `PaperDrawing`, `QuestionBank`, `Tracks`, `ScoringScreen` | all eight |

The layers fit together: `BlobTable` shows that a storage call on a table of a versioned
blob store is atomic, and that is what entitles the modules above it to make **one storage
call one step** (a `changeRow` reads and writes the row that is current, because the
decision is run again after a conflict). Between two steps anything else may run, and the
request may die.

The components in `MCServer` share no variables, and neither do those in `MCServices`: one
run checks several of them side by side, one per behaviour, and says nothing of their
combination, which the code does not have either (a question bank and a retention sweep
touch no common row). Where components do share rows they are one module: exam, expiry,
listings and scoring in `ExamHall`; bookings, exams and deletions in `TestBooking`;
candidates and papers in `Allocation`.

### ExamHall

- `row` is the assessment: status, whether `started_at` is set, and the quiz state
  (`opened`: it has a cursor; `index`, `phase`; `clock`, the time of the question in hand
  abstracted to running, in the grace period, late; `beacons`, the integrity counts;
  `missing` and `timeouts`, the missing-recording and `time_expired` events per question;
  `expired`, the marker).
- `responses[q]` is the response row: answer, lock, the answer `auto_score` was computed
  from, whether it was marked. `report[q]` is the answer the report was computed from.
- `hour` is the wall clock against the exam's window, `booking` the status of its booking.
- `req[s]` is what slot `s` works on. An instance is one slot, because the routes hold
  `assessment:<id>`; a `Sweeper` is a listing screen (or the second half of a
  cancellation), which calls `expireExam` without that lock. A request carries `seen`,
  what it goes on using of the row it read at arrival: staleness is in the model exactly
  where the code keeps a read.
- `starts`, `begun`, `heard`, `overran` are history variables; `overran` says of each
  question and phase whether its time was over when it was left, and whether the event was
  lost (section 3). `Timed` are the questions whose time may run out in an instance.

Each route is an arrival (the status check, `assertExamAccess`, the read) and its steps:

| Route | Arrival | Steps |
|---|---|---|
| `GET /candidate/assessments/:id` | `GetExam` | `Expire`, `OpenExam`, then `Expire` or `CancelPaper` |
| `PUT .../answers` | `SaveDraft` | `WriteDraft`, `StartPaper` |
| `POST .../integrity` | `SendBeacon` | `RecordBeacon` |
| `POST .../phase` | `StartAnswering` | `BeginAnswer` |
| `POST .../next` | `PostNext` | `TurnPhase`, or `LockAnswer` then `MoveCursor` |
| `POST .../submit` | `PostSubmit` | `ListRows`, `ScoreRows`, `ClosePaper` |
| any of these past the deadline | `ArriveLate` | `Expire` |
| `PUT /assessor/.../scores` | `PutScores` | `ListForMarks`, `WriteMarks` |
| `POST /assessor/.../finalize` | `PostFinalize` | `Grade`, `RecordScores`, `PublishReport` |
| listings, cancellation | `Sweep`, `CancelBooking` | `Expire`, `CancelPaper` |

The write that moves the cursor (`Moved`) also appends what the trail gets in that write:
the missing-recording event and, where the question's own time was over and this request's
lock was the one that took, the `time_expired` event. A phase that was cut off by the clock
counts in `TurnPhase`.

A request that is refused changes nothing and is left out. The read of the assessment and
the read of its booking by one request are one step. That the assessor's `own` expires an
overdue paper before anything else is the work of a sweeper.

### ExamDevice

`row.session` and `row.ip` are the bound browser and its address; `Arrive` is the check on
the row read, `Bind` the conditional write that claims the paper and counts a move in the
trail, `Act` the route itself, and any number of instances may be between two of these. The
other routes matter for what they do to the binding when they seed the quiz state (`Seeded`)
and for whom they work. A request remembers (history) whether it was let through to a live
exam and how many moves the trail had by then. A client that sends no browser id is
`Nobody`. The exam's window is not part of this module.

### BlobTable

A call waits for the calls of its instance (`chain`), reads the object and its ETag,
decides (`Writes`, `Apply` of `TableRows`), sends a conditional PUT (`Land`), and answers or
starts over (`Acknowledge`, `Rejected`). A PUT that was sent lands at its own time: its
sender may have seen an error (`LoseResponse`) or be dead (`Crash`). The ETag is the number
of writes. A row is the set of calls that made it, which is all a lost update can be told
from. Not in this module: the read cache of the reference tables; detached columns have
a module of their own.

### TestBooking

A link is a row with its `form` (request id and details), `plan` (`provisioning_json`),
`cand` and `linked`. The candidate of a link, the account of an address (its id is derived
from the address) and the exam of a link are each the row with that deterministic id.
`req[i]` is the booking request or person deletion of instance `i`, one at a time because
both hold `users:create`; `del[i]` is its exam deletion, which holds the exam's lock only.
`SubmitForm`, `RepairLink`, `CancelLink`, `PurgePerson` and `DeleteExam` are arrivals, the
rest are storage calls. `Continue` is what becomes of a row that `provisionBooking` returns:
one with its account and exam is answered as booked, whatever its status is by then. `Fail` ends a request between any two of them. `ExamCloses` stands
for everything that ends an exam elsewhere (the hand-in and the expiry of `ExamHall`).
Left out: form validation, the password check of a replay (it can only refuse), the
assessor and stage of the candidate, response rows and sessions among what a deletion
removes (they hang on the exam and the account), staff deletions and the preview token.

### ExamPage

`page` is what the tab shows and is doing (question, phase, recorder, the lock in flight,
the countdown), `draft` the autosave, `net` the request of each purpose, `paper` the server
reduced to what the page asks of it. `Handle` is a promise's continuation, `Tick` the
timer, `Edit`, `Record`, `PressStop`, `Press`, `TryAgain` the candidate, `RequestFails` a
network that loses a request or its answer, `StopFails` a recorder, `Reload` the tab.
`seen`, `owed`, `lost` are history: what was on screen, what was acknowledged or recorded
when a lock was first sent, and the locks that took less. `Trouble` selects which failures
an instance has: two of them break the page in known ways (section 3) and are left out of
the run.

### ScoringScreen

The page (`form`), its queue (`saves`), the request it waits for (`call`), and the server's
inbox, marks and report. A request that the page gives up after its time-out stays in the
inbox. `InOrder` says that the server serves the requests of a paper as they came, which
one process does (`withLock` is FIFO) and several do not.

### Allocation, Onboarding

`Allocation`: one candidate and one track; `desk[d]` is a request under way, `exams` the
papers. Both ways of allocating (`AllocateByHand`; `ArriveAutomatic`, `AllocateAutomatic`)
share the steps from `CheckOpen` to `AdvanceToAssessment`; `ReassignPaper`,
`MoveCandidate`, `ListBatch` and `StartScoring` begin the four requests that decide who
scores. That an allocation makes its track the target of a candidate without one is left
out: with one track nothing depends on it. `Onboarding`: a sheet is imported by pages, each
in three writes (`WriteCandidates`, `WriteUsers`, `WritePapers`), while candidates, logins
and papers are added by hand. A
login is a base and a number, because that is what the code's search for a free one tells
apart.

### Accounts

`user` has a generation, and a session is good while it carries it. A request reads the
account (`ReadAccount`), does what it does outside the row (`CapSessions`, `UseCode`,
`MoveSession`), and changes the row under the condition the code states (`Commit`). The
history variables remember which codes and links have been accepted and which sessions
should be dead. Random values are drawn from a counter. `MaxSessions` is the code's own
cap, 10 there and 2 in the run.

### Retention

One paper: its status and marker, its answers (content, reference to a recording, notes),
its recordings. `TakePaper` is the second look under the lock, `WriteAnswers`,
`RemoveClips`, `MarkPaper` the three writes; a deletion by hand is `FindClip`,
`LookAtAnswer`, `RemoveClip`, `StripAnswer`. Either may stop anywhere (`StopJob`). A day is
the model's unit of time.

### PaperDrawing

No concurrency: a nondeterministic draw, step by step, over every bank, weighting and limit
the constants list. A question is known by its kind only (of a capped paper: pinned, pinned and
spoken, spoken, open, choice; of a module paper: a prompt or a further row with the same
prompt, with or without choices, optional), so a pool is a count and a draw is a
distribution (`Reservations`). The pinned questions take their seats first and those of the
spoken set count towards its cap (`MoreSpoken`); where pins outnumber the seats, a pinned
spoken question that found none may come in with the rest of the set. `Allocatable` is what
is left of a module bank for an allocation: each prompt once, no optional rows. `Share` and `Apportioned`
are the largest-remainder shares in exact fractions, `SeatEach` the seat that every
competency gets first, `DrawModules` the module paper, `Arrange` the spreading of open
questions.

### QuestionBank, Tracks

`QuestionBank`: `added` are authored questions, known by prompt; `removals` the overrides
that hide a published one. An import reads and judges before it takes the lock, a save
judges under it; `twinned` remembers the imports that were overtaken. `Tracks`: everything
of one track keyed to its row; `Install`, `Sync` and the addition by hand insert a row, its
framework, competencies and questions call by call, and `Undo` takes them back in the
code's order when one fails. A deletion goes the same way and is not undone.

### ShardMove, DetachedColumns, FileStore

`ShardMove`: a row is the time of its last write. `old` is the whole-table object of the
earlier version, `shard` the new one; every call reads both, folds (`Fold`), drops what it
has folded by id (`Drop`; `ids` are the ids in the old object) and reads again before its
conditional write. An instance of the earlier version writes on (`OldWrite`, `OldRemove`), at
any time and not only in the seconds the code expects. `overtaken` remembers its writes into
a copy that was about to be dropped. `drained` is the
instance's memory that the old object was empty. `DetachedColumns`: a row holds a marker
naming the revision of its column, `objects` the revisions stored. `FileStore`: `memory[p]`
and `seen[p]` are what a process believes, `file` what there is; what a process does without
yielding between two awaits of its own is `phase`. Each module's map entries name the calls.

## 3. What the runs check

Each property of a passing run has one mutant or more: a faulty form of one definition, as a
plausible bug would make it (`Faulty...` operators in the modules), under which TLC finds
the property violated in the same instance. That is also the evidence that the bounds are
large enough for the case to happen.

| Run | Instance | Shows |
|---|---|---|
| `sitting` (`Hall_sitting.cfg`) | 2 function instances, 2 questions (spoken, automatic), 2 answers, 1 beacon, time may run out on the first question; 1.0 million states | `PassedQuestionsLocked`; `TrailIsExact`: no beacon lost, every missing recording counted once, every `time_expired` counted once unless the request that had it lost its turn (below); `ImplementsAnswerSheet`, the refinement of the abstract sheet |
| `booked_exam` (`Hall_booked.cfg`) | 1 process, 1 listing screen, a booked exam from entry to report, time may run out on the second question, fair; 0.3 million | `ReportMatchesPaper`, `AnswersAreSealed` (deadline, hand-in and report freeze them); `OverdueIsClosed` (liveness) |
| `exam_page` (`Page.cfg`) | a spoken and a choice question, 1 edit each, 2 recordings, 1 fault, a recorder that may fail; fair | `NeverSkipped`, `LockKeepsWork`; `HandedIn` (liveness) |
| `blob_table` (`Blob.cfg`) | 2 instances, 5 calls on 2 rows, 2 attempts, failures, fair; 0.1 million | `NoAcknowledgedWriteLost`, `ImplementsAtomicTable` (refinement), `EveryCallAnswered` (liveness) |
| `server` (`Server.cfg`) | shards: 2 callers and the earlier version, 1 row, a removal that may fail; columns: 3 workers, 2 revisions; file: 2 processes, 2 rows, 3 revisions; accounts: 2 requests on 2 instances, 2 sessions, 3 random values; 2.2 million | `NoAnswerLost`, `ReadsAreWhole`, `TurnsLoseNothing`, `SecretsWorkOnce`, `RevokedStaysDead`, `SecondFactorHolds` |
| `services` (`Services.cfg`) | 2 browsers on 2 networks and 2 instances; one server for each of the others: 2 sweeps and a deletion under 8 policies; 2 requests about 1 candidate, 2 papers; 2 sheets in pages of 2; 3 competencies with pinned spoken and doubled questions, limits 0, 2, 3, 5, 6, four weightings; 3 prompts, 3 files, 2 authors; 2 helpers at one track; 2 open questions, 4 edits, 2 troubles; 1.2 million | `DisplacedWorkShows`, `CleanedIsClean`, `OneOpenPaper`, `ScorerIsKept`, `NobodyTwice`, `SeatsAreFilled`, `WeightsDecide`, `OpenSpread`, `PlanKeepsItsWord`, `TwinsOnlyByImport`, `RestoredIsShown`, `OneTrackPerKey`, `AllOrNothing`, `SavedMeansStored`, `ReportIsConfirmed` |
| `bookings` (`Bookings.cfg`) | 2 instances, 2 links, 3 forms (two for one address, two for one link), retries that meet a cancellation, no person deletion; 1.2 million | `OneBookingPerEmail`, `SetUpIsComplete`, `ReceiptsAreTrue`, `SettledRowsStand` |
| `people` (`People.cfg`) | 1 process, everything, fair; 0.1 million | `NoOrphans`, `NotStranded`; `SlotIsSetUp` (liveness) |

**Why these bounds.** Two instances (or two requests) are every pairwise race; the third
actor of a hazard is always a later request of one of the two. Where a third must be under
way at once it is there: the columns have a writer, a remover and a reader. Two questions,
one with a recording, give a cursor that moves within the paper and off its end. One beacon
is enough to lose. In the blob table two attempts suffice to lose a race and to give up (the
code has 10; the proofs cover every number). Two links with a shared address, and two forms
of one link, are the two conflicts a claim decides. Three competencies are the fewest at
which a remainder can go to the wrong one. Two entries of the trail let a browser take the
exam over and the other take it back while a request of either is between its check and its
work. Three stamps are a row, a write of the new version and one of the earlier version in
between.

Named bounds: `MaxBeacons`, `MaxEvents`, `MaxAttempts`, `MaxDay`, `MaxPapers`, `PageSize`,
`MaxCandidates`, `MaxIds`, `MaxTracks`, `MaxEdits`, `MaxTroubles`, `MaxStamp`,
`MaxRevision`, `MaxDrawn`, `MaxIssued`, `MaxCounter`, `MaxNotes`, `MaxClips`, `MaxFaults`,
`Timed`, and `Ops`, the set of requests an instance of the model sends. Symmetry exchanges the two
actors of each component; the liveness runs use none. `CHECK_DEADLOCK FALSE` is set where
the system does stop: a closed paper, a drawn one, a blob whose calls are all over, links
that are all cancelled, bounds that are used up.

**Fairness.** `ExamHall`: a request that was admitted goes on, time passes, and listing
screens are opened again and again; that last one is an assumption about people, and the
code has nothing else that closes a paper nobody returns to. A listing may die, but not every
one before its write (strong fairness of its steps). `ExamPage`: the network answers in the
end and the browser's timers fire; of the candidate it is assumed only that they press "Try
submitting again" when the page asks for it. `BlobTable`: an instance runs its calls
and a PUT that was sent lands or is dropped. `TestBooking`: requests run on, the admin's list
comes round to every link, a waiter gets the lock in turn (promise chains are FIFO), and
storage calls stop failing at some time. The other modules claim no liveness.

**What the one-server runs leave out.** `src/api/mutex.mjs` 11-14 concedes that its locks
order one process only. Where a property holds on one server and not on several, the run
has one server and the last part of this section says what happens on two.

### Where the code does not do what it says

Four runs expect a violation; each quotes a sentence of the repository in `PROJECT.json`.

| Run | Sentence | What happens |
|---|---|---|
| `found_cancelled_submitted` (`CancellationWins`) | cancellation wins over the timer | the hand-in's last write is unconditional (`candidate.mjs` 920): it turns a paper that a listing closed as cancelled into a submitted one, on one server |
| `found_expiry_marker` (`ExpiryMarkerKept`) | an expired attempt carries an expiry marker in its quiz state | opening a booked exam that expired unopened replaces the quiz state |
| `found_sheet_note_lost` (`ClearedIsExplained`) | deleting a recording keeps the earlier note that the answer was cleared | the note is rebuilt without it (`core/retention.mjs` 236) |
| `found_competency_left_out` (`EveryCompetencyKept`) | every competency that has questions keeps at least one whenever the cap allows | the pinned and spoken questions are reserved first and may take the seats |

Seen while modelling, without a run of their own.

*One process suffices:*

- A listing submits a paper at its deadline between the check and the removal of
  `DELETE /admin/assessments/:id`, which keeps submitted papers: it is deleted all the same.
- A batch assignment writes papers it listed before and gives a paper scored since then
  another assessor (`people.mjs` 433-435); `ScorerIsKept` exempts what a batch has listed.
- A candidate imported while a paper is allocated by hand may get a second one, because the
  two take different locks (`assessment-service.mjs` 18-21).
- A row without an email is compared by name with the directory and with the earlier rows
  that have no email either (`candidate-import.mjs` 303-304). After a row with an email and
  the same name it is taken when both are in one page, and is a duplicate when the page ends
  between them, although "an in-file duplicate is judged the same way on every page"
  (`people.mjs` 129-130). `NobodyTwice` exempts two such rows of one page.
- An import into a question bank looks for duplicates before it takes the lock
  (`question-bank.mjs` 143-151); `TwinsOnlyByImport` exempts those.
- A sync of a catalogue takes no lock and doubles what another sync or an installation is
  adding.
- `POST /admin/roles` that stops after the row leaves a track without a framework; a
  deletion that stops leaves part of a track; a removal sent twice may hit a reused id.
- A plan is called ready although a competency of it is switched off; a paper may have
  fewer questions than both the cap and the pool allow, when the cap on the spoken set keeps
  some out (`question-selection.mjs` 11).
- A beacon, phase change or advance sent to a paper nobody has opened seeds its quiz state.
- A `/next` that locks an overdue answer and dies, or is overtaken, before it moves the
  cursor takes the `time_expired` event with it: the request that moves the cursor next finds
  the answer locked and adds none (`candidate.mjs` 785-796, 818-821). No document promises
  the event; `TimeoutsCounted` exempts it (`overran` is "lost").
- A comment says that changing a candidate's assessor moves every paper, "submitted or already
  scored" too (`people.mjs` 413-415). The code it stands over calls `setCandidateAssessor`,
  which moves open papers only and says so: "reports keep the assessor who actually scored
  them" (`shared.mjs` 80-86). `ScorerIsKept` states what the code and the second comment say.
- With more pinned questions than seats, a pinned spoken question that is not among the first
  comes in through the spoken set, and the loop that trims the reservation spares it because
  it is pinned (`question-selection.mjs` 297-310): the paper exceeds its cap, although "the
  cap ... wins over the pins" (288-296). `SeatsAreFilled` bounds a paper by its cap when the
  pins fit.
- The plan counts the rows of a bank as they are (`question-bank.mjs` 91-97) and an
  allocation draws from it with each prompt once (`module-assessment.mjs` 11), although "the
  plan must count with the SAME rule selection uses" (`test-generation.mjs` 303-304): with
  doubled prompts a plan is called ready and the paper is refused. The row that is kept is the
  first, even when it was switched off, so an active twin behind it is never drawn.
  `PlanKeepsItsWord` exempts banks with doubled prompts.
- A form that is sent again, or a repair, whose slot was set up and cancelled while it waited
  is answered as booked (`bookings.mjs` 286-288). `ReceiptsAreTrue` says that the receipt is
  of the form that booked the link and that the slot was set up.
- In the browser: a recorder may outlive its screen (`candidate.js` 310-312); the hall stays
  on a locked question when the fetch after the lock fails (`candidate.js` 632-634), or
  when a recorder fails as the clock runs out. `Trouble` leaves the first two out of the run
  and `HandedIn` exempts the third.
- The listing of a sharded table may be partial while a shard is being written.

*With two instances or processes:*

- The hand-in's unconditional write may reopen a scored paper.
- A write of the previous version into a copy that an instance of the new one has read and
  not yet dropped is dropped unread, because the drop is by id (`row-tables.mjs` 276, 289),
  although the fold is repeated on every read for the sake of such writes (269-271).
  `NoAnswerLost` exempts these rows (`overtaken`).
- A request of a browser does its work although the exam was taken over after its check
  (`candidate.mjs` 96-98); `DisplacedWorkShows` says that the move is in the trail.
- A set-up still running for a cancelled link takes the account id of an address that
  another link has booked since.
- Two opening requests may both read an unbound paper and bind it one after the other.
- A deletion of a recording writes back what a sweep has just cleared.
- A save of a mark that was given up arrives late and overwrites a newer one:
  `SavedMeansStored` fails with `InOrder = FALSE`.
- Two processes that replace the JSON file at once lose an update; `TurnsLoseNothing` is
  about those that do not.

## 4. What is proved

The theorems hold for every number of instances, requests, questions, rows, attempts, links
and so on; the assumptions are those named `...Assumption` in the modules and nothing else,
unless said. Most properties are not inductive, and each proof rests on an invariant that
says what a request in the middle of its steps may still believe. Where a theorem assumes one
server (`OneServer`, `OneRequest`, `OneProcess`, `OneOffice`), it assumes what its run has,
and for the same reason: the code's locks order one process only.

- **Exam hall** (`ExamHallProofs`). `Inductive` proves `IInv`. That a passed question is
  locked depends on what a `/next` between its two writes still believes. `IInv` therefore
  says of a request that is about to lock or to move that the question it carries is not
  ahead of the cursor, of one about to move that its row is locked and its note about the
  recording is that of the locked answer (`RequestInv`); that an unseeded quiz state has
  lost nothing because it holds nothing (`RowInv`); and which clocks can have been started
  (`ClocksInv`). From it follow `TypeCorrect`, `WalkLocks`, `ClocksOnce`, `WindowOnce`,
  `TrailExact` and `HandInsAreFull`; `SheetImplemented` is the refinement: each step is a
  sealing, an advance or a stutter of the abstract sheet. On one server, with any number of
  listing screens, `ReportTrue` and `SealHolds`: a listing writes the row only, so what a
  finalize has listed is what is stored until it publishes (`ReportInv`); and a draft or lock
  in flight has read a paper that nobody has started since and, while the window is open,
  nobody has closed (`SealInv`), which is why its own check of the deadline is enough.
- **Blob table** (`BlobTableProofs`). `Inductive` proves `IInv`, assuming a store that yields
  ETags (`Versioned = TRUE`): one call of an instance works at a time, a PUT carries the rows
  that were stored at its ETag, so if it lands nothing lies between, and what has landed
  stays unless a removal took it. `WritesKept`, `OneClaim`, `ConflictsAreReal` and
  `TableImplemented` (the refinement of the atomic table) follow.
- **Device binding** (`BrowserProofs`). `DeviceTypes`, `BindingKept` and `MovesLogged` for
  all instances, and `DisplacedIsSeen` for all instances too: while a request that was let
  through to a live exam has its work to do, the exam stays open to moves that are logged only
  (`Logs`), so either its browser still holds it or the trail has grown since. `ChoiceMoves`
  assumes a single instance.
- **Exam page** (`BrowserProofs`). `NothingSkipped`, for every kind of `Trouble`: what the
  page shows, and what it has asked to lock, was shown (`ShownInv`). `WorkIsKept` assumes that
  the review does not run out while "Start answering" is under way (`"hurry" \notin Trouble`),
  the case in which the page does lose work (TLC finds the violation when it is let in).
  `WorkInv` follows the candidate's work wherever it is: typed, in the draft that waits, in
  the draft under way, in the lock, acknowledged (`Ordered`, `Notes`, `Clips`), and each of
  these is no older than the next; once the question is locked nothing needs saying of it.
- **Bookings** (`TestBookingProofs`). `Inductive` proves `Inv`: types, what a running request
  knows of its link and form (`Working`), what a row may hold in each status (`RowsSound`),
  and `OneBookingPerEmail`. The argument goes through one lemma, `RowSteps`: a step changes at
  most one booking row, and in one of a handful of ways. `AddressesBookedOnce`, `PlansEnd`
  and `RowsStand` follow. As long as nobody deletes the person, on any number of instances,
  what a set-up has reached stays reached whoever else repairs or cancels the link
  (`SetUpInv`; `Grows` is what no step takes back): `SetUpMeansComplete`, `ReceiptsStand`. On
  one server, deletions included, an address carries the account of its link or none
  (`KeepsAddress`), and a deletion removes in an order in which nothing is left that points
  at what is gone (`Removes`): `NobodyStranded`, `NothingOrphaned`.
- **Shards and columns** (`StorageProofs`). `MoveLosesNoAnswer`: what was seen in the old
  object is there still, or was overtaken, removed or written over in the shard
  (`SeenWasOld`), what is about to be dropped has been folded in (`FoldedBeforeDrop`), an ETag that still holds means that the rows read with it
  do (`FreshIsCurrent`), and no stamp is in the future, so a write wins over every old copy. The previous version writes at any time
  in this theorem; only the rows it overtakes a drop with are exempt.
  `ReadersGetThePaper`: until a removal has begun, whoever is about to write a marker, or has
  read one, has its object stored (`JobSound`); the invariant says nothing once a removal
  has begun, and neither does the property.
- **JSON file** (`StorageProofs`). `TurnsAreSafe`: as long as no process has replaced the
  file within another's mutation, what a process holds in hand is what the file has, and
  what it serves at the file's revision is the file.
- **Accounts** (`AccountsProofs`). `CodesWorkOnce`, `DeadSessionsStayDead` and
  `EverySessionGaveItsFactor`. A generation is never used twice (`FreshValue`), and a drawn
  one is known to its own session only until it is written (`Fresh`). A request's beliefs
  about the account are true as long as the generation it read stands (`Held`), and the
  conditional write checks just that, so nothing need be known of one that fails.
- **Allocation** (`PapersProofs`), on one instance. `PapersOpenOnce`: who has found no
  open paper holds the only lock under which one is inserted. `ScorersKept`: who holds a
  paper holds an open one, there is one open paper, so its holder is alone with it; and who
  scores it is the assessor it had when it was taken, unless a batch has listed it.
- **Onboarding** (`PapersProofs`), on one instance. `NobodyComesTwice`: the verdict on a sheet
  is a recursive function of its rows, so that the accepted ones have logins of their own and
  stand apart from the directory and from each other (`VerdictSound`) holds of every beginning
  of the sheet, by the least counterexample; that a login is found at all is the pigeonhole
  principle (`DerivedIsFree`). What was judged stays true until it is written because nothing
  else is imported and no login made under the lock (`OfficeSound`, `AloneInOffice`).
- **Scoring page** (`PapersProofs`), with requests served in order. `SavedIsInTheTable`: the
  last save of a question in the queue has the mark of the form, and a question without one,
  unless its save failed, is stored and nothing in the inbox can change it (`LineIsCurrent`).
  `ReportsAreConfirmed`: a request for the report is sent when everything is saved and served
  before anything that is sent after it (`InboxSound`).
- **Retention** (`PapersProofs`), on one process. `MarkedIsClean`: a sweep that has written
  the answers has written what the policy it carries asks for, one that has come to the mark
  has removed the rows of the recordings, an answer or recording is only ever lost, and who
  holds the paper is alone with it (`RetentionInv`).
- **Question banks** (`ContentProofs`). `NoTwins`: a request that has judged its prompts new
  holds the lock of the bank until it has inserted them (`BankSound`, `AloneInBank`), and the
  accepted rows of a file have no repetition (`Distinct`). `RestoringShows`: once a
  restoration has begun and nobody has hidden the question since, it takes out every row that
  hides it (`ShownInv`).
- **Tracks** (`ContentProofs`). `OneTrack`: who is about to insert a row holds the lock of
  the key and has seen that there is none. `InstallsWhole`: an installation that will answer
  "done" has found or added every part up to the step it has reached (`Found`), nobody is
  deleting that track, and one that failed takes back everything it added (`LeftOf`); a track
  that others have met meanwhile is exempt, in the property as in the code.
- **Drawing a paper** (`ContentProofs`). These are facts about sums, shares by largest
  remainder and sequences, over any number of competencies; what a proof would take by
  induction it takes by the least counterexample (`LeastNatural`, from the well-foundedness of
  `<`). Over the common denominator of a pass (`ShareFacts`) the whole seats are never more
  than the seats to share (`WholeSeatsFit`), and the seats left over go to the first so many of
  a strict order (`Ranks`). `DrawInv` adds up seats and questions over the passes (`Sharing`,
  `Filled`) and keeps a heavier competency ahead (`Heavier`): `SeatsFilled`, `WeightsRule`. How many questions
  may be spoken is settled by the reservation alone (`Fits`, `Reserved`, `Unreserved`).
  `PlanIsKept` compares the plan's verdict with the draw's; between the two a competency may
  have been switched off or a doubled prompt dropped. `Spread`: the gaps between the questions of the smaller group
  take in the whole of the larger one (`GapsFill`), and the places behind them say where each
  gap begins (`Places`, `DealtFacts`).

Only model-checked: the liveness properties (`OverdueIsClosed`, `HandedIn`,
`EveryCallAnswered`, `SlotIsSetUp`), because fairness and `ENABLED` are out of the prover's
reach. Every other property of a passing run is the statement of a theorem. No module uses a
recursive operator; recursive functions are unfolded in the proofs, after showing that they
exist.

A few definitions are no property of any run because a deeper one covers them, and are kept
for their theorem: `ClockStartedOnce`, `WindowOpenedOnce`, `SubmitFindsEveryRow`,
`ClaimedOnce`, `ConflictMeansContention`, `PlanOnlyWhileBooked`, `BindingIsKept`,
`MovesAreLogged`, `MovesOnlyByChoice`.

## 5. Not modelled

- *Question banks and other content* (`src/content`), *scripts*: data, about a third of the
  implementation's lines.
- *Screens* other than the exam hall and the scoring page: they show what a route returned
  and send what a form holds; what they depend on is modelled at the routes.
- *Parsing of spreadsheets, the quality report, validation of forms, the
  arithmetic of scores and one-time codes, projections of rows for a role*: functions of
  their input, without a state to interleave; the repository's tests cover them.
- *Competency and framework edits, settings, listings, dashboards*: one row at a time, last
  writer wins, no invariant across rows that the code claims.
- *Airtable*: a client of a hosted service without conditional writes; nothing beyond last
  writer wins can be stated of it.
- *Gate, rate limits, the login throttle*: bounds on load, per process and in memory.
- *Audit rotation*: a table that exceeds 2000 rows loses its 500 oldest; the number is the
  whole of it.
- *Transports and routing*: actions start where a handler does.
- Within modelled components: recording upload and playback, tables of one object per row
  (their calls are those of a shard of one row), the read cache of reference tables, the
  preview sign-in, staff deletions, blueprints with quotas of their own. `PROJECT.json`
  says so per component.
