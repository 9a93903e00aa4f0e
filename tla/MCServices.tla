----------------------------- MODULE MCServices -----------------------------
(* Services that share no state: a behaviour picks one of them and the others *)
(* stay where they are.                                                       *)
EXTENDS ExamDevice, MCRetention, Allocation, Onboarding, MCPaperDrawing, QuestionBank, Tracks,
        ScoringScreen, TLC

VARIABLE service

CONSTANTS p0, p1, p2

MCServerOfDesk == [d \in Desks |-> "server"]
MCServerOfOffice == [o \in Offices |-> "server"]

Row(email, name, base, login, valid) ==
  [email |-> email, name |-> name, base |-> base, login |-> login, valid |-> valid]

\* Three rows that derive one login, one of them known by its name only; a login that is
\* asked for after it was derived, and a row that is rejected.
MCSheets == {
  << Row("ann@a", "Ann", "ann", NoLogin, TRUE), Row(NoEmail, "Ann", "ann", NoLogin, TRUE),
     Row("ann@b", "An", "ann", NoLogin, TRUE) >>,
  << Row(NoEmail, "Ann", "ann", NoLogin, TRUE), Row("cy@a", "Cy", "cy", NoLogin, FALSE),
     Row("bob@a", "Bob", "bob", <<"ann", 1>>, TRUE) >> }

\* A file of new prompts, one with a row twice, one with the published question.
MCFiles == { <<p1, p2>>, <<p1, p1>>, <<p0, p2>> }

\* Requests are interchangeable.  A behaviour moves one service only: swapping all pairs
\* at once is enough.
Pairs == {Instances, Desks, Offices, Authors, Helpers}
Other(x) == CHOOSE y \in UNION Pairs : y # x /\ \E P \in Pairs : {x, y} \subseteq P
MCServiceSymmetry ==
  {[x \in UNION Pairs |-> IF swapped THEN Other(x) ELSE x] : swapped \in BOOLEAN}

DrawingRests ==
  /\ bank = CHOOSE b \in Supplies : TRUE
  /\ weight = None /\ limit = 0 /\ stage = "modules"
  /\ pins = None /\ orals = None /\ quota = None /\ left = 0
  /\ mix = [open |-> 0, other |-> 0] /\ order = << >>

deviceAndRetention == <<vars, retentionVars>>
people == <<allocationVars, onboardingVars>>
content == <<drawingVars, bankVars, tracksVars, scoringVars>>

ServicesInit ==
  /\ service \in {"device", "retention", "allocation", "onboarding", "drawing", "bank", "tracks", "scoring"}
  /\ Init /\ RetentionInit /\ AllocationInit /\ OnboardingInit /\ BankInit /\ TracksInit /\ ScoringInit
  /\ service # "retention" => clip = {} /\ policy = CHOOSE p \in Policies : TRUE
  /\ service # "onboarding" => sheet = CHOOSE s \in Sheets : TRUE
  /\ IF service = "drawing" THEN DrawingInit ELSE DrawingRests

ServicesNext ==
  /\ UNCHANGED service
  /\ \/ service = "device" /\ Next /\ UNCHANGED <<retentionVars, people, content>>
     \/ service = "retention" /\ RetentionNext /\ UNCHANGED <<vars, people, content>>
     \/ service = "allocation" /\ AllocationNext /\ UNCHANGED <<deviceAndRetention, onboardingVars, content>>
     \/ service = "onboarding" /\ OnboardingNext /\ UNCHANGED <<deviceAndRetention, allocationVars, content>>
     \/ /\ service = "drawing" /\ DrawingNext
        /\ UNCHANGED <<deviceAndRetention, people, bankVars, tracksVars, scoringVars>>
     \/ /\ service = "bank" /\ BankNext
        /\ UNCHANGED <<deviceAndRetention, people, drawingVars, tracksVars, scoringVars>>
     \/ /\ service = "tracks" /\ TracksNext
        /\ UNCHANGED <<deviceAndRetention, people, drawingVars, bankVars, scoringVars>>
     \/ /\ service = "scoring" /\ ScoringNext
        /\ UNCHANGED <<deviceAndRetention, people, drawingVars, bankVars, tracksVars>>

ServicesSpec == ServicesInit /\ [][ServicesNext]_<<service, deviceAndRetention, people, content>>
=============================================================================
