----------------------------- MODULE PaperDrawing -----------------------------
(***************************************************************************)
(* How a paper is drawn from a track's bank (core/question-selection.mjs,  *)
(* core/test-generation.mjs, core/paper-order.mjs, and the two services    *)
(* that call them, api/assessment-service.mjs and                          *)
(* api/module-assessment.mjs).                                             *)
(*                                                                         *)
(* A capped paper gives its seats to the competencies by weight and draws  *)
(* the questions of each at random; a module paper takes a fixed number    *)
(* from every module or is refused.  Both then spread the open questions   *)
(* among the others.                                                       *)
(*                                                                         *)
(* Questions of one kind in one competency or module are told apart by     *)
(* nothing here: a bank, and a draw from it, is how many there are of each *)
(* kind.  Of a capped paper these are the pinned questions outside the     *)
(* spoken set (pin) and in it (lead), the others of that set (oral), and   *)
(* the rest; of a module paper, the prompts (choice, open) and the further *)
(* rows with the prompt of an earlier one (sameChoice, sameOpen).  Shares  *)
(* are exact fractions where the code divides floating-point numbers.      *)
(***************************************************************************)
EXTENDS Naturals, Sequences, FiniteSets, Functions

CONSTANTS
  Comps,             \* competencies, or modules: 1..n in configured order
  Banks,             \* banks a capped paper may be drawn from
  Weights,           \* weights the competencies may have
  Limits,            \* caps an administrator may ask for; 0 is the whole bank
  OralCap,           \* RSA_ORAL_IN_CAP
  Supplies,          \* banks a module paper may be drawn from
  Technical,         \* the technical modules
  TechnicalObjective, TechnicalOpen, NonTechnicalOpen  \* MODULE_TEST_STRUCTURE

ASSUME DrawingAssumption ==
  /\ Comps = 1..Cardinality(Comps) /\ IsFiniteSet(Comps)
  /\ Banks \subseteq [Comps -> [pin : Nat, lead : Nat, oral : Nat, choice : Nat, open : Nat]]
  /\ Weights \subseteq [Comps -> Nat]
  /\ Limits \subseteq Nat /\ OralCap \in Nat
  /\ Supplies \subseteq [Comps -> [choice : Nat, sameChoice : Nat, bare : Nat, open : Nat, sameOpen : Nat,
                                   spareChoice : Nat, spareOpen : Nat, live : BOOLEAN]]
  /\ Technical \subseteq Comps
  /\ TechnicalObjective \in Nat /\ TechnicalOpen \in Nat /\ NonTechnicalOpen \in Nat

VARIABLES
  bank,    \* the bank (of a capped paper) or supply (of a module paper)
  weight,  \* the weights of the competencies
  limit,   \* the cap asked for
  stage,   \* how far the paper is
  pins,    \* pins[c]: pinned questions reserved from c
  orals,   \* orals[c]: other questions of the spoken set reserved from c
  quota,   \* quota[c]: seats of c among the rest
  left,    \* seats not given yet
  mix,     \* how many open and other questions are to be arranged
  order    \* the paper behind the pinned questions: TRUE where a question is open

drawingVars == <<bank, weight, limit, stage, pins, orals, quota, left, mix, order>>

None == [c \in Comps |-> 0]
Lesser(a, b) == IF a < b THEN a ELSE b

\* What may be taken of what there is of each competency.
Parts(most) ==
  LET counts == {n \in 0..SumFunction(most) : \E c \in Comps : n <= most[c]} IN
  {f \in [Comps -> counts] : \A c \in Comps : f[c] <= most[c]}

\* A distribution of n things over the competencies that takes at most most[c] from c.
Reservations(most, n) == {f \in Parts(most) : SumFunction(f) = n}

----------------------------------------------------------------------------
(* A capped paper (selectQuestions) *)

Pins == [c \in Comps |-> bank[c].pin + bank[c].lead]
Leads == [c \in Comps |-> bank[c].lead]
Orals == [c \in Comps |-> bank[c].oral]
Plain == [c \in Comps |-> bank[c].choice + bank[c].open]
Pool == SumFunction(Pins) + SumFunction(Orals) + SumFunction(Plain)

\* A cap of none, or not below the bank, serves the whole bank.
FullBank == limit = 0 \/ limit >= Pool
Seats == IF FullBank THEN Pool ELSE limit

DrawingInit ==
  /\ \/ stage = "reserve" /\ bank \in Banks /\ weight \in Weights /\ limit \in Limits
     \/ stage = "modules" /\ bank \in Supplies /\ weight = None /\ limit \in {0}
  /\ pins = None /\ orals = None /\ quota = None /\ left = 0
  /\ mix = [open |-> 0, other |-> 0] /\ order = << >>

\* What the cap on the spoken set and the seats leave of it.
MostSpoken == Lesser(Lesser(OralCap, Seats), SumFunction(Leads) + SumFunction(Orals))

\* Faulty variant of MoreSpoken: the pinned questions of the set do not count.
FaultyMoreSpoken(k) == MostSpoken

\* How many more of the spoken set are taken when k of it are pinned and seated.
MoreSpoken(k) == MostSpoken - Lesser(MostSpoken, k)

\* The pinned questions first, as far as they fit (k of them of the spoken set); then the
\* spoken set up to its cap, which may take pinned questions that did not fit (late).
\* What is too much goes, unless it is pinned.  Which pins come first is configuration,
\* which spoken questions is chance.
Reserve ==
  LET first == Lesser(Seats, SumFunction(Pins)) IN
  /\ stage = "reserve"
  /\ \E f \in Reservations(Pins, first), k \in Parts(Leads), late \in Parts(Leads) :
       LET more == MoreSpoken(SumFunction(k))
           room == Seats - Lesser(Seats, first + SumFunction(late))
       IN
       /\ \A c \in Comps : k[c] <= f[c] /\ f[c] - k[c] <= bank[c].pin /\ k[c] + late[c] <= bank[c].lead
       /\ SumFunction(late) <= more /\ more - SumFunction(late) <= SumFunction(Orals)
       /\ pins' = [c \in Comps |-> f[c] + late[c]]
       /\ orals' \in Reservations(Orals, Lesser(more - SumFunction(late), room))
       /\ left' = room - SumFunction(orals')
  /\ stage' = IF FullBank \/ left' >= SumFunction(Plain) THEN "all" ELSE "apportion"
  /\ UNCHANGED <<bank, weight, limit, quota, mix, order>>

\* pickWeighted: seats for everything that is left are no draw.
TakeAll ==
  /\ stage = "all"
  /\ quota' = Plain /\ left' = 0
  /\ stage' = "draw"
  /\ UNCHANGED <<bank, weight, limit, pins, orals, mix, order>>

Served == {c \in Comps : Plain[c] > 0}

\* Heavier first, then the larger bank, then configuration order.
Before(a, b) ==
  \/ weight[a] > weight[b]
  \/ weight[a] = weight[b] /\ Plain[a] > Plain[b]
  \/ weight[a] = weight[b] /\ Plain[a] = Plain[b] /\ a < b

\* apportion: one seat each while there are seats.
SeatEach ==
  LET first == {c \in Served : Cardinality({d \in Served : Before(d, c)}) < left} IN
  /\ stage = "apportion"
  /\ quota' = [c \in Comps |-> IF c \in first THEN 1 ELSE 0]
  /\ left' = left - Cardinality(first)
  /\ stage' = "share"
  /\ UNCHANGED <<bank, weight, limit, pins, orals, mix, order>>

Roomy(q) == {c \in Served : q[c] < Plain[c]}

\* Faulty variant: the passes end when a competency has no more questions.
FaultySettled == left = 0 \/ Roomy(quota) # Served

\* No seat or no question is left.
Settled == left = 0 \/ Roomy(quota) = {}

\* The exact share of c in `left` seats, as a numerator over one denominator.
TotalWeight == SumFunctionOnSet(weight, Roomy(quota))
Numerator(c) == left * (IF TotalWeight > 0 THEN weight[c] ELSE 1)
Denominator == IF TotalWeight > 0 THEN TotalWeight ELSE Cardinality(Roomy(quota))

\* Faulty variant: the seats of the largest fractions go by bank size alone.
FaultyLargerRest(a, b) == Plain[a] > Plain[b] \/ (Plain[a] = Plain[b] /\ a < b)

\* Whose fraction of a seat comes first.
LargerRest(a, b) ==
  LET ra == Numerator(a) % Denominator
      rb == Numerator(b) % Denominator
  IN ra > rb \/ (ra = rb /\ Before(a, b))

\* One pass: everybody the whole seats of the share, as far as there is room; the seats
\* that are over, one each, to the largest fractions.
Share ==
  LET floor(c) == Lesser(Numerator(c) \div Denominator, Plain[c] - quota[c])
      given == [c \in Comps |-> IF c \in Roomy(quota) THEN quota[c] + floor(c) ELSE quota[c]]
      over == left - (SumFunction(given) - SumFunction(quota))
      contenders == Roomy(given)
      lucky == {c \in contenders : Cardinality({d \in contenders : LargerRest(d, c)}) < over}
  IN
  /\ stage = "share" /\ ~Settled
  /\ quota' = [c \in Comps |-> IF c \in lucky THEN given[c] + 1 ELSE given[c]]
  /\ left' = over - Cardinality(lucky)
  /\ UNCHANGED <<bank, weight, limit, stage, pins, orals, mix, order>>

Apportioned ==
  /\ stage = "share" /\ Settled
  /\ stage' = "draw"
  /\ UNCHANGED <<bank, weight, limit, pins, orals, quota, left, mix, order>>

\* The questions of each competency are sampled: any mixture of its kinds.
Draw ==
  /\ stage = "draw"
  /\ \E open \in Parts([c \in Comps |-> Lesser(quota[c], bank[c].open)]) :
       /\ \A c \in Comps : quota[c] - open[c] <= bank[c].choice
       /\ mix' = [open |-> SumFunction(open) + SumFunction(orals),
                  other |-> SumFunction(quota) - SumFunction(open)]
  /\ stage' = "arrange"
  /\ UNCHANGED <<bank, weight, limit, pins, orals, quota, left, order>>

----------------------------------------------------------------------------
(* A module paper (generateTest, moduleSnapshot) *)

\* moduleQuota of a module without a quota of its own.
ObjectiveQuota(m) == IF m \in Technical THEN TechnicalObjective ELSE 0
OpenQuota(m) == IF m \in Technical THEN TechnicalOpen ELSE NonTechnicalOpen

\* Faulty variant of Objective: questions without options are drawn as well.
FaultyObjective(s) == s.choice + s.sameChoice + s.bare

\* What can take an objective seat: a question with something to choose between.
Objective(s) == s.choice + s.sameChoice
Open(s) == s.open + s.sameOpen

\* attachModuleBank: the bank of an allocation has a prompt once (a row with the prompt of
\* an earlier one goes, whether that one is active or not), and neither optional
\* questions nor those of a module whose competency is switched off.
Allocatable(s) ==
  [s EXCEPT !.sameChoice = 0, !.sameOpen = 0, !.spareChoice = 0, !.spareOpen = 0,
            !.choice = IF s.live THEN @ ELSE 0, !.bare = IF s.live THEN @ ELSE 0,
            !.open = IF s.live THEN @ ELSE 0]

\* draw: the primary questions, then optional ones for what is short.
Drawn(primary, spare, count) ==
  LET picked == Lesser(primary, count) IN picked + Lesser(spare, count - picked)

DrawnObjective(m, s) == Drawn(Objective(s), s.spareChoice, ObjectiveQuota(m))
DrawnOpen(m, s) == Drawn(Open(s), s.spareOpen, OpenQuota(m))

\* testPlan, which counts the primary rows of the bank it is shown.
Sufficient(m, s) == s.choice + s.sameChoice >= ObjectiveQuota(m) /\ Open(s) >= OpenQuota(m)
Ready(b) == \A m \in Comps : Sufficient(m, b[m])

\* generateTest in a preview warns of a module that stays short.
Warned(b) ==
  \E m \in Comps : DrawnObjective(m, b[m]) < ObjectiveQuota(m) \/ DrawnOpen(m, b[m]) < OpenQuota(m)

\* moduleSnapshot: a paper that is not exactly to the blueprint is no paper.
DrawModules ==
  LET b == [m \in Comps |-> Allocatable(bank[m])]
      objective == [m \in Comps |-> DrawnObjective(m, b[m])]
      open == [m \in Comps |-> DrawnOpen(m, b[m])]
  IN
  /\ stage = "modules"
  /\ stage' = IF Warned(b) THEN "refused" ELSE "arrange"
  /\ mix' = IF Warned(b) THEN mix ELSE [open |-> SumFunction(open), other |-> SumFunction(objective)]
  /\ quota' = IF Warned(b) THEN quota ELSE [m \in Comps |-> objective[m] + open[m]]
  /\ UNCHANGED <<bank, weight, limit, pins, orals, left, order>>

----------------------------------------------------------------------------
(* The order of the paper (interleave) *)

\* Faulty variant of Extra: any gap may be the larger one.
FaultyExtra(gaps, base, extra) == {S \in SUBSET (1..gaps) : Cardinality(S) = extra}

\* The gaps that get one more question: chance, but when the gaps would else stay empty
\* those inside come first.
Extra(gaps, base, extra) ==
  {S \in SUBSET (1..gaps) :
     /\ Cardinality(S) = extra
     /\ base = 0 => \/ S \subseteq 2..(gaps - 1)
                    \/ 2..(gaps - 1) \subseteq S}

\* The smaller group with the larger dealt into the gaps before, between and after it.
Dealt(few, many, fewIsOpen) ==
  LET gaps == few + 1
      base == many \div gaps
      size(S, g) == IF g \in S THEN base + 1 ELSE base
      upTo(S, g) == g - 1 + SumFunction([h \in 1..g |-> size(S, h)])
      ends(S) == {upTo(S, g) + 1 : g \in 1..few}
  IN {[k \in 1..(few + many) |-> (k \in ends(S)) = fewIsOpen] : S \in Extra(gaps, base, many % gaps)}

\* With nothing to spread the paper is only shuffled.
Arrange ==
  /\ stage = "arrange"
  /\ order' \in IF mix.open <= mix.other THEN Dealt(mix.open, mix.other, TRUE)
                ELSE Dealt(mix.other, mix.open, FALSE)
  /\ stage' = "done"
  /\ UNCHANGED <<bank, weight, limit, pins, orals, quota, left, mix>>

DrawingNext ==
  \/ Reserve \/ TakeAll \/ SeatEach \/ Share \/ Apportioned \/ Draw
  \/ DrawModules \/ Arrange

DrawingSpec == DrawingInit /\ [][DrawingNext]_drawingVars

----------------------------------------------------------------------------
(* Properties *)

IsModulePaper == bank \in Supplies
Size == SumFunction(pins) + SumFunction(orals) + SumFunction(quota)

\* A paper never has more questions than asked for, and fewer only when every question
\* is on it that the cap of the spoken set keeps not out; beyond the pinned ones that set
\* never passes its cap (question-selection.mjs:11, 279-286).  Where more questions are
\* pinned than there are seats, pinned ones of the spoken set that found no seat may still
\* come in with that set, beyond the limit.
SeatsAreFilled ==
  LET spoken == SumFunction(Leads) + SumFunction(orals) IN
  stage = "done" /\ ~IsModulePaper =>
    /\ SumFunction(Pins) <= Seats => Size <= Seats
    /\ SumFunction(orals) > 0 => spoken <= OralCap
    /\ Size < Seats => /\ quota = Plain /\ pins = Pins
                       /\ spoken >= Lesser(OralCap, SumFunction(Leads) + SumFunction(Orals))

\* Among the seats that are shared out every competency keeps one if there are enough,
\* and a heavier competency with questions to spare has no fewer than a lighter one
\* (question-selection.mjs:12-13, 61-113).
WeightsDecide ==
  stage = "draw" =>
    /\ Cardinality(Served) <= SumFunction(quota) => \A c \in Served : quota[c] > 0
    /\ \A a, b \in Comps : weight[a] > weight[b] /\ quota[a] < Plain[a] => quota[a] >= quota[b]

\* The smaller group never twice in a row, the larger in runs as short as can be, and
\* nothing dropped or doubled (paper-order.mjs:14-24).
OpenSpread ==
  LET fewer == Lesser(mix.open, mix.other)
      total == mix.open + mix.other
      longest == total \div (fewer + 1)
  IN stage = "done" =>
       /\ Len(order) = total /\ Cardinality({k \in 1..total : order[k]}) = mix.open
       /\ \A k \in 1..(total - 1) :
            order[k] = order[k + 1] => IF order[k] THEN mix.open > mix.other ELSE mix.other > mix.open
       /\ \A k \in 1..(total - longest) : \E j \in (k + 1)..(k + longest) : order[j] # order[k]

\* What the plan calls ready is issued in full and nothing else is, unless a competency
\* was switched off or rows with one prompt were counted apart; and a preview of a ready
\* plan has no warning (test-generation.mjs:281-329, module-assessment.mjs:9-44).
PlanKeepsItsWord ==
  stage # "modules" /\ IsModulePaper =>
    /\ stage # "refused" => Ready(bank)
    /\ Ready(bank) =>
         /\ ~Warned(bank)
         /\ stage = "refused" =>
              \E m \in Comps : ~bank[m].live \/ bank[m].sameChoice > 0 \/ bank[m].sameOpen > 0

\* Every competency that has questions keeps at least one whenever the cap allows
\* (question-selection.mjs:12-13).
EveryCompetencyKept ==
  LET asked == {c \in Comps : Pins[c] + Orals[c] + Plain[c] > 0} IN
  stage = "done" /\ ~IsModulePaper /\ Cardinality(asked) <= Seats =>
    \A c \in asked : pins[c] + orals[c] + quota[c] > 0

=============================================================================
