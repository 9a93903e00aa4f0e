\* Two function instances serve one two-question paper; the sitting only.
SPECIFICATION Spec
CONSTANTS
  Instances = {i1, i2}
  Sweepers = {}
  N = 2
  Kind <- OpenThenAuto
  Answers = {spoken, typed}
  Silent = {typed}
  Blank = blank
  Nothing = nothing
  Scheduled = FALSE
  Ops = {"get", "draft", "beacon", "phase", "next"}
  Timed = {0}
  MaxBeacons = 1
SYMMETRY Interchangeable
INVARIANTS PassedQuestionsLocked TrailIsExact
PROPERTY ImplementsAnswerSheet
