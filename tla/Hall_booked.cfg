\* One server process and a listing screen: a booked exam from the first entry to the report.
SPECIFICATION FairSpec
CONSTANTS
  Instances = {i1}
  Sweepers = {w1}
  N = 2
  Kind <- OpenThenAuto
  Answers = {spoken, typed}
  Silent = {typed}
  Blank = blank
  Nothing = nothing
  Scheduled = TRUE
  Ops = {"get", "draft", "phase", "next", "submit", "marks", "finalize"}
  Timed = {1}
  MaxBeacons = 0
INVARIANTS ReportMatchesPaper
PROPERTIES AnswersAreSealed OverdueIsClosed
CHECK_DEADLOCK FALSE
