\* One server: a hand-in in flight while the booking is cancelled.
SPECIFICATION Spec
CONSTANTS
  Instances = {i1}
  Sweepers = {w1}
  N = 1
  Kind <- OneOpen
  Answers = {spoken, typed}
  Silent = {typed}
  Blank = blank
  Nothing = nothing
  Scheduled = TRUE
  Ops = {"get", "draft", "next", "submit"}
  Timed = {0}
  MaxBeacons = 0
PROPERTY CancellationWins
CHECK_DEADLOCK FALSE
