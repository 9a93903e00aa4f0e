\* One server: a booked exam expires unopened and is then opened.
SPECIFICATION Spec
CONSTANTS
  Instances = {i1}
  Sweepers = {w1}
  N = 1
  Kind <- OneAuto
  Answers = {spoken, typed}
  Silent = {typed}
  Blank = blank
  Nothing = nothing
  Scheduled = TRUE
  Ops = {"get"}
  Timed = {0}
  MaxBeacons = 0
PROPERTY ExpiryMarkerKept
CHECK_DEADLOCK FALSE
