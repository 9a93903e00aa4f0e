\* Two function instances work on one blob; calls may fail and instances die.
SPECIFICATION FairSpec
CONSTANTS
  x = x
  y = y
  ix = ix
  cx1 = cx1
  cx2 = cx2
  iy = iy
  ry = ry
  one = one
  two = two
  Ids = {x, y}
  Calls = {ix, cx1, cx2, iy, ry}
  Kind <- WorkOf
  Target <- RowOf
  Instances = {one, two}
  Home <- TwoHomes
  MaxAttempts = 2
  Versioned = TRUE
  Faults = TRUE
INVARIANTS NoAcknowledgedWriteLost
PROPERTIES ImplementsAtomicTable EveryCallAnswered
CHECK_DEADLOCK FALSE
