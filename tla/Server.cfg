CONSTANTS
  Callers = {c1, c2}
  ShardRows = {r1}
  DropFails = TRUE
  MaxStamp = 3
  Hosts = {h}
  Workers = {w1, w2, w3}
  HostOf <- MCHostOf
  Revisions = {v1, v2}
  NoRevision = none
  Processes = {p1, p2}
  FileRows = {f1, f2}
  MaxRevision = 3
  Servers = {i1, i2}
  Clients = {i1, i2}
  ServerOf <- MCServerOf
  MaxSessions = 2
  MaxDrawn = 3
  MaxIssued = 2
  MaxCounter = 1
SPECIFICATION ServerSpec
INVARIANTS NoAnswerLost ReadsAreWhole TurnsLoseNothing SecretsWorkOnce RevokedStaysDead SecondFactorHolds
CHECK_DEADLOCK FALSE
SYMMETRY MCSymmetry
