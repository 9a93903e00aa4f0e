\* Two instances serve the exam; the bound on the trail lets each browser take it from the other.
SPECIFICATION ServicesSpec
CONSTANTS
  Instances = {i1, i2}
  Browsers = {laptop, phone}
  Nobody = Nobody
  Networks = {home, office}
  MaxEvents = 2
  Questions <- MCQuestions
  OpenQuestions <- MCOpenQuestions
  Policies <- MCPolicies
  Sweeps = {s1, s2}
  Deletions = {x1}
  ProcessOf <- MCProcessOf
  MaxDay = 1
  Assessors = {a1}
  NoAssessor = none
  Keys = {k1}
  NoKey = nokey
  Desks = {d1, d2}
  ServerOfDesk <- MCServerOfDesk
  MaxPapers = 2
  Sheets <- MCSheets
  NoEmail = "none"
  NoLogin = nologin
  FormIds = {q1}
  Offices = {o1, o2}
  ServerOfOffice <- MCServerOfOffice
  PageSize = 2
  MaxCandidates = 3
  Comps <- MCComps
  Banks <- MCBanks
  Weights <- MCWeights
  Limits <- MCLimits
  OralCap = 2
  Supplies <- MCSupplies
  Technical <- MCTechnical
  TechnicalObjective = 2
  TechnicalOpen = 1
  NonTechnicalOpen = 1
  p0 = p0  p1 = p1  p2 = p2
  Prompts = {p0, p1, p2}
  Printed = p0
  Files <- MCFiles
  Authors = {b1, b2}
  MaxIds = 3
  Posted = {q1}
  Helpers = {h1, h2}
  MaxTracks = 2
  OpenItems = {1, 2}
  InOrder = TRUE
  MaxEdits = 4
  MaxTroubles = 2
INVARIANTS DisplacedWorkShows CleanedIsClean OneOpenPaper ScorerIsKept NobodyTwice SeatsAreFilled WeightsDecide OpenSpread PlanKeepsItsWord TwinsOnlyByImport RestoredIsShown OneTrackPerKey AllOrNothing SavedMeansStored ReportIsConfirmed
SYMMETRY MCServiceSymmetry
CHECK_DEADLOCK FALSE
