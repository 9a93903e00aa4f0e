\* The draws of the services run.
SPECIFICATION DrawingSpec
CONSTANTS
  Comps <- MCComps
  Banks <- MCBanks
  Weights <- MCWeights
  Limits <- MCLimits
  OralCap = 2
  Supplies <- MCSupplies
  Technical <- MCTechnical
  TechnicalObjective = 2
  TechnicalOpen = 1
  NonTechnicalOpen = 1
INVARIANT EveryCompetencyKept
CHECK_DEADLOCK FALSE
