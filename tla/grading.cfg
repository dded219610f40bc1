SPECIFICATION Spec
CONSTANTS
  None = None
  Broken = Broken
  Languages <- TwoLanguages
  LastLab = 1
  Scale = 6
  Outcomes <- FourOutcomes
  MaxSessions = 2
INVARIANT TypeOK
INVARIANT ScoreIsEarned
INVARIANT BestIsChosen
INVARIANT LatestIsComplete
PROPERTY GradesAnyway
CHECK_DEADLOCK FALSE
