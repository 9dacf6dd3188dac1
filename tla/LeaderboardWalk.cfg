\* A walk while runs are submitted, submitted again and delisted.
SPECIFICATION FairSpec
CONSTANTS
  RunIds = {1, 2, 3}
  CreatedAt <- MCCreatedAt
  Scores <- MCScores
  Returns <- MCReturns
  Limit = 1
  MaxSubmits = 2
  Unlisted = Unlisted
INVARIANTS
  StayersGivenOnce
  NeverGivenTwice
PROPERTIES
  WalkEnds
\* When every run was submitted and delisted, nothing is left to do.
CHECK_DEADLOCK FALSE
