\* Every fault, no overlap: one client at a time works on the run.
SPECIFICATION FairSpec
CONSTANTS
  Triggers = {t1, t2}
  Uploads = {u1}
  Workers = {w1, w2}
  Scores <- MCScores
  PartsSets <- MCPartsSets
  Overlap = {}
  Faults = {"storage", "db", "timeout", "crash", "api"}
  None = None
  Truncated = Truncated
INVARIANTS
  TypeOK
  SingleExecution
  ScoreMatchesDoc
PROPERTIES
  JobSettles
\* The requests are finitely many: when all are served nothing is left to do.
CHECK_DEADLOCK FALSE
