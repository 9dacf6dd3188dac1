\* Everything overlaps; no worker dies or times out and the database answers.
SPECIFICATION FairSpec
CONSTANTS
  Triggers = {t1, t2}
  Uploads = {u1}
  Workers = {w1, w2}
  Scores = {0}
  PartsSets <- MCPartsSets
  Overlap = {"triggers", "writers"}
  Faults = {"storage", "api"}
  None = None
  Truncated = Truncated
INVARIANTS
  CompletedHasResults
  RunningHasWorker
PROPERTIES
  RunComesToRest
\* The requests are finitely many: when all are served nothing is left to do.
CHECK_DEADLOCK FALSE
