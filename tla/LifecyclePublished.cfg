\* One writer at a time and no fault: submissions, re-submissions and jobs.
SPECIFICATION Spec
CONSTANTS
  Triggers = {t1}
  Uploads = {u1, u2}
  Workers = {w1}
  Scores <- MCScores
  PartsSets <- MCPartsSets
  Overlap = {}
  Faults = {}
  None = None
  Truncated = Truncated
INVARIANTS
  ServedMatchesRow
  PathsLeadToArtifacts
\* The requests are finitely many: when all are served nothing is left to do.
CHECK_DEADLOCK FALSE
