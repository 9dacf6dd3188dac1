\* Hits of two keys through Redis and, when it raises, through the fallback.
SPECIFICATION Spec
CONSTANTS
  Servers = {s1, s2}
  Hits = {h1, h2, h3}
  Keys = {k1, k2}
  Limit = 1
  Window = 4
  Lag = 1
  MaxTime = 5
  Redis = Redis
  SameInstant = FALSE
  Nobody = Nobody
SYMMETRY Symmetry
INVARIANTS
  AdmissionBounded
  RejectedJustly
\* The hits are finitely many and the clock is bounded.
CHECK_DEADLOCK FALSE
