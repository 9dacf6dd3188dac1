\* Two processes; uploads commit at any time and may fail to invalidate.
SPECIFICATION Spec
CONSTANTS
  Servers = {s1, s2}
  Readers = {r1, r2}
  Uploads = {u1, u2}
  TTL = 2
  Slow = 1
  MaxTime = 4
  Nothing = Nothing
SYMMETRY Symmetry
INVARIANTS
  StalenessBounded
  StaleOnlyIfCrossed
\* The requests are finitely many and the clock is bounded.
CHECK_DEADLOCK FALSE
