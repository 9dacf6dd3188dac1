\* Creates racing and retrying under their keys, a record expiring in between
\* its use by one request and the next.
SPECIFICATION FairSpec
CONSTANTS
  Requests = {r1, r2, r3}
  Keys = {k1}
  NoKey = NoKey
  Payloads <- MCBodies
  Ids <- MCIds
  NoId = NoId
  IdOf <- MCIdOf
  None = None
  MaxWindow = 1
  Endpoint = "create"
  Outlive = FALSE
  Errors = TRUE
INVARIANTS
  TypeOK
  OneEffectPerWindow
  AnswerIsOwn
PROPERTIES
  AtomicWrites
  EveryRequestAnswered
\* The requests are finitely many: when all are served nothing is left to do.
CHECK_DEADLOCK FALSE
