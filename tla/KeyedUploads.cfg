\* Uploads racing and retrying under their keys.
SPECIFICATION ConcreteSpec
CONSTANTS
  Requests = {r1, r2, r3}
  Keys = {k1, k2}
  NoKey = NoKey
  Payloads <- MCParts
  Ids <- MCIds
  NoId = NoId
  IdOf <- MCNoIdOf
  None = None
  MaxWindow = 1
  Endpoint = "upload"
  Outlive = TRUE
  Errors = TRUE
SYMMETRY Symmetry
INVARIANTS
  AckHoldsRecord
\* The requests are finitely many: when all are served nothing is left to do.
CHECK_DEADLOCK FALSE
