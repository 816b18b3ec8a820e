CONSTANTS
  a = a
  b = b
  c = c
  x = x
  mine = mine
  theirs = theirs
  Tenants = {mine, theirs}
  Rows = {a, b, c, x}
  Owner <- MCOwner
  Decay <- MCDecay
  Scale <- MCScale
  Tokens <- MCTokens
  Citation = 1
  FreshnessOn = TRUE
  RrfK = 60
  CandidateK = 2
  Budget = 5
  CompressCap = 2
  TopK <- MCTopK
SPECIFICATION Spec
INVARIANTS
  TypeOK
  EvidenceOwnAndOnce
  UnanimityKept
  RerankLosesNothing
  ContextIsBestPrefix
\* A query ends.
CHECK_DEADLOCK FALSE
