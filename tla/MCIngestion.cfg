SPECIFICATION MCSpec
CONSTANTS
  a = a
  b = b
  x = x
  e = e
  acme = acme
  h1 = h1
  h2 = h2
  Document = {a, b, x, e}
  Tenant = {acme}
  Hash = {h1, h2}
  Worker = {w1, w2}
  TenantOf <- MCTenantOf
  Extractions <- MCExtractions
  EmptyBody = {e}
  OutOfContract = {x}
  MaxRetries = 1
  NoDoc = NoDoc
INVARIANTS
  IInv
  JobsAccounted
  JobHasBlob
  RetryBudget
  NoDuplicateEvidence
  NoPartialDocument
  FinishedIsSearchable
  OutOfContractLeavesNoTrace
PROPERTIES
  ImplementsContract
  SettlesEveryJob
