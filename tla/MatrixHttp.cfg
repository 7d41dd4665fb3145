\* An idempotent and a non-idempotent request, one crash.
SPECIFICATION FairSpec
CONSTANTS
  Requests = {q1, q2}
  Idempotent = {q1}
  MaxRetries = 1
  MaxExpiries = 1
  MaxGen = 3
  MaxRestarts = 1
INVARIANTS
  NonIdempotentOnce
  SessionRecoverable
PROPERTY
  RequestsSettle
