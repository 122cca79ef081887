CONSTANTS
  r1 = r1
  r2 = r2
  r3 = r3
  None = None
  Requests = {r1, r2, r3}
  Fingerprints = {"a", "b"}
  Lease = 1
  Ttl = 3
  Backoff = 1
  MaxClock = 5
  MaxFaults = 1
SPECIFICATION Spec
INVARIANT TypeOK
INVARIANT OneExecution
INVARIANT OneEffect
INVARIANT AnswersOwnRequest
PROPERTY OutcomeStays
SYMMETRY RequestSymmetry
CHECK_DEADLOCK FALSE
