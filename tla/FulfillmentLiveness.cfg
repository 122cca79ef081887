CONSTANTS
  c1 = c1
  j1 = j1
  Callbacks = {c1}
  Jobs = {j1}
  Affiliates = FALSE
  FaultKinds = {"create", "query", "webhook", "error", "lost_read", "lost_write",
                "crash"}
  MaxFaults = 2
SPECIFICATION FairSpec
INVARIANT OneDeliverer
INVARIANT AckMeansHandled
 
PROPERTY OverdueEnds
CHECK_DEADLOCK FALSE
