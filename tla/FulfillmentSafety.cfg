CONSTANTS
  c1 = c1
  c2 = c2
  j1 = j1
  Callbacks = {c1, c2}
  Jobs = {j1}
  Affiliates = TRUE
  FaultKinds = {"create", "query", "error", "webhook", "lost_read", "lost_write", "slow", "crash"}
  MaxFaults = 1
SPECIFICATION Spec
INVARIANT TypeOK
INVARIANT DeliveredOnce
INVARIANT SettledMeansDelivered
INVARIANT DeliveryNeedsPayment
INVARIANT RebateOnce
PROPERTY ImplementsContract
PROPERTY LeftToRefunds
SYMMETRY WorkerSymmetry
CHECK_DEADLOCK FALSE
