SPECIFICATION Spec
CONSTANTS
  p1 = p1
  p2 = p2
  w1 = w1
  w2 = w2
  w3 = w3
  Processes <- MCProcesses
  Workers <- MCWorkers
  ProcessOf <- MCProcessOf
  Jobs = {j1, j2}
  MaxAttempts = 2
  ShortDelay = 1
  LongDelay = 2
  Timeout = 1
  Lease = 3
  Faults = {"database", "crash", "stop"}
  MaxFaults = 1
  None = None
INVARIANT TypeOK
INVARIANT OneRunner
INVARIANT AttemptsAccounted
INVARIANT SuccessRunsOnce
PROPERTY JobsLiveAlone
