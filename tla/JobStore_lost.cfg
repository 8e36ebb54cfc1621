\* One segment with one snapshot, two replicas, one attempt whose outcome cannot be stored.
CONSTANTS
  Segments = {s1}
  SessionOf <- OneSession
  Boundaries = {b1}
  Contents = {c1}
  Versions = {1}
  Priorities = {0}
  Texts = {x1}
  Replicas = {r1, r2}
  Leases = {l1, l2, l3}
  None = None
  WorkerConcurrency = 1
  WorkerMaxAttempts = 2
  MaxSnapshots = 1
  MaxRestarts = 1
  MaxTaskFaults = 1
SPECIFICATION FairSpec
CHECK_DEADLOCK FALSE
PROPERTY WantedIsSettled
