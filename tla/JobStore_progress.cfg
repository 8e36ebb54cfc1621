\* One segment with two end boundaries and two priorities, two replicas, fair scheduling.
CONSTANTS
  Segments = {s1}
  SessionOf <- OneSession
  Boundaries = {b1, b2}
  Contents = {c1}
  Versions = {1}
  Priorities = {0, 1}
  Texts = {x1}
  Replicas = {r1, r2}
  Leases = {l1, l2, l3}
  None = None
  WorkerConcurrency = 1
  WorkerMaxAttempts = 2
  MaxSnapshots = 2
  MaxRestarts = 1
  MaxTaskFaults = 0
SPECIFICATION FairSpec
CHECK_DEADLOCK FALSE
PROPERTY WantedIsSettled
