\* Two segments of one session, two end boundaries, two projection versions, two replicas.
CONSTANTS
  Segments = {s1, s2}
  SessionOf <- OneSession
  Boundaries = {b1, b2}
  Contents = {c1}
  Versions = {1, 2}
  Priorities = {0}
  Texts = {x1}
  Replicas = {r1, r2}
  Leases = {l1, l2, l3}
  None = None
  WorkerConcurrency = 2
  WorkerMaxAttempts = 2
  MaxSnapshots = 2
  MaxRestarts = 1
  MaxTaskFaults = 1
SPECIFICATION Spec
CHECK_DEADLOCK FALSE
SYMMETRY Symmetry
INVARIANTS
  WantedIsWorkedOn
  RowsAreOrdered
  AttemptsAreFenced
  PayloadIsIntact
  AttemptsAreBounded
  SessionIsSerial
PROPERTIES
  CommitsTheWanted
  MemoryAdvances
  StagingSurvives
  ImplementsSegmentMemory
