\* EntitySearch: two segments, one entity that either may refer to, two workers and a search beside
\* them.  LegacyService: one segment with two boundaries and projections, two servers, one fault.
\* OwnershipRollout: two groups of the legacy source, one of another.  Segmentation: four messages.
\* HistoryCache: ingestion of a resting session, a step retry included.  Backfill: two workers that
\* find a dead one's lock file, one session of at most two segments, a retained job.
SPECIFICATION PartsSpec
CONSTANTS
  A = A
  B = B
  a1 = a1
  None = None
  Segments = {A, B}
  Workers = {w1, w2}
  Entities = {a1}
  Source <- OneEntity
  SegmentIds = {s1}
  Boundaries = {e1, e2}
  Contents = {c1}
  Versions = {1, 2}
  Summaries = {t1}
  Servers = {r1, r2}
  Null = Null
  MaxAttempts = 2
  MaxPosts = 3
  MaxFaults = 1
  old = old
  new = new
  g1 = g1
  g2 = g2
  n1 = n1
  Groups = {g1, g2, n1}
  SpanEnds = {1}
  Sources = {old, new}
  Legacy = old
  OwnerOf <- TwoLegacy
  Unowned = Unowned
  Missing = Missing
  BatchSize = 1
  MaxChars = 3
  Weights = {1, 2}
  MaxMessages = 4
  idle = idle
  Readers = {idle}
  Strict = {idle}
  PageSize = 2
  SnapshotAttempts = 2
  MaxRecords = 4
  MaxRevision = 5
  MaxRevivals = 1
SYMMETRY Symmetric
CHECK_DEADLOCK FALSE
INVARIANTS
  ClaimsResolve
  OrphansAreSkewed
  AnswersAreBacked
  PostedIsQueued
  RunningIsWorkedOn
  OwnershipIsSound
  ServingIsIndexed
  CutIsRight
  CompleteSegmentsStay
  CacheIsSettled
  SettledIsStored
PROPERTIES
  LaneProtectsChoices
  ServiceImplementsMemory
  StableReadsAreCurrent
