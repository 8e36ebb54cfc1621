\* A tool reads a running session while a step is retried.
CONSTANTS
  idle = idle
  tool = tool
  Readers = {tool}
  Strict = {}
  PageSize = 2
  SnapshotAttempts = 1
  MaxRecords = 4
  MaxRevision = 2
  MaxRevivals = 1
SPECIFICATION Spec
CHECK_DEADLOCK FALSE
INVARIANT CacheIsSettled
