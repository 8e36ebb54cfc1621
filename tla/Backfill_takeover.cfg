\* Two workers that may find the lock file of a dead one; nothing else goes wrong.
CONSTANTS
  w1 = w1
  w2 = w2
  Gone = Gone
  None = None
  Workers = {w1, w2}
  LastSession = 1
  LastSpan = 1
  Ends = {1}
  Texts = {1}
  PriorityJobs = {}
  MaxRounds = 2
  MaxEdits = 0
  MaxTroubles = 0
CHECK_DEADLOCK FALSE
SPECIFICATION Spec
SYMMETRY Symmetric
INVARIANT OneWorkerWorks
