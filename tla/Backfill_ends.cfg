\* One worker and two sessions, fair scheduling; troubles come twice.
CONSTANTS
  w1 = w1
  Gone = Gone
  None = None
  Workers = {w1}
  LastSession = 2
  LastSpan = 1
  Ends = {1, 2}
  Texts = {1, 2}
  PriorityJobs <- FirstJob
  MaxRounds = 2
  MaxEdits = 1
  MaxTroubles = 2
CHECK_DEADLOCK FALSE
SPECIFICATION FairSpec
INVARIANT SettledIsStored
PROPERTY BackfillEnds
