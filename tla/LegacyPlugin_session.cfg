\* One session of one or two segments that is rewritten, grows and is reverted.
CONSTANTS
  None = None
  Histories <- MCHistories
  Texts = {1, 2}
  MaxRuns = 1
  MaxProjections = 1
  MaxTroubles = 1
SPECIFICATION FairSpec
CHECK_DEADLOCK FALSE
INVARIANT DeletedLeavesNothing
INVARIANT EventsAreHeld
PROPERTY EventsAreIngested
PROPERTY TargetConverges
