\* One session with a message, two more runs, two troubles.
CONSTANTS
  LastSession = 1
  PageSize = 1
  Existing = 1
  MaxMessages = 3
  MaxTroubles = 2
SPECIFICATION Spec
CHECK_DEADLOCK FALSE
INVARIANT SetsAreOwned
INVARIANT DeletedLeavesNothing
INVARIANT NothingAfterDisposal
INVARIANT CursorIsPosted
INVARIANT NobodyIsLeftWaiting
PROPERTY EventsAreIngested
