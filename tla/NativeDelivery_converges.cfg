\* One call, with misreported requests, a restart and an operator: what must happen.
CONSTANTS
  k1 = k1
  k2 = k2
  a = a
  b = b
  None = None
  Callers = {k1}
  Contents = {a, b}
  MaxEdits = 1
  MaxFailures = 1
  MaxLosses = 1
  MaxErrors = 0
  MaxLies = 1
  MaxRestarts = 1
  MaxRepairs = 1
SPECIFICATION FairSpec
PROPERTY TargetConverges
PROPERTY FailedTargetIsRetried
