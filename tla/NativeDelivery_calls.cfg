\* Two calls of submit for one segment that changes while requests fail.
CONSTANTS
  k1 = k1
  k2 = k2
  a = a
  b = b
  None = None
  Callers = {k1, k2}
  Contents = {a, b}
  MaxEdits = 2
  MaxFailures = 2
  MaxLosses = 1
  MaxErrors = 1
  MaxLies = 0
  MaxRestarts = 0
  MaxRepairs = 0
SPECIFICATION Spec
SYMMETRY Symmetric
INVARIANT OneRetryPerTarget
