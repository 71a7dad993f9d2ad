\* A replay overlapping a rotation.
SPECIFICATION Spec
CONSTANTS
  Tokens = {t1, t2, t3}
  Requests = {r1, r2}
  None = None
  Ttl = 1
  MaxClock = 0
  MaxAborts = 0
SYMMETRY Symmetric
INVARIANT ReplayKillsFamily
\* The bound on rows may be used up with every request at rest.
CHECK_DEADLOCK FALSE
