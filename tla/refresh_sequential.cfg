\* One request at a time, four rows, tokens that expire.
SPECIFICATION Spec
CONSTANTS
  Tokens = {t1, t2, t3, t4}
  Requests = {r1}
  None = None
  Ttl = 1
  MaxClock = 1
  MaxAborts = 1
SYMMETRY Symmetric
INVARIANT ReplayKillsFamily
\* The bound on rows may be used up with every request at rest.
CHECK_DEADLOCK FALSE
