\* Two overlapping requests over three rows, one failed transaction.
SPECIFICATION FairSpec
CONSTANTS
  Tokens = {t1, t2, t3}
  Requests = {r1, r2}
  None = None
  Ttl = 1
  MaxClock = 0
  MaxAborts = 1
INVARIANTS TypeOK OneActivePerFamily ChainLinear
PROPERTIES RevocationIsFinal RevokesItsSnapshot RequestsEnd LogoutIsComplete
\* The bound on rows may be used up with every request at rest.
CHECK_DEADLOCK FALSE
