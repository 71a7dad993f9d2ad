\* The replay fails after the reconnect.
SPECIFICATION Spec
CONSTANTS
  Sessions = {s1}
  NoSession = NoSession
  Backfilled = 1
  MaxSeq = 3
  BatchSize = 1
  BackoffFloor = 1
  BackoffMax = 3
  Faults <- ReplayFails
  MaxFaults = 2
INVARIANT NoGap
\* A cancelled task returns and the bounded writers finish.
CHECK_DEADLOCK FALSE
