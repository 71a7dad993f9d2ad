\* Every kind of failure, three of them, pages of one row.
SPECIFICATION FairSpec
CONSTANTS
  Sessions = {s1}
  NoSession = NoSession
  Backfilled = 1
  MaxSeq = 3
  BatchSize = 1
  BackoffFloor = 1
  BackoffMax = 3
  Faults <- FaultKinds
  MaxFaults = 3
PROPERTIES CursorMonotone StopsAfterCancel
\* A cancelled task returns and the bounded writers finish.
CHECK_DEADLOCK FALSE
