\* Two writers, pages of two rows, two survivable failures.
SPECIFICATION FairSpec
CONSTANTS
  Sessions = {s1, s2}
  NoSession = NoSession
  Backfilled = 2
  MaxSeq = 4
  BatchSize = 2
  BackoffFloor = 1
  BackoffMax = 3
  Faults <- Survivable
  MaxFaults = 2
INVARIANTS ListenerTypeOK NoGap SentInOrder CacheFollowsFeed CommitOrder
PROPERTIES ImplementsFeed EveryRowSent
\* A cancelled task returns and the bounded writers finish.
CHECK_DEADLOCK FALSE
