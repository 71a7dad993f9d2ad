\* A ring of one, three messages, connections that hold two unread events.
SPECIFICATION FairSpec
CONSTANTS
  Clients = {c1, c2}
  Server = Server
  Senders <- AllSenders
  Capacity = 1
  MaxSends = 3
  PipeCap = 2
  Keep = 2
  MaxBreaks = 1
INVARIANTS GapsReported PageInOrder ChatDelivers
PROPERTIES NothingAfterLeaving ChatReaches FeedReconnects
CHECK_DEADLOCK FALSE
