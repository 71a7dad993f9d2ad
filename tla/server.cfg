\* Every setting at its limits, two connections, two failures.
SPECIFICATION FairSpec
CONSTANTS
  Requests = {r1, r2}
  Modules = {search, proxy, disabled}
  Enabled = {search, proxy}
  GatewayPool = 1
  MaxFaults = 2
INVARIANTS PoolClosesLast LeakIsReported
PROPERTIES  HealthReports FailureReported ShutdownEnds
CHECK_DEADLOCK FALSE
