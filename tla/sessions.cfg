SPECIFICATION Spec
CONSTANTS
  Requests = {r1, r2, r3, r4}
  Ids = {i1, i2, i3}
  None = None
  MaxFaults = 2
SYMMETRY Symmetry
INVARIANTS NoFixation FailedLoginLeavesNothing LogoutIsBoth QuietLogoutIsFinal
CHECK_DEADLOCK FALSE
