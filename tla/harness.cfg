SPECIFICATION Spec
CONSTANTS
  Tests = {t1, t2, t3}
  MaxFaults = 2
INVARIANTS ServesWhileHeld BrowserHasProfile
PROPERTIES EveryoneAnswered HandlersEnd
CHECK_DEADLOCK FALSE
