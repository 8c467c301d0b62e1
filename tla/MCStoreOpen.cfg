SPECIFICATION OpenFairSpec
CONSTANTS
  Openers = {o1, o2}
  Old <- MCOld
INVARIANTS OpenedIsReady FailureExplained
PROPERTIES OpenReturns
CHECK_DEADLOCK FALSE
