SPECIFICATION FairSpec
CONSTANTS
  Callers = {c1, c2, c3}
  MaxCalls = 2
INVARIANTS TypeOK UnmapsAtMostOnce ReturnMeansUnmapped
PROPERTIES EveryCloseReturns
CHECK_DEADLOCK FALSE
