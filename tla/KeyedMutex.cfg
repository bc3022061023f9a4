CONSTANTS
  c1 = c1
  c2 = c2
  c3 = c3
  x1 = x1
  x2 = x2
  None = None
  Calls <- ThreeCalls
  Keys <- TwoExchanges
SPECIFICATION FairSpec
INVARIANTS
  OneAtATime
  NoStaleEntry
PROPERTIES
  RunsInOrder
  EveryCallRuns
CHECK_DEADLOCK FALSE
