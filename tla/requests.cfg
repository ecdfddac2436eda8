SPECIFICATION FairSpec
CONSTANTS
  q1 = q1
  s1 = s1
  s2 = s2
  Requests = {q1, s1, s2}
  Streams = {s1, s2}
  MaxChunks = 2
INVARIANTS NothingLeaks OutputComplete
PROPERTIES ImplementsLedger EveryCallSettles
CHECK_DEADLOCK FALSE
