SPECIFICATION EventsSpec
CONSTANTS
  r1 = r1
  k1 = k1
  k2 = k2
  Runs = {r1}
  Sockets = {k1, k2}
  MaxLines = 2
  MaxFleet = 2
  MaxFaults = 1
  None = none
INVARIANTS MirrorIsCurrent LiveLinesOnce
PROPERTIES MirrorsFaithfully WaitEnds
CHECK_DEADLOCK FALSE
