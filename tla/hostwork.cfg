SPECIFICATION WorkSpec
CONSTANTS
  s1 = s1
  s2 = s2
  s3 = s3
  r1 = r1
  u = u
  lan = lan
  wan = wan
  none = none
  Sessions = {s1, s2, s3}
  Runs = {r1, u}
  Updates = {u}
  MAX_RUNS = 1
  MaxFaults = 3
  NoRun = none
  Size = 3
  PerCall = 2
  Repeated = {0}
  Copies = {1}
  NoFile = none
INVARIANTS NoOrphanOnLiveLink ExitIsOnItsWay
INVARIANTS SucceededMeansUp SwapIsMarked
INVARIANTS UploadIsAtomic
PROPERTIES TerminalEnds EveryRunSettles NothingLeftBehind ComesBack FindsPrimary
CHECK_DEADLOCK FALSE
