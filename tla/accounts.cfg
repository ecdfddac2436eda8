SPECIFICATION MCSpec
CONSTANTS
  u1 = u1
  u2 = u2
  s1 = s1
  s2 = s2
  c1 = c1
  c2 = c2
  d1 = d1
  p1 = p1
  Users = {u1, u2}
  Sessions = {s1, s2}
  Calls = {c1, c2}
  MaxLoginFailures = 1
  None = none
  Folders = {d1}
  NoFolder = none
  Projects = {p1}
  Predicted <- MCPredicted
  StackIds = {s1, s2}
  NoStack = none
  StackCalls = {c1, c2}
SYMMETRY Symmetry
INVARIANTS NeverLockedOut RevokedStaysRevoked AdoptedOnce RemovedStaysRemoved
