SPECIFICATION InstallSpec
CONSTANTS
  m1 = m1
  m2 = m2
  t1 = t1
  t2 = t2
  t3 = t3
  o1 = o1
  Machines = {m1}
  Tokens = {t1, t2, t3}
  Ops = {o1}
  NoToken = none
SYMMETRY Symmetry
INVARIANT InstalledIsAccepted
CHECK_DEADLOCK FALSE
