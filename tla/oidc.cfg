SPECIFICATION OidcSpec
CONSTANTS
  usr = usr
  a1 = a1
  g1 = g1
  g2 = g2
  k1 = k1
  d1 = d1
  t1 = t1
  t2 = t2
  ca = ca
  cb = cb
  Users = {usr}
  Sessions = {}
  Calls = {a1}
  MaxLoginFailures = 1
  Clients = {ca, cb}
  Codes = {k1}
  Devices = {d1}
  Tokens = {t1, t2}
  Reqs = {g1, g2}
  MaxPending = 1
  None = none
SYMMETRY Symmetry
INVARIANTS OneTokenPerFamily DeadFamiliesStayDead GrantsAreSingleUse
CHECK_DEADLOCK FALSE
