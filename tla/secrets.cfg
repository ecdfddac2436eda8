SPECIFICATION SsoSpec
CONSTANTS
  c1 = c1
  a1 = a1
  o1 = o1
  o2 = o2
  o3 = o3
  k1 = k1
  k2 = k2
  x1 = x1
  x2 = x2
  x3 = x3
  none = none
  Clients = {c1}
  Apps = {a1}
  Objects = {o1, o2, o3}
  Secrets = {x1, x2, x3}
  Calls = {k1, k2}
  None = none
INVARIANT OldSecretFails
CHECK_DEADLOCK FALSE
