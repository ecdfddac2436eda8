SPECIFICATION DirectorySpec
CONSTANTS
  u1 = u1
  u2 = u2
  ann = ann
  bob = bob
  mail = mail
  viewer = viewer
  custom = custom
  none = none
  s1 = s1
  s2 = s2
  People = {u1, u2}
  Usernames = {ann, bob}
  Emails = {mail}
  Roles = {viewer, custom}
  Seeds = {viewer}
  Saves = {s1, s2}
  Absent = none
INVARIANT EmailsAreUnique
CHECK_DEADLOCK FALSE
