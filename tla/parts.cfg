SPECIFICATION MCSpec
CONSTANTS
  n1 = n1
  n2 = n2
  r1 = r1
  r2 = r2
  p1 = p1
  p2 = p2
  hostPort = hostPort
  none = none
  x = x
  y = y
  ann = ann
  mail = mail
  viewer = viewer
  custom = custom
  s1 = s1
  s2 = s2
  w1 = w1
  w2 = w2
  f1 = f1
  f2 = f2
  f3 = f3
  f4 = f4
  crlf = crlf
  dash = dash
  other = other
  t1 = t1
  t2 = t2
  o1 = o1
  o2 = o2
  Nodes = {n1, n2}
  Routes = {r1, r2}
  Calls = {p1, p2}
  HostPort = hostPort
  MaxEdits = 3
  None = none
  Absent = none
  Segments = {x, y}
  Depth = 2
  Sensitive <- MCSensitive
  People = {ann}
  Usernames = {ann}
  Emails = {mail}
  Roles = {viewer, custom}
  Seeds = {viewer}
  Saves = {s1, s2}
  FileNames = {f1, f2, f3, f4}
  Entries <- MCEntries
  NoFile = none
  Symbols <- MCSymbols
  CRLF = crlf
  Dashes = dash
  Header = other
  Delimiter <- MCDelimiter
  Payloads <- MCPayloads
  PartCount = 2
  MaxBytes = 6
  MaxChunk = 3
  Widgets = {w1, w2}
  Machines = {n1, n2}
  Tokens = {t1, t2}
  Ops = {o1, o2}
  NoToken = none
SYMMETRY Symmetry
INVARIANTS NoStrandedRoute OverlapIsShared GatesAgreeOnNodes PollsForViewers FilesAreWhereItSays PartsGoThrough
INVARIANTS AccessIsDurable ConfiguredIsDurable HandedOver
PROPERTIES ApplyHeals OnlyReinstallRevokes
CHECK_DEADLOCK FALSE
