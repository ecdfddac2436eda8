SPECIFICATION MCSpec
CONSTANTS
  Machines = {local, m1}
  Local = local
  Conns = {c1, c2, c3}
  Embedded = emb
  None = none
  Target = m1
  UpdateConns = {c1, c2}
SYMMETRY Symmetry
INVARIANTS RoutesAgree PollingMeansSwapped
PROPERTIES NoUsurper RightAboutLivePeers
CHECK_DEADLOCK FALSE
