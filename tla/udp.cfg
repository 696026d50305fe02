CONSTANTS
  p1 = p1
  p2 = p2
  g1 = g1
  t1 = t1
  t2 = t2
  Kinds = {"node", "client", "server"}
  Peers = {p1, p2}
  Groups = {g1}
  Callers = {t1}
  NetErrors = {"refused"}
  session_timeout_ms = 1
  kScanFrequencyDivisor = 2
  kMinScanIntervalMs = 1
  kMaxScanIntervalMs = 1
  MaxInbox = 2
  MaxHeavy = 1
  MaxQueue = 1
SYMMETRY Symmetry
SPECIFICATION Spec
INVARIANTS
  LingerBounded
  DatagramsAreRead
PROPERTIES
  SessionsAreLeased
