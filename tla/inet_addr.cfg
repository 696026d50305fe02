SPECIFICATION Spec
CONSTANTS
  Ips = {0, 1}
  Scopes = {0, 1}
  Radix = 2
  Bytes = {0, 1}
  SunPath = 3
  MaxName = 3
INVARIANTS
  RoundTrip
  KeysAreExact
CHECK_DEADLOCK FALSE
