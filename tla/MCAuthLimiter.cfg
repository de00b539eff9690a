\* Three addresses that share room for two keys, one of them spaced but never
\* locked, and one peer.
SPECIFICATION LimiterSpec
CONSTANTS
  Emails = {a1, a2, admin}
  Peers = {p1}
  Spaced = {admin}
  Threshold = 2
  ThresholdIp = 3
  Steps = 1
  Window = 4
  Lockout = 4
  MaxKeys = 2
  MaxTime = 6
SYMMETRY AddrSymmetry
CHECK_DEADLOCK FALSE
INVARIANTS GuessesAreBounded PeerCountIsExact
PROPERTY LockoutOutlivesSpray
