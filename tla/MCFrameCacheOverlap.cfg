SPECIFICATION Spec
CONSTANTS
  Files = {f1}
  Tables = {}
  Keys = {k1, k2}
  KeysOf <- Sheets
  Loaders = {l1, l2}
  MaxStamp = 2
CHECK_DEADLOCK FALSE
INVARIANTS TypeOK OnlyOverlapsStale
