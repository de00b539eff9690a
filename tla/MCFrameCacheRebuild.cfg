SPECIFICATION Spec
CONSTANTS
  Files = {f1}
  Tables = {}
  Keys = {k1, k2}
  KeysOf <- Sheets
  Loaders = {l1, l2}
  MaxStamp = 3
CHECK_DEADLOCK FALSE
INVARIANT MemoryIsCurrent
