SPECIFICATION Spec
CONSTANTS
  Files = {f1}
  Tables = {t1}
  Keys = {k1, k2}
  KeysOf <- Sheets
  Loaders = {l1}
  MaxStamp = 3
CHECK_DEADLOCK FALSE
INVARIANTS TypeOK MemoryIsCurrent TablesInMemoryAreCurrent DiskIsCurrent
