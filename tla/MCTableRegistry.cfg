\* Two administrators and the scheduler at one registration.
SPECIFICATION Spec
CONSTANTS
  Ids = {t1}
  Admins = {a1, a2}
  Sched = sched
  MaxSrc = 2
SYMMETRY RegistrySymmetry
INVARIANTS TypeOK RecTracksRegistry DismissalStands FingerprintHasItsSnapshot
PROPERTY RefreshLeavesTheRow
CHECK_DEADLOCK FALSE
