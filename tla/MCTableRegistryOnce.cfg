\* Two saves of one table at once: the expected violation of RegisteredOnce.
SPECIFICATION Spec
CONSTANTS
  Ids = {t1, t2}
  Admins = {a1, a2}
  Sched = sched
  MaxSrc = 1
INVARIANT RegisteredOnce
CHECK_DEADLOCK FALSE
