\* Two slots: the sweep of one job kills the runner of the other.
SPECIFICATION Spec
CONSTANTS
  Jobs = {j1, j2}
  Strays = {}
  Nobody = nobody
  Slots = 2
  MaxPasses = 2
CHECK_DEADLOCK FALSE
INVARIANT SweptIsNeverKilled
