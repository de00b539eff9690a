\* The shipped configuration: one slot, two jobs one after the other, and two
\* processes left behind.
SPECIFICATION Spec
CONSTANTS
  Jobs = {j1, j2}
  Strays = {s1, s2}
  Nobody = nobody
  Slots = 1
  MaxPasses = 2
SYMMETRY StraySymmetry
CHECK_DEADLOCK FALSE
INVARIANTS TypeOK ResponseNotLost KilledMeansKernel RunsAlone
