\* One slot, one job that leaves a process which starts another and exits
\* while a pass of the sweep is under way: the expected violation of SweptIsClean.
SPECIFICATION Spec
CONSTANTS
  Jobs = {j1}
  Strays = {s1, s2}
  Nobody = nobody
  Slots = 1
  MaxPasses = 2
SYMMETRY StraySymmetry
CHECK_DEADLOCK FALSE
INVARIANT SweptIsClean
