\* One slot, a job in the queue while the sweep of the one before it latches.
SPECIFICATION Spec
CONSTANTS
  Jobs = {j1, j2}
  Strays = {s1}
  Nobody = nobody
  Slots = 1
  MaxPasses = 1
CHECK_DEADLOCK FALSE
PROPERTY LatchStopsJobs
