\* One slot on each side and one restart, under fairness: every call returns
\* and every directory is removed in the end.
SPECIFICATION FairSpec
CONSTANTS
  Jobs = {j1, j2}
  Strays = {}
  None = none
  WebSlots = 1
  BoxSlots = 1
  MaxRestarts = 1
CHECK_DEADLOCK FALSE
PROPERTIES EveryCallReturns DirsEventuallyGone
