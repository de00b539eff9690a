\* One dispatch and one sweep of the sandbox: the stale age of lstat.
SPECIFICATION Spec
CONSTANTS
  Jobs = {j1}
  Strays = {stray}
  None = none
  WebSlots = 1
  BoxSlots = 1
  MaxRestarts = 0
CHECK_DEADLOCK FALSE
INVARIANT AnsweredDirReadable
