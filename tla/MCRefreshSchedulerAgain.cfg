\* Expected to fail: a stamp that could not be written lets a moment fire again.
SPECIFICATION SchedulerSpec
CONSTANTS
  t1 = t1
  t2 = t2
  Tables = {t1, t2}
  Global = global
  FireAt <- MCFireAt
  Period = 3
  StaleAge = 4
  MaxChanges = 0
  MaxCrashes = 0
  MaxFaults = 1
PROPERTIES NeverFiresAgain
