\* Two tables, a clock of three phases, the stale age beyond one period.
SPECIFICATION FairSpec
CONSTANTS
  t1 = t1
  t2 = t2
  Tables = {t1, t2}
  Global = global
  FireAt <- MCFireAt
  Period = 3
  StaleAge = 4
  MaxChanges = 1
  MaxCrashes = 1
  MaxFaults = 1
PROPERTIES NoMomentFiresTwice EveryMomentIsFired LockIsReclaimed
