\* Two turns, two conversations, one code, at most two events of a turn.
SPECIFICATION FairSpec
CONSTANTS
  Turns = {t1, t2}
  Convs = {c1, c2}
  Codes = {x}
  None = none
  MaxEvents = 2
INVARIANTS TypeOK CodeShownIsStored UnmarkedIsSaved
PROPERTIES MarksAreCleared
CHECK_DEADLOCK FALSE
