\* Expected to fail: a Stop behind a one-shot answer drops the code it showed.
SPECIFICATION Spec
CONSTANTS
  Turns = {t1, t2}
  Convs = {c1, c2}
  Codes = {x}
  None = none
  MaxEvents = 2
INVARIANTS StoppedCodeIsStored
CHECK_DEADLOCK FALSE
