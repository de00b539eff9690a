\* One address, one share while Microsoft sign-in is on, and its removal.
SPECIFICATION Spec
CONSTANTS
  Addrs = {a1}
  Ids = {}
  Browsers = {b1}
  Admins = {}
  Approved = {}
  Mailed = {a1}
  None = none
  MaxGen = 2
  MaxLink = 0
  MaxFaults = 0
CHECK_DEADLOCK FALSE
PROPERTY NotWrittenBack
