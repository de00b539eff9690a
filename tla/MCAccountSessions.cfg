\* Two addresses, one of an approved domain and one that is invited, one
\* Microsoft identity that may come with either, one browser.
SPECIFICATION Spec
CONSTANTS
  Addrs = {a1,a2}
  Ids = {i1}
  Browsers = {b1}
  Admins = {adm}
  Approved = {a2}
  Mailed = {a1}
  None = none
  MaxGen = 2
  MaxLink = 2
  MaxFaults = 1
CHECK_DEADLOCK FALSE
INVARIANTS TypeOK CacheIsRecord SpentLinksStayDead OneAccountPerIdentity
PROPERTIES EndedStaysEnded SsoOnlyStaysPasswordless
