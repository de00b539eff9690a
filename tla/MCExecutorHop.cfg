\* One slot on each side, two dispatches, a stray and two restarts: what the
\* shipped configuration runs.
SPECIFICATION Spec
CONSTANTS
  Jobs = {j1, j2}
  Strays = {stray}
  None = none
  WebSlots = 1
  BoxSlots = 1
  MaxRestarts = 2
SYMMETRY JobSymmetry
CHECK_DEADLOCK FALSE
INVARIANTS TypeOK SlotsBalanced QueuedOnlyBehindAbandoned DirKeptInFlight
PROPERTY ImplementsContract
