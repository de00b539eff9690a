\* One slot, two jobs, the first answered `crashed' while its runner goes on:
\* the expected violation of NoOtherProcess.
SPECIFICATION Spec
CONSTANTS
  Jobs = {j1, j2}
  Strays = {}
  Nobody = nobody
  Slots = 1
  MaxPasses = 2
CHECK_DEADLOCK FALSE
INVARIANT NoOtherProcess
