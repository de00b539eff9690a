\* A free table and a filtered one, one SELECT; two charts of at most two blocks.
SPECIFICATION FairSpec
CONSTANTS
  k = k
  f = f
  Keys <- MCKeys
  Filtered <- MCFiltered
  Code <- MCCode
  Selects = {s}
  Default = default
  MaxRetries = 3
  MaxPlots = 2
  MaxBlocks = 1
  MaxTables = 1
  MaxRegen = 1
  MaxParts = 2
INVARIANTS TypeOK RunsOnItsQuery
PROPERTIES FailedSelectStands TurnEnds
CHECK_DEADLOCK FALSE
