SPECIFICATION UpdateSpec
CONSTANTS
  N = 5
  Tick = 4
  Overflow = 14
  Infinity = 1400
  Networks <- AllNetworks
  Costs <- SomeCosts
  TaskLimits = {0, 1, 2, 3}
  MaxChanged = 2
  Raise = 3
  LeafStates = 2
  Extracts <- SomeExtracts
  ChangeFiles <- SomeChanges
  MaxUpdates = 2
  Policies = {"auto", "always", "never"}
  MaxGrowth = 110
INVARIANTS HierarchyIsExact DatasetsAreImports
PROPERTIES SidesAreFinal OrderIsKept
CHECK_DEADLOCK FALSE
