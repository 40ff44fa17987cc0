SPECIFICATION Spec
CHECK_DEADLOCK FALSE
CONSTANTS
  Tick = 1
  Overflow = 1000
  Infinity = 100000
  Minute = 2
  Day = 12
  Horizon = 30
  Longest = 5
  Networks <- MCNetworks
  QueriesOn <- MCQueriesOn
INVARIANTS
  DrivesHold
  DeparturesAreRight
  FrontierIsExact
