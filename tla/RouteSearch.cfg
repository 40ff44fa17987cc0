SPECIFICATION MCSpec
CHECK_DEADLOCK FALSE
CONSTANTS
  Tick = 5
  Overflow = 1000
  Infinity = 100000
  NEdges = 5
  Networks <- MCNetworks
  QueriesOn <- MCQueriesOn
  UturnCost = 5
  Penalty <- MCPenalty
  Length = 4
  Longest = 9
  ManyToManyFrom = 2
  SingleSourceFrom = 4
  TrapLimit = 3
  SnapLimit = 2
  SettleLimit = 3
INVARIANTS
  BatchAgrees
  AreasAreExact
  AnswersAreRight
