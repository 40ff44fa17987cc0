SPECIFICATION Spec
CONSTANTS
  Requests = {r1}
  c1 = c1
  c2 = c2
  Clients = {c1, c2}
  Worker = worker
  Setups <- BothServices
  MaxRouters = 2
  Capacity = 2
  MaxTime = 2
  Features <- TwoFeatures
  WithEdges <- TwoFeatures
  Minute = 2
  BucketClass <- TwoBuckets
  Lead = 2
\* The clients post once and the clock stops.
CHECK_DEADLOCK FALSE
INVARIANT EngineMatchesRequest
PROPERTIES AppliesInOrder SwapIsWarm ClientAnswered
