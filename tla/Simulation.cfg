SPECIFICATION Spec
CONSTANTS
  Agents <- Three
  Fleet <- FleetOf
  Depart <- Leaves
  Pcu <- Size
  Ghosts = {1}
  Obedient = {2}
  Routes <- Ways
  Fleets <- Scenario
  Sampled <- Areas
  Edges <- Roads
  Transitions <- Turns
  Storage <- Fits
  Flow <- LetsOut
  Signals = {"b"}
  StartZones <- Zones
  Scripts <- Steering
  TotalTicks = 3
  CheckTicks = 2
  Horizon = 0
  Interval = 1
  Budget = 1
  ForcedRetry = 2
  Cooldown = 2
  StopWhenAllArrived = TRUE
\* A run is over once its result is recorded.
CHECK_DEADLOCK FALSE
INVARIANTS OccupancyMatches RoutesHold EndAddsUp
PROPERTIES ClosuresHold RunEnds
