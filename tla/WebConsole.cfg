SPECIFICATION Spec
CONSTANTS
  Tools = {"route", "area", "trip"}
  LiveTools = {"route", "area"}
  Contents = {1, 2}
  Plan <- MCPlan
  MaxInFlight = 1
  MaxOlder = 1
  None = None
PROPERTIES
  PageSettles
  SettingsAreSaved
