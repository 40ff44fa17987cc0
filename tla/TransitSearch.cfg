SPECIFICATION TransitSpec
CHECK_DEADLOCK FALSE
CONSTANTS
  Timetables <- MCTimetables
  RequestsOn <- MCRequestsOn
  WindowTail = 100
  Sources <- MCSources
INVARIANTS
  JourneysAreRight
  AreaIsExact
  TimetablesHold
