SPECIFICATION ShutdownSpec
CONSTANTS
  Overlays = {o1, o2}
  MaxAlerts = 2
INVARIANTS
  ShutdownTypeOK
  StartedFirst
  JoinedMoves
PROPERTIES
  ProcessEnds
  AlertsSent
CHECK_DEADLOCK FALSE
