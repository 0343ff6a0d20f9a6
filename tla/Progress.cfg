SPECIFICATION Spec
CONSTANTS
  Nil = Nil
INVARIANTS
  WorkIsCounted
PROPERTIES
  MonitoringSettles WorkEnds
CHECK_DEADLOCK FALSE
