SPECIFICATION EditingSpec
CONSTANTS
  Editors = {e1, e2}
  UNDO_LIMIT = 1
  Seconds = 2
  MaxLayouts = 2
CHECK_DEADLOCK FALSE
PROPERTIES NoMidAirCollision
