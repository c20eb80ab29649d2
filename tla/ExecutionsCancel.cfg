SPECIFICATION CancelSpec
CONSTANTS
  Focus = {"cancel"}
  x1 = x1
  x2 = x2
  s1 = s1
  s2 = s2
  t1 = t1
  NoOne = NoOne
  Exec = {e1, e2}
  MaxHeld = 1
PROPERTIES CancelSignals
CHECK_DEADLOCK FALSE
