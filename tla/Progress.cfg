SPECIFICATION MCSpec
CONSTANTS
  c1 = c1
  c2 = c2
  c3 = c3
  k1 = k1
  NoFlight = NoFlight
  j1 = j1
  j2 = j2
  x1 = x1
  s1 = s1
  s2 = s2
  t1 = t1
  NoOne = NoOne
PROPERTIES RuntimeAnswers GenerationsEnd CancelEnds ShutdownEndsAll
CHECK_DEADLOCK FALSE
