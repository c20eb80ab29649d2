SPECIFICATION MCSpec
CONSTANTS
  o1 = o1
  o2 = o2
  s1 = s1
  s2 = s2
  s3 = s3
  p1 = p1
  p2 = p2
  p3 = p3
  c1 = c1
  c2 = c2
  c3 = c3
  Nil = Nil
  Calls = {o1, o2, s1}
  IDs = {"i1"}
  Requests = {"q1"}
  Confirmed = {"q1"}
  Preflighted = {"q1"}
  OnSurface = {}
  MaxRev = 1
  MaxWorld = 1
SYMMETRY Symmetry
INVARIANTS HandedTokenIsCurrent TornDownIsEmpty DispatchWasConfirmed AnswersTrue
PROPERTIES RevokedStaysRevoked
CHECK_DEADLOCK FALSE
