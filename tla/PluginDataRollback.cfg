SPECIFICATION MCSpec
CONSTANTS
  Focus = {"rollback"}
  a = a
  b = b
  p1 = p1
  p2 = p2
  p3 = p3
  t1 = t1
  t2 = t2
  r1 = r1
  o1 = o1
  NoOne = NoOne
  Hosts = {"h1", "h2"}
  Calls = {"c1"}
  Direct = {"d1"}
  Resets = {"reset"}
  Kinds <- ManifestKinds
  Nil = NoOne
INVARIANTS LatestVisit
CHECK_DEADLOCK FALSE
