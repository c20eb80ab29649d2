SPECIFICATION MCSpec
CONSTANTS
  Focus = {"epoch"}
  m1 = m1
  m2 = m2
  a1 = a1
  a2 = a2
  c1 = c1
  r1 = r1
  p1 = p1
  p2 = p2
  NoOne = NoOne
  Managers = {m3}
  Authorizers = {a1, a2}
  Callers = {c1}
  Recoverers = {}
  Packages = {p1, p2}
  Denied = {}
  ManagerOps = {"install", "update", "uninstall"}
  AuthorizerOps = {"grant", "putPolicy", "deletePolicy"}
  MaxOps = 4
  MaxFaults = 1
PROPERTIES EpochMonotone
CHECK_DEADLOCK FALSE
