SPECIFICATION MCSpec
CONSTANTS
  Focus = {"authorize", "decide", "call", "inspected", "recover", "warm", "recover_two", "refuse"}
  m1 = m1
  m2 = m2
  a1 = a1
  a2 = a2
  c1 = c1
  r1 = r1
  p1 = p1
  p2 = p2
  NoOne = NoOne
  Managers = {m3}
  Authorizers = {a1, a2}
  Callers = {c1}
  Recoverers = {}
  Packages = {p1, p2}
  Denied = {}
  ManagerOps = {"install", "update", "disable", "uninstall"}
  AuthorizerOps = {"grant", "putPolicy"}
  MaxOps = 4
  MaxFaults = 1
INVARIANTS NoAuthorityAfterUninstall DecisionStood InstallsAccounted 
PROPERTIES NoLostAuthorization
SYMMETRY Symmetry
CHECK_DEADLOCK FALSE
