SPECIFICATION MCSpec
CONSTANTS
  Focus = {"teardown", "operation", "subscription", "pair", "rollback", "background", "mutations", "audit", "resources", "runtime_io", "access", "processes", "output", "pools", "crowded", "requests", "limiter", "intervals"}
  x1 = x1
  x2 = x2
  s1 = s1
  s2 = s2
  t1 = t1
  NoOne = NoOne
  Exec = {e1, e2}
  MaxHeld = 1
INVARIANTS ToldTruth CommitsJournalled QuotaExact RevokedStops AccessWithinGrant Stoppable CompleteMeansEmpty
PROPERTIES FenceContract
CHECK_DEADLOCK FALSE
