SPECIFICATION MCSpec
CONSTANTS
  Client = {c1, c2, c3}
  Key = {k1, k2}
  p1 = p1
  p2 = p2
  p3 = p3
  o1 = o1
  o2 = o2
  o3 = o3
INVARIANTS MutualExclusion NoLostWakeup KeyExclusion
PROPERTIES NoOvertaking EveryLockGranted
