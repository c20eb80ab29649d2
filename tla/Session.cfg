SPECIFICATION MCSpec
CONSTANTS
  Proc = {p1, p2, p3}
  Gate = {g1, g2}
  NoGate = NoGate
  g1 = g1
INVARIANTS NoAdmissionPastFence
PROPERTIES ImplementsFence WaitsAndDrainsEnd
