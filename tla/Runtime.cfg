SPECIFICATION MCSpec
CONSTANTS
  Focus = {"scheduler", "turns", "cache", "routes", "severed", "calls", "flights", "contended", "revoke", "start", "minted", "replayed", "launch"}
  c1 = c1
  c2 = c2
  c3 = c3
  k1 = k1
  k2 = k2
  Caller = {c1, c2, c3}
  Key = {k1, k2}
  KeyOf <- KeyOfCalls
  SizeOf <- SizeOfModules
  MaxEntries = 1
  MaxSourceBytes = 2
  Cancelable = {c1}
  NoFlight = NoFlight
  j1 = j1
  j2 = j2
  Nil = Nil
INVARIANTS AnsweredOnce BoundedBypass CompiledOnce EndedGenerationLeavesNothing RevokeContained
CHECK_DEADLOCK FALSE
