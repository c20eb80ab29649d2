----------------------------- MODULE MCProgress -----------------------------
(***************************************************************************)
(* What must eventually happen in the runtime process and in the work of   *)
(* the Host, on small instances with fairness.  focus says which component *)
(* a behaviour exercises; the variables of the others are 0:               *)
(*   served      three requests of two plugins, two workers and one        *)
(*               invocation of a plugin at a time at the runtime's         *)
(*               scheduler;                                                *)
(*   module      three calls of the module cache for one module, one of    *)
(*               them cancelable;                                          *)
(*   slot        two jobs with a hostcall each, over one worker;           *)
(*   generation  one invocation on one generation of a runtime shard that  *)
(*               is stopped or fails;                                      *)
(*   operation   one operation with a cancellation, a revocation of its    *)
(*               plugin and a restart of the Host;                         *)
(*   background  two Starts, a Stop and a Shutdown of a background worker. *)
(***************************************************************************)
EXTENDS Naturals, TLC

CONSTANTS c1, c2, c3, k1, NoFlight, j1, j2, x1, s1, s2, t1, NoOne

VARIABLES
  focus,
  queues, order, queuedReq, active, activeBy, sessActive, sessPublishing, publishing,
  revoked, recent, nextGen, stale, queued, shutdown, canceled, leftover, submitted,
  responses, records, waiting, passed,
  lastUsed, recency, tick, sourceBytes, flights, outcome, thread, pc, joined, answer,
  cCanceled, notify,
  call, pending, io, toRuntime, toHost, worker, calls, rActive, rCanceled, inbox, flag,
  revoke, parents, fate,
  process, seq, ready, os, ended, reader, exit, beat, life, stops, hCall, hPending,
  flight, work, hRevoke, control, acked,
  epc, bound, lease, cancelled, sink, intent, committed, returned, ePending, eActive,
  readers, term, timer, adapter, canceller, row, log, epoch, revoker, host, faults,
  downs, told, hit,
  session, starting, closed, entry, state, watch, bpc, held, attempt, result, down,
  orphaned

sVars == <<queues, order, queuedReq, active, activeBy, sessActive, sessPublishing,
           publishing, revoked, recent, nextGen, stale, queued, shutdown, canceled,
           leftover, submitted, responses, records, waiting, passed>>
cVars == <<lastUsed, recency, tick, sourceBytes, flights, outcome, thread, pc, joined,
           answer, cCanceled, notify>>
rVars == <<call, pending, io, toRuntime, toHost, worker, calls, rActive, rCanceled,
           inbox, flag, revoke, parents, fate>>
hVars == <<process, seq, ready, os, ended, reader, exit, beat, life, stops, hCall,
           hPending, flight, work, hRevoke, control, acked>>
eVars == <<epc, bound, lease, cancelled, sink, intent, committed, returned, ePending,
           eActive, readers, term, timer, adapter, canceller, row, log, epoch, revoker,
           host, faults, downs, told, hit>>
bVars == <<session, starting, closed, entry, state, watch, bpc, held, attempt, result,
           down, orphaned>>

Callers == {c1, c2, c3}
Jobs == {j1, j2}

Served == INSTANCE InvocationScheduler
  WITH Req <- 1..3, Plugin <- {"a", "b"}, Scope <- {"s"},
       PluginOf <- <<"a", "a", "b">>, ScopeOf <- <<"s", "s", "s">>,
       Workers <- 2, QueueCapacity <- 3, PerPluginConcurrency <- 1, RecentCapacity <- 1,
       QueueCompactMin <- 1, OrderCompactMin <- 2, MaxScopes <- 0, MaxSequence <- 0
Module == INSTANCE ModuleCache
  WITH Caller <- Callers, Key <- {k1}, KeyOf <- [c \in Callers |-> k1], SizeOf <- k1 :> 1,
       MaxEntries <- 1, MaxSourceBytes <- 1, Cancelable <- {c1}, canceled <- cCanceled
Slot == INSTANCE HostcallRoutes
  WITH Job <- Jobs, Cancelable <- {j1}, Session <- {}, WorkerCount <- 1,
       QueueCapacity <- 2, MaxIO <- 1, active <- rActive, canceled <- rCanceled
Generation == INSTANCE RuntimeShards
  WITH N <- 1, Callers <- {"invoke"}, Prewarms <- {}, Revokers <- {},
       ShardOf <- "invoke" :> 1, PluginOf <- "invoke" :> "p", Admission <- 1,
       PluginAdmission <- 1, MaxFlights <- 1, MaxGen <- 1, MaxStops <- 1,
       call <- hCall, pending <- hPending, revoke <- hRevoke
Operation == INSTANCE ExecutionLeases
  WITH Exec <- {x1}, Kind <- x1 :> "operation", CompleteOnReturn <- {x1}, Timed <- {},
       Abandonable <- {}, MaxConcurrent <- 1, MaxEpoch <- 1, MaxEvents <- 0,
       MaxFaults <- 0, MaxDowns <- 1, pc <- epc, pending <- ePending, active <- eActive
Background == INSTANCE BackgroundManager
  WITH Starters <- {s1, s2}, Stoppers <- {t1}, MaxEntries <- 2, pc <- bpc

MCInit ==
  /\ focus \in {"served", "module", "slot", "generation", "operation", "background"}
  /\ IF focus = "served" THEN Served!Init
     ELSE
          /\ queues = 0 /\ order = 0 /\ queuedReq = 0 /\ active = 0
          /\ activeBy = 0 /\ sessActive = 0 /\ sessPublishing = 0
          /\ publishing = 0 /\ revoked = 0 /\ recent = 0 /\ nextGen = 0
          /\ stale = 0 /\ queued = 0 /\ shutdown = 0 /\ canceled = 0
          /\ leftover = 0 /\ submitted = 0 /\ responses = 0 /\ records = 0
          /\ waiting = 0 /\ passed = 0
  /\ IF focus = "module" THEN Module!Init
     ELSE
          /\ lastUsed = 0 /\ recency = 0 /\ tick = 0 /\ sourceBytes = 0
          /\ flights = 0 /\ outcome = 0 /\ thread = 0 /\ pc = 0 /\ joined = 0
          /\ answer = 0 /\ cCanceled = 0 /\ notify = 0
  /\ IF focus = "slot" THEN Slot!Init
     ELSE
          /\ call = 0 /\ pending = 0 /\ io = 0 /\ toRuntime = 0 /\ toHost = 0
          /\ worker = 0 /\ calls = 0 /\ rActive = 0 /\ rCanceled = 0
          /\ inbox = 0 /\ flag = 0 /\ revoke = 0 /\ parents = 0 /\ fate = 0
  /\ IF focus = "generation" THEN Generation!Init
     ELSE
          /\ process = 0 /\ seq = 0 /\ ready = 0 /\ os = 0 /\ ended = 0
          /\ reader = 0 /\ exit = 0 /\ beat = 0 /\ life = 0 /\ stops = 0
          /\ hCall = 0 /\ hPending = 0 /\ flight = 0 /\ work = 0
          /\ hRevoke = 0 /\ control = 0 /\ acked = 0
  /\ IF focus = "operation" THEN Operation!Init
     ELSE
          /\ epc = 0 /\ bound = 0 /\ lease = 0 /\ cancelled = 0 /\ sink = 0
          /\ intent = 0 /\ committed = 0 /\ returned = 0 /\ ePending = 0
          /\ eActive = 0 /\ readers = 0 /\ term = 0 /\ timer = 0
          /\ adapter = 0 /\ canceller = 0 /\ row = 0 /\ log = 0 /\ epoch = 0
          /\ revoker = 0 /\ host = 0 /\ faults = 0 /\ downs = 0 /\ told = 0
          /\ hit = 0
  /\ IF focus = "background" THEN Background!Init
     ELSE
          /\ session = 0 /\ starting = 0 /\ closed = 0 /\ entry = 0
          /\ state = 0 /\ watch = 0 /\ bpc = 0 /\ held = 0 /\ attempt = 0
          /\ result = 0 /\ down = 0 /\ orphaned = 0

MCNext ==
  /\ UNCHANGED focus
  /\ \/ focus = "served" /\ Served!Next /\ UNCHANGED <<cVars, rVars, hVars, eVars, bVars>>
     \/ focus = "module" /\ Module!Next /\ UNCHANGED <<sVars, rVars, hVars, eVars, bVars>>
     \/ focus = "slot" /\ Slot!Next /\ UNCHANGED <<sVars, cVars, hVars, eVars, bVars>>
     \/ focus = "generation" /\ Generation!Next /\ UNCHANGED <<sVars, cVars, rVars, eVars, bVars>>
     \/ focus = "operation" /\ Operation!Next /\ UNCHANGED <<sVars, cVars, rVars, hVars, bVars>>
     \/ focus = "background" /\ Background!Next /\ UNCHANGED <<sVars, cVars, rVars, hVars, eVars>>

\* Worker and compile threads run, guest code ends or is stopped at its
\* deadline, the pipes are read; the goroutines of a generation run, a killed
\* process exits and a handshake ends by its timeout.  New calls, cancellations and revocations may
\* never come.
RuntimeFair ==
  /\ WF_sVars(focus = "served" /\ Served!Take)
  /\ \A r \in 1..3 : /\ WF_sVars(focus = "served" /\ Served!BeginCompletion(r))
                     /\ WF_sVars(focus = "served" /\ Served!Send(r))
                     /\ WF_sVars(focus = "served" /\ Served!EndCompletion(r))
  /\ \A c \in Callers : /\ WF_cVars(focus = "module" /\ Module!CallerStep(c))
                        /\ WF_cVars(focus = "module" /\ Module!Compile(c))
                        /\ WF_cVars(focus = "module" /\ Module!NotifyCanceled(c))
  /\ \A j \in Jobs : /\ WF_rVars(focus = "slot" /\ Slot!Unregister(j))
                     /\ WF_rVars(focus = "slot" /\ Slot!WorkerStep(j))
  /\ \A d \in Jobs \X {1} : /\ WF_rVars(focus = "slot" /\ Slot!Respond(d))
                            /\ WF_rVars(focus = "slot" /\ Slot!ReleaseSlot(d))
  /\ WF_rVars(focus = "slot" /\ Slot!HostRead) /\ WF_rVars(focus = "slot" /\ Slot!InputStep)
  /\ WF_hVars(focus = "generation" /\ Generation!ManagerStep)
  /\ WF_hVars(focus = "generation" /\ Generation!EndStep(1, 1))
  /\ WF_hVars(focus = "generation" /\ Generation!CallerStep("invoke"))

\* The Host runs its own code: setup, finish, cancellation, armed timers,
\* revocation and restart go on; background goroutines run and a cancelled
\* invocation returns.  An adapter need not return or call.
HostFair ==
  /\ WF_eVars(focus = "operation" /\ epc[x1] # "idle" /\ Operation!Start(x1))
  /\ WF_eVars(focus = "operation" /\ Operation!Finish(x1))
  /\ WF_eVars(focus = "operation" /\ Operation!CancelDispatch(x1))
  /\ WF_eVars(focus = "operation" /\ Operation!Timers(x1))
  /\ WF_eVars(focus = "operation" /\ Operation!ReconcileRevoked(x1))
  /\ WF_eVars(focus = "operation" /\ Operation!CancelPlugin)
  /\ WF_eVars(focus = "operation" /\ Operation!RevokeReturns)
  /\ WF_eVars(focus = "operation" /\ Operation!FinishAll)
  /\ WF_eVars(focus = "operation" /\ host = "closing" /\ Operation!ProcessEnds)
  /\ WF_eVars(focus = "operation" /\ Operation!Restart)
  /\ \A s \in {s1, s2} : WF_bVars(focus = "background" /\ bpc[s] # "idle" /\ Background!StartStep(s))
  /\ \A c \in {s1, s2, t1} : WF_bVars(focus = "background" /\ Background!StopStep(c))
  /\ WF_bVars(focus = "background" /\ Background!ShutdownStep)
  /\ \A e \in 1..2 : WF_bVars(focus = "background" /\ state[e] = "canceled" /\ Background!Complete(e))
  /\ \A e \in 0..2 : WF_bVars(focus = "background" /\ Background!WatchCompletion(e))

MCSpec ==
  /\ MCInit /\ [][MCNext]_<<focus, sVars, cVars, rVars, hVars, eVars, bVars>>
  /\ RuntimeFair /\ HostFair
-----------------------------------------------------------------------------
\* Everything the runtime accepted ends.  An invocation is answered, also one that
\* waits behind its plugin's limit (InvocationScheduler::take); a call of the module
\* cache returns although leaders and followers are cancelled (wait_for_flight); a
\* Host call returns and a cancelled worker leaves its hostcall unless the
\* generation ended (callIPCRequest, perform_raw_io_hostcall).  Requests, calls and
\* cancellations are finitely many, so it is enough that again and again none is
\* open.
RuntimeAnswers ==
  /\ []<>(focus = "served" => \A r \in submitted : responses[r] = 1)
  /\ []<>(focus = "module" => \A c \in Callers : pc[c] = "done")
  /\ []<>(focus = "slot" => \/ fate # "up"
                            \/ \A j \in Jobs : /\ call[j] # "waiting"
                                              /\ flag[j] => worker[j] = "ended")

\* A generation of a runtime shard that was ended is cleaned up, so that the
\* shard can start again, and a caller on it returns (wait, readIPCLoop,
\* failPendingGeneration).  The exception is the generation whose Start found it
\* stopped after the hello was acknowledged: nobody closes its ipcReaderDone.
GenerationsEnd ==
  (focus = "generation" /\ ended[1] # {})
     ~> /\ focus = "generation"
        /\ exit[1][1] = "closed" \/ Generation!Orphaned(1, 1)
        /\ hCall["invoke"].pc # "sent"

\* A signalled cancellation ends, with or without the adapter's help: the
\* acknowledgement timer sees to it (executionLease.requestCancel).
CancelEnds ==
  (focus = "operation" /\ timer[x1].ack = "armed") ~> (focus = "operation" /\ Operation!Ended(x1))

\* Every invocation of a background manager that is shut down comes to an end,
\* and every Start, Stop and Shutdown returns (Manager.Shutdown).  The exception is
\* the invocation whose session a late watcher or Stop of its predecessor forgot
\* (watchCompletion, StopPluginEnvironment): Shutdown does not find it.
ShutdownEndsAll ==
  /\ (focus = "background" /\ closed)
       ~> (focus = "background"
             /\ \A e \in 1..2 : state[e] \in {"none", "done"} \/ e \in orphaned)
  /\ []<>(focus = "background" => /\ \A c \in {s1, s2, t1} : bpc[c] \in {"idle", "ok", "err"}
                                  /\ down.pc \in {"idle", "returned"})
=============================================================================
