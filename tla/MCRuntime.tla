----------------------------- MODULE MCRuntime -----------------------------
(***************************************************************************)
(* The parts of the runtime process on small instances: the invocation     *)
(* scheduler with the session revocation, the compiled-module cache, the   *)
(* hostcall routes with the Host's side of the pipes, the Host's           *)
(* supervision of the process, its launch, and the leases it executes.     *)
(* They share no state here: focus says which of them a behaviour          *)
(* exercises; the cache of the others stays empty, and the variables of    *)
(* their other parts are 0.                                                *)
(*   scheduler  three requests of two plugins and two session scopes, a    *)
(*              queue of two, two workers, one invocation of a plugin at a *)
(*              time;                                                      *)
(*   turns      four requests of three plugins with the same limits and no *)
(*              revocation, for the rotation of take;                      *)
(*   cache      three calls for two modules of which one fits;             *)
(*   routes     two jobs of two hostcalls each, one of them cancelable;    *)
(*   severed    the same, one of them of a session that is revoked;        *)
(*   calls      one invocation over two generations of a shard;            *)
(*   flights    an invocation and a prewarm that share one flight slot;    *)
(*   contended  two invocations of a plugin that may have one admitted;    *)
(*   revoke     one plugin revocation over two generations of a shard;     *)
(*   start      two shards that start, roll back and stop together;        *)
(*   minted     two calls of one runtime lease of every shape, with every  *)
(*              replay store, over two generations; replayed two calls of  *)
(*              two leases that fill the replay table (RuntimeLeases);     *)
(*   launch     two starts of the runtime binary, by path and sealed       *)
(*              (RuntimeLaunch).                                           *)
(***************************************************************************)
EXTENDS ModuleCache, TLC

CONSTANTS Focus, c1, c2, c3, k1, k2, j1, j2, Nil

VARIABLES
  focus,
  queues, order, queuedReq, active, activeBy, sessActive, sessPublishing,
  publishing, revoked, recent, nextGen, stale, queued, shutdown, sCanceled,
  leftover, submitted, responses, records, waiting, passed,
  call, pending, io, toRuntime, toHost, worker, calls, rActive, rCanceled,
  inbox, flag, revoke, parents, fate,
  process, seq, ready, os, ended, reader, exit, beat, life, stops, hCall,
  hPending, flight, work, hRevoke, control, acked,
  now, store, gen, lReady, lease, rows, cache, lCall, ran, raced,
  mode, source, seals, start, starts, read, copy, fds, deferred, child,
  image, pProcess, pReady, readers, tokens, accepted, hello, lost

sVars == <<queues, order, queuedReq, active, activeBy, sessActive,
           sessPublishing, publishing, revoked, recent, nextGen, stale,
           queued, shutdown, sCanceled, leftover, submitted, responses,
           records, waiting, passed>>
rVars == <<call, pending, io, toRuntime, toHost, worker, calls, rActive,
           rCanceled, inbox, flag, revoke, parents, fate>>
hVars == <<process, seq, ready, os, ended, reader, exit, beat, life, stops,
           hCall, hPending, flight, work, hRevoke, control, acked>>
lVars == <<now, store, gen, lReady, lease, rows, cache, lCall, ran, raced>>
pVars == <<mode, source, seals, start, starts, read, copy, fds, deferred,
           child, image, pProcess, pReady, readers, tokens, accepted, hello, lost>>

\* The modules the calls ask for and their sizes.
KeyOfCalls == c1 :> k1 @@ c2 :> k1 @@ c3 :> k2
SizeOfModules == k1 :> 1 @@ k2 :> 2

Scheduler == INSTANCE InvocationScheduler
  WITH Req <- 1..3, Plugin <- {"a", "b"}, Scope <- {"s", "t"},
       PluginOf <- <<"a", "a", "b">>, ScopeOf <- <<"s", "t", "s">>,
       Workers <- 2, QueueCapacity <- 2, PerPluginConcurrency <- 1,
       RecentCapacity <- 1, QueueCompactMin <- 1, OrderCompactMin <- 2,
       MaxScopes <- 1, MaxSequence <- 1, canceled <- sCanceled
Turns == INSTANCE InvocationScheduler
  WITH Req <- 1..4, Plugin <- {"a", "b", "c"}, Scope <- {"s"},
       PluginOf <- <<"a", "a", "b", "c">>, ScopeOf <- <<"s", "s", "s", "s">>,
       Workers <- 2, QueueCapacity <- 4, PerPluginConcurrency <- 1,
       RecentCapacity <- 1, QueueCompactMin <- 1, OrderCompactMin <- 2,
       MaxScopes <- 0, MaxSequence <- 0, canceled <- sCanceled
Routes == INSTANCE HostcallRoutes
  WITH Job <- {j1, j2}, Cancelable <- {j1}, Session <- {}, WorkerCount <- 2,
       QueueCapacity <- 2, MaxIO <- 2, active <- rActive,
       canceled <- rCanceled
Severed == INSTANCE HostcallRoutes
  WITH Job <- {j1, j2}, Cancelable <- {}, Session <- {j2}, WorkerCount <- 2,
       QueueCapacity <- 2, MaxIO <- 2, active <- rActive,
       canceled <- rCanceled
Invokes == INSTANCE RuntimeShards
  WITH N <- 1, Callers <- {"invoke"}, Prewarms <- {}, Revokers <- {},
       ShardOf <- "invoke" :> 1, PluginOf <- "invoke" :> "p", Admission <- 1,
       PluginAdmission <- 1, MaxFlights <- 1,
       MaxGen <- 2, MaxStops <- 1, call <- hCall, pending <- hPending,
       revoke <- hRevoke
Flights == INSTANCE RuntimeShards
  WITH N <- 1, Callers <- {"invoke", "prewarm"}, Prewarms <- {"prewarm"},
       Revokers <- {}, ShardOf <- ("invoke" :> 1 @@ "prewarm" :> 1),
       PluginOf <- "invoke" :> "p", Admission <- 1, PluginAdmission <- 1,
       MaxFlights <- 1, MaxGen <- 1, MaxStops <- 0,
       call <- hCall, pending <- hPending, revoke <- hRevoke
Contended == INSTANCE RuntimeShards
  WITH N <- 1, Callers <- {"invoke", "again"}, Prewarms <- {}, Revokers <- {},
       ShardOf <- ("invoke" :> 1 @@ "again" :> 1),
       PluginOf <- ("invoke" :> "p" @@ "again" :> "p"), Admission <- 2,
       PluginAdmission <- 1, MaxFlights <- 2, MaxGen <- 1, MaxStops <- 0,
       call <- hCall, pending <- hPending, revoke <- hRevoke
Revoke == INSTANCE RuntimeShards
  WITH N <- 1, Callers <- {}, Prewarms <- {}, Revokers <- {"revoke"},
       ShardOf <- "revoke" :> 1, PluginOf <- <<>>, Admission <- 1, PluginAdmission <- 1, MaxFlights <- 1,
       MaxGen <- 2, MaxStops <- 1, call <- hCall, pending <- hPending,
       revoke <- hRevoke
Start == INSTANCE RuntimeShards
  WITH N <- 2, Callers <- {}, Prewarms <- {}, Revokers <- {"revoke"},
       ShardOf <- "revoke" :> 1, PluginOf <- <<>>, Admission <- 1, PluginAdmission <- 1, MaxFlights <- 1,
       MaxGen <- 1, MaxStops <- 1, call <- hCall, pending <- hPending,
       revoke <- hRevoke
Minted == INSTANCE RuntimeLeases
  WITH Calls <- {"c", "d"}, Leases <- {"l"},
       Shapes <- {"proper", "unsignable", "unbound", "untargeted"},
       Stores <- {"none", "memory", "sqlite"}, Total <- 1, Replays <- 1,
       Wants <- {0, 1, 2}, DefaultTTL <- 1, MaxTTL <- 2, MaxGen <- 2,
       MaxTime <- 2, Nil <- Nil, ready <- lReady, call <- lCall
Replayed == INSTANCE RuntimeLeases
  WITH Calls <- {"c", "d"}, Leases <- {"l", "m"}, Shapes <- {"proper"},
       Stores <- {"none"}, Total <- 2, Replays <- 2, Wants <- {0, 2},
       DefaultTTL <- 1, MaxTTL <- 2, MaxGen <- 1, MaxTime <- 2, Nil <- Nil,
       ready <- lReady, call <- lCall
Launch == INSTANCE RuntimeLaunch
  WITH Modes <- {"path", "sealed"}, Burst <- 2, Rate <- 1, Generation <- 3,
       Chunk <- 2, MaxStarts <- 2, process <- pProcess, ready <- pReady
-----------------------------------------------------------------------------
MCInit ==
  /\ focus \in Focus
  /\ CASE focus = "scheduler" -> Scheduler!Init
       [] focus = "turns" -> Turns!Init
       [] OTHER ->
          /\ queues = 0 /\ order = 0 /\ queuedReq = 0 /\ active = 0
          /\ activeBy = 0 /\ sessActive = 0 /\ sessPublishing = 0
          /\ publishing = 0 /\ revoked = 0 /\ recent = 0 /\ nextGen = 0
          /\ stale = 0 /\ queued = 0 /\ shutdown = 0 /\ sCanceled = 0
          /\ leftover = 0 /\ submitted = 0 /\ responses = 0 /\ records = 0
          /\ waiting = 0 /\ passed = 0
  /\ Init
  /\ CASE focus = "routes" -> Routes!Init
       [] focus = "severed" -> Severed!Init
       [] OTHER ->
          /\ call = 0 /\ pending = 0 /\ io = 0 /\ toRuntime = 0 /\ toHost = 0
          /\ worker = 0 /\ calls = 0 /\ rActive = 0 /\ rCanceled = 0
          /\ inbox = 0 /\ flag = 0 /\ revoke = 0 /\ parents = 0 /\ fate = 0
  /\ CASE focus = "calls" -> Invokes!Init
       [] focus = "flights" -> Flights!Init
       [] focus = "contended" -> Contended!Init
       [] focus = "revoke" -> Revoke!Init
       [] focus = "start" -> Start!Init
       [] OTHER ->
          /\ process = 0 /\ seq = 0 /\ ready = 0 /\ os = 0 /\ ended = 0
          /\ reader = 0 /\ exit = 0 /\ beat = 0 /\ life = 0 /\ stops = 0
          /\ hCall = 0 /\ hPending = 0 /\ flight = 0 /\ work = 0
          /\ hRevoke = 0 /\ control = 0 /\ acked = 0
  /\ CASE focus = "minted" -> Minted!Init
       [] focus = "replayed" -> Replayed!Init
       [] OTHER ->
          /\ now = 0 /\ store = 0 /\ gen = 0 /\ lReady = 0 /\ lease = 0
          /\ rows = 0 /\ cache = 0 /\ lCall = 0 /\ ran = 0 /\ raced = 0
  /\ IF focus = "launch" THEN Launch!Init
     ELSE
          /\ mode = 0 /\ source = 0 /\ seals = 0 /\ start = 0 /\ starts = 0
          /\ read = 0 /\ copy = 0 /\ fds = 0 /\ deferred = 0 /\ child = 0
          /\ image = 0 /\ pProcess = 0 /\ pReady = 0 /\ readers = 0
          /\ tokens = 0 /\ accepted = 0 /\ hello = 0 /\ lost = 0

MCNext ==
  /\ UNCHANGED focus
  /\ \/ /\ \/ focus = "scheduler" /\ Scheduler!Next
           \/ focus = "turns" /\ Turns!Next
        /\ UNCHANGED <<vars, rVars, hVars, lVars, pVars>>
     \/ /\ focus = "cache" /\ Next
        /\ UNCHANGED <<sVars, rVars, hVars, lVars, pVars>>
     \/ /\ \/ focus = "routes" /\ Routes!Next
           \/ focus = "severed" /\ Severed!Next
        /\ UNCHANGED <<sVars, vars, hVars, lVars, pVars>>
     \/ /\ \/ focus = "calls" /\ Invokes!Next
           \/ focus = "flights" /\ Flights!Next
           \/ focus = "contended" /\ Contended!Next
           \/ focus = "revoke" /\ Revoke!Next
           \/ focus = "start" /\ Start!Next
        /\ UNCHANGED <<sVars, vars, rVars, lVars, pVars>>
     \/ /\ \/ focus = "minted" /\ Minted!Next
           \/ focus = "replayed" /\ Replayed!Next
        /\ UNCHANGED <<sVars, vars, rVars, hVars, pVars>>
     \/ /\ focus = "launch" /\ Launch!Next
        /\ UNCHANGED <<sVars, vars, rVars, hVars, lVars>>

MCSpec == MCInit /\ [][MCNext]_<<focus, sVars, vars, rVars, hVars, lVars,
                                 pVars>>
-----------------------------------------------------------------------------
\* What is asked is answered and done at most once.  A request is answered at most
\* once, though cancellation, completion, session revocation and shutdown race for
\* it, and the scheduler's counters are exact, so that none of the expect calls in
\* take, cancel and revoke_session can panic.  The module cache's recency index and
\* byte count describe its entries exactly (finish_flight, evict_locked), and the
\* invariant that CompiledOnce is proved from holds.  An answer to a hostcall finds its
\* route, a worker waits only for an answer that is on its way and never gets that
\* of an earlier hostcall, and a frame of a compile flight finds the flight the Host
\* announced (PendingIORoutes, respondToRuntimeIO, registerCompileFlight).  A runtime
\* lease runs at most once, unless a call with a later clock reading pruned it, and
\* only in the generation and for the invocation it was minted for, and the invariant
\* that is proved from holds (ConsumeRuntimeLease, consume_key, InvokeWorker).
AnsweredOnce ==
  /\ focus \in {"scheduler", "turns"} => Scheduler!AnsweredOnce
  /\ focus = "scheduler" => Scheduler!TypeOK /\ Scheduler!CountersExact /\ Scheduler!WithinLimits
  /\ focus = "turns" => Turns!TypeOK /\ Turns!CountersExact /\ Turns!WithinLimits
  /\ focus = "cache" => TypeOK /\ CacheConstants /\ CacheInv /\ IndexExact
  /\ focus = "routes" => /\ Routes!TypeOK /\ Routes!AnswersExpected
                         /\ Routes!NoWaitForNothing /\ Routes!AnswerIsCurrent
  /\ focus = "severed" => /\ Severed!TypeOK /\ Severed!AnswersExpected
                          /\ Severed!NoWaitForNothing /\ Severed!AnswerIsCurrent
  /\ focus = "calls" => Invokes!FlightsKnown
  /\ focus = "flights" => Flights!FlightsKnown
  /\ focus = "minted" => /\ Minted!TypeOK /\ Minted!ExecutedOnce /\ Minted!ExecutedAsMinted
                         /\ Minted!LeaseConstants /\ Minted!LeaseInv
  /\ focus = "replayed" => /\ Replayed!TypeOK /\ Replayed!ExecutedOnce
                           /\ Replayed!ExecutedAsMinted
                           /\ Replayed!LeaseConstants /\ Replayed!LeaseInv

\* Round robin: a plugin that could run something is passed over at most once by
\* each other plugin before InvocationScheduler::take serves it, also one that was
\* at its limit and was put to the back of the order by every scan meanwhile.
BoundedBypass == focus = "turns" => Turns!BoundedBypass

\* A shard has one live process at a time and forgets none that lives; when a
\* generation has been cleaned up, its callers have been told and nothing of it
\* is left in the tables, and nobody is told of a failure of another generation
\* (ProcessSupervisor.Start, wait, failPendingGeneration).  The process
\* executes the bytes whose digest was checked, a start that fails leaves no
\* descriptor, directory or child behind (but for the two returns after the clone
\* that let go of the child, runtime_process_linux.go:242-244 and 265-268), and a
\* process whose diagnostic output overran its limits does not stay ready
\* (ProcessSupervisor.Start, launchContainedRuntimeProcess, the stdout and stderr
\* scanners).
EndedGenerationLeavesNothing ==
  /\ focus = "calls" => Invokes!TypeOK /\ Invokes!OneProcess /\ Invokes!EndedGenerationLeavesNothing
  /\ focus = "flights" => Flights!TypeOK /\ Flights!EndedGenerationLeavesNothing
  /\ focus = "contended" => Contended!TypeOK /\ Contended!EndedGenerationLeavesNothing
  /\ focus = "revoke" => Revoke!TypeOK /\ Revoke!OneProcess
  /\ focus = "start" => Start!TypeOK /\ Start!OneProcess
  /\ focus = "launch" => /\ Launch!TypeOK /\ Launch!RunsVerifiedBytes
                         /\ Launch!FailedStartLeavesNothing /\ Launch!OutputBounded

\* A revocation that was acknowledged has reached everything.  Once
\* handle_session_revoke has acknowledged a scope, nothing of the scope is queued,
\* runs or is about to write a response, as long as the runtime serves
\* (SessionRevokeController::contain, InvocationScheduler::revoke_session); and a
\* plugin revocation that succeeded has reached the process that served when it
\* began: that process acknowledged it or is gone, though processes stop, fail and
\* start again meanwhile (ProcessManager.Revoke).
RevokeContained ==
  /\ focus = "scheduler" => Scheduler!AcknowledgedScopeIsSilent
  /\ focus = "revoke" => Revoke!RevokeContained
  /\ focus = "start" => Start!RevokeContained

\* docs/architecture/plugin-platform-runtime.md of cancel_invoke: "the runtime
\* acknowledges cancellation and remains ready for unrelated work": a request of
\* a cancelled worker that follows the acknowledgement on the pipe does not end
\* the generation (dispatchRuntimeIOFrame, perform_raw_io_hostcall).
ReadyAfterCancel == Routes!ReadyAfterCancel
=============================================================================
