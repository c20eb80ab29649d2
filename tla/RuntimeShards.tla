--------------------------- MODULE RuntimeShards ---------------------------
(***************************************************************************)
(* The Host's side of the runtime processes (internal/runtimeclient): the  *)
(* ProcessManager with its fixed shards and, per shard, the                *)
(* ProcessSupervisor that starts one process generation at a time, the     *)
(* goroutines it leaves behind (wait, readIPCLoop, heartbeatLoop), the     *)
(* calls that are pending on a generation and the compile flights they     *)
(* announce.                                                               *)
(*                                                                         *)
(* A generation of a shard is a number; 0 is no process.  A caller is one  *)
(* InvokeWorker or PrewarmWorker, a revoker one ProcessManager.Revoke.     *)
(* Every action is a critical section of s.mu, pendingMu or lifecycleMu    *)
(* together with the unshared steps around it.  Of the runtime process     *)
(* the module keeps what it answers; a frame is written and read in one    *)
(* step, also after the process has died, when it was still in the pipe.   *)
(* Lease signatures and the replay store, the diagnostics pipes and the    *)
(* payloads are left out.  The manager's operations hold lifecycleMu       *)
(* throughout; Bind, InvokeWorker and Revoke take it for a moment.         *)
(***************************************************************************)
EXTENDS Naturals, FiniteSets

CONSTANTS
  N,          \* number of shards
  Callers,    \* invocations and prewarms
  Prewarms,   \* the callers that prewarm: no binding, no admission
  Revokers,   \* plugin revocations
  ShardOf,    \* processShardIndex of the plugin of a caller or a revoker
  PluginOf,   \* the plugin of a caller
  Admission,  \* totalCapacity of a shard's admission controller
  PluginAdmission, \* its pluginCapacity
  MaxFlights, \* compile flight intents a shard keeps
  MaxGen,     \* bound: generations per shard
  MaxStops    \* bound: Stop calls of the manager

Shards == 1..N
Gens   == 1..MaxGen

VARIABLES
  process,  \* the generation of s.process, or 0
  seq,      \* the last generation made; the generation s.health names
  ready,    \* s.health.Ready
  os,       \* the process of a generation: none, running, killed, dead
  ended,    \* runtimeCtx of the generation is cancelled
  reader,   \* exit.ipcReaderDone and readIPCLoop: hello, reading, failing, done
  exit,     \* the wait goroutine: none, process, reader, pending, closed
  beat,     \* heartbeatLoop of a generation: off, idle, calling
  life,     \* the operation of the manager under lifecycleMu
  stops,    \* Stop calls made
  call,     \* a caller: pc, the generation of its lease, of its request, of its
            \* cancel_invoke, and the result
  pending,  \* callers registered in s.pending
  flight,   \* compileFlights: none, intent, registered, requested
  work,     \* what the runtime process does for a caller, and its compile flight
  revoke,   \* a revoker: pc, the generation asked, the one that served at the start
  control,  \* the holder of controlMu
  acked     \* generations that acknowledged a revocation

supVars  == <<process, seq, ready, os, ended, reader, exit>>
callVars == <<call, pending, flight, work>>
vars == <<process, seq, ready, os, ended, reader, exit, beat, life, stops, call, pending,
          flight, work, revoke, control, acked>>

Free == "free"

Init ==
  /\ process = [s \in Shards |-> 0] /\ seq = [s \in Shards |-> 0]
  /\ ready = [s \in Shards |-> FALSE]
  /\ os = [s \in Shards |-> [g \in Gens |-> "none"]]
  /\ ended = [s \in Shards |-> {}]
  /\ reader = [s \in Shards |-> [g \in Gens |-> "none"]]
  /\ exit = [s \in Shards |-> [g \in Gens |-> "none"]]
  /\ beat = [s \in Shards |-> [g \in Gens |-> "off"]]
  /\ life = [op |-> "idle", at |-> 0, started |-> {}]
  /\ stops = 0
  /\ call = [c \in Callers |-> [pc |-> "call", bound |-> 0, gen |-> 0, cancel |-> 0,
                                result |-> "none"]]
  /\ pending = {}
  /\ flight = [c \in Callers |-> "none"]
  /\ work = [c \in Callers |-> [run |-> "none", compile |-> "none"]]
  /\ revoke = [r \in Revokers |-> [pc |-> "call", gen |-> 0, first |-> 0]]
  /\ control = [s \in Shards |-> Free]
  /\ acked = [s \in Shards |-> {}]

-----------------------------------------------------------------------------
(* The generations of a shard.                                              *)

\* readyLocked.
Ready(s) == process[s] # 0 /\ ready[s]

\* invalidateRuntime and Stop that cancel the context and kill nothing.
KilledNot(o, g) == o

\* process.Kill of a generation.
Killed(o, g) == [o EXCEPT ![g] = IF @ = "running" THEN "killed" ELSE @]

\* Stop: the generation is unavailable and cancelled before its process is
\* killed.  Over a set of shards, because stopProcessShards stops them at once.
StopShards(S) ==
  LET T == {s \in S : process[s] # 0} IN
  /\ ready' = [s \in Shards |-> ready[s] /\ s \notin T]
  /\ ended' = [s \in Shards |-> ended[s] \cup IF s \in T THEN {process[s]} ELSE {}]
  /\ os' = [s \in Shards |-> IF s \in T THEN Killed(os[s], process[s]) ELSE os[s]]

\* invalidateRuntime on behalf of generation g.
Invalidate(s, g) ==
  IF seq[s] = g /\ process[s] # 0 THEN StopShards({s}) ELSE UNCHANGED <<ready, ended, os>>

\* failPendingGeneration that does not compare the generation.
FailPendingAny(s, g) ==
  LET own == {c \in Callers : ShardOf[c] = s} IN
  /\ pending' = pending \ own
  /\ flight' = [c \in Callers |-> IF c \in own THEN "none" ELSE flight[c]]
  /\ call' = [c \in Callers |-> IF c \in own \cap pending /\ call[c].result = "none"
                                THEN [call[c] EXCEPT !.result = "failed"] ELSE call[c]]

\* failPendingGeneration: every caller that is registered with g is told, and
\* the compile flights of g are forgotten.
FailPending(s, g) ==
  LET own == {c \in Callers : ShardOf[c] = s /\ call[c].gen = g} IN
  /\ pending' = pending \ own
  /\ flight' = [c \in Callers |-> IF c \in own THEN "none" ELSE flight[c]]
  /\ call' = [c \in Callers |-> IF c \in own \cap pending /\ call[c].result = "none"
                                THEN [call[c] EXCEPT !.result = "failed"] ELSE call[c]]

\* The process of a generation exits, killed or by itself.
Exit(s, g) ==
  /\ os[s][g] \in {"running", "killed"}
  /\ os' = [os EXCEPT ![s][g] = "dead"]
  /\ UNCHANGED <<process, seq, ready, ended, reader, exit, beat, life, stops, callVars,
                 revoke, control, acked>>

\* wait: process.Wait returned.
WaitProcess(s, g) ==
  /\ exit[s][g] = "process" /\ os[s][g] = "dead"
  /\ exit' = [exit EXCEPT ![s][g] = "reader"]
  /\ ended' = [ended EXCEPT ![s] = @ \cup {g}]
  /\ UNCHANGED <<process, seq, ready, os, reader, beat, life, stops, callVars, revoke,
                 control, acked>>

\* wait: the reader is done; the supervisor forgets the process.
WaitReader(s, g) ==
  /\ exit[s][g] = "reader" /\ reader[s][g] = "done"
  /\ exit' = [exit EXCEPT ![s][g] = "pending"]
  /\ process' = [process EXCEPT ![s] = IF @ = g THEN 0 ELSE @]
  /\ ready' = [ready EXCEPT ![s] = @ /\ process[s] # g]
  /\ UNCHANGED <<seq, os, ended, reader, beat, life, stops, callVars, revoke, control, acked>>

\* wait: what is still pending fails, and exit.done is closed.
WaitClose(s, g) ==
  /\ exit[s][g] = "pending"
  /\ exit' = [exit EXCEPT ![s][g] = "closed"]
  /\ FailPending(s, g)
  /\ UNCHANGED <<process, seq, ready, os, ended, reader, beat, life, stops, work, revoke,
                 control, acked>>

\* readIPCLoop meets the end of the stream, or a frame it cannot accept.
ReaderStops(s, g) ==
  /\ Invalidate(s, g)
  /\ reader' = [reader EXCEPT ![s][g] = "failing"]

ReaderEOF(s, g) ==
  /\ reader[s][g] = "reading" /\ os[s][g] = "dead"
  /\ ReaderStops(s, g)
  /\ UNCHANGED <<process, seq, exit, beat, life, stops, callVars, revoke, control, acked>>

ReaderFails(s, g) ==
  /\ reader[s][g] = "failing"
  /\ reader' = [reader EXCEPT ![s][g] = "done"]
  /\ FailPending(s, g)
  /\ UNCHANGED <<process, seq, ready, os, ended, exit, beat, life, stops, work, revoke,
                 control, acked>>

\* heartbeatLoop: a tick, while its generation is the ready one.
BeatTick(s, g) ==
  /\ beat[s][g] = "idle"
  /\ beat' = [beat EXCEPT ![s][g] =
                IF Ready(s) /\ seq[s] = g /\ g \notin ended[s] THEN "calling" ELSE "off"]
  /\ UNCHANGED <<supVars, life, stops, callVars, revoke, control, acked>>

\* heartbeatLoop: the call over the control channel answers; or fails in the
\* generation that callControlIPC wrote to, which is invalidated; or finds no
\* runtime, or its own generation ended.
BeatCall(s, g) ==
  /\ beat[s][g] = "calling" /\ control[s] = Free
  /\ \/ /\ Ready(s) /\ os[s][process[s]] = "running"
        /\ beat' = [beat EXCEPT ![s][g] = "idle"]
        /\ UNCHANGED <<ready, ended, os>>
     \/ /\ Ready(s) /\ StopShards({s})
        /\ beat' = [beat EXCEPT ![s][g] = "off"]
     \/ /\ ~Ready(s) \/ g \in ended[s]
        /\ beat' = [beat EXCEPT ![s][g] = "off"]
        /\ UNCHANGED <<ready, ended, os>>
  /\ UNCHANGED <<process, seq, reader, exit, life, stops, callVars, revoke, control, acked>>

-----------------------------------------------------------------------------
(* ProcessManager.Start and Stop, under lifecycleMu.                        *)

Serving == life.op = "idle"

Manage(op, at, started) == life' = [op |-> op, at |-> at, started |-> started]

StartManager ==
  /\ Serving
  /\ \E s \in Shards : ~Ready(s) /\ seq[s] < MaxGen
  /\ Manage("start", 1, {})
  /\ UNCHANGED <<supVars, beat, stops, callVars, revoke, control, acked>>

\* rollbackProcessShards: the shards this Start has started are stopped.
Rollback ==
  /\ StopShards(life.started)
  /\ Manage("stop", 0, {})

\* ProcessSupervisor.Start of the next shard: a ready shard is kept; the process
\* is launched, or a process that is not gone yet or a launch that fails ends
\* the manager's Start.
StartShard ==
  /\ life.op = "start" /\ life.at \in Shards
  /\ LET s == life.at IN
     \/ /\ Ready(s)
        /\ Manage("start", s + 1, life.started)
        /\ UNCHANGED <<supVars, beat>>
     \/ /\ ~Ready(s) /\ process[s] = 0 /\ seq[s] < MaxGen
        /\ LET g == seq[s] + 1 IN
           /\ seq' = [seq EXCEPT ![s] = g]
           /\ process' = [process EXCEPT ![s] = g]
           /\ os' = [os EXCEPT ![s][g] = "running"]
           /\ reader' = [reader EXCEPT ![s][g] = "hello"]
           /\ exit' = [exit EXCEPT ![s][g] = "process"]
        /\ ready' = [ready EXCEPT ![s] = FALSE]
        /\ Manage("hello", s, life.started)
        /\ UNCHANGED <<ended, beat>>
     \/ /\ ~Ready(s)
        /\ Rollback
        /\ UNCHANGED <<process, seq, reader, exit, beat>>
  /\ UNCHANGED <<stops, callVars, revoke, control, acked>>

\* Start: the hello was acknowledged and the generation is still the current one.
HelloReady ==
  /\ life.op = "hello"
  /\ LET s == life.at  g == seq[s] IN
     /\ process[s] = g /\ g \notin ended[s]
     /\ ready' = [ready EXCEPT ![s] = TRUE]
     /\ reader' = [reader EXCEPT ![s][g] = "reading"]
     /\ beat' = [beat EXCEPT ![s][g] = "idle"]
     /\ Manage("start", s + 1, life.started \cup {s})
  /\ UNCHANGED <<process, seq, os, ended, exit, stops, callVars, revoke, control, acked>>

\* Start: the hello was acknowledged, but the generation was stopped or its
\* process was reaped meanwhile; nobody finishes its reader.
HelloLost ==
  /\ life.op = "hello"
  /\ LET s == life.at  g == seq[s] IN process[s] # g \/ g \in ended[s]
  /\ Rollback
  /\ UNCHANGED <<process, seq, reader, exit, beat, stops, callVars, revoke, control, acked>>

\* Start: the handshake failed; the process is killed and awaited for a while.
HelloFails ==
  /\ life.op = "hello"
  /\ LET s == life.at  g == seq[s] IN
     /\ reader' = [reader EXCEPT ![s][g] = "done"]
     /\ ended' = [ended EXCEPT ![s] = @ \cup {g}]
     /\ os' = [os EXCEPT ![s] = Killed(@, g)]
     /\ ready' = [ready EXCEPT ![s] = @ /\ process[s] # g]
     /\ Manage("failed", s, life.started)
  /\ UNCHANGED <<process, seq, exit, beat, stops, callVars, revoke, control, acked>>

\* Start: the killed process is gone, or was awaited long enough.
HelloCleanup ==
  /\ life.op = "failed"
  /\ Rollback
  /\ UNCHANGED <<process, seq, reader, exit, beat, stops, callVars, revoke, control, acked>>

\* Start: every shard is ready, or the shards it started are rolled back.
StartDone ==
  /\ life.op = "start" /\ life.at = N + 1
  /\ IF \A s \in Shards : ready[s]
     THEN Manage("idle", 0, {}) /\ UNCHANGED <<ready, ended, os>>
     ELSE Rollback
  /\ UNCHANGED <<process, seq, reader, exit, beat, stops, callVars, revoke, control, acked>>

StopManager ==
  /\ Serving /\ stops < MaxStops
  /\ stops' = stops + 1
  /\ StopShards(Shards)
  /\ Manage("stop", 0, {})
  /\ UNCHANGED <<process, seq, reader, exit, beat, callVars, revoke, control, acked>>

\* stopProcessShards returns: every process is gone, or the context ended.
StopReturns ==
  /\ life.op = "stop"
  /\ Manage("idle", 0, {})
  /\ UNCHANGED <<supVars, beat, stops, callVars, revoke, control, acked>>

-----------------------------------------------------------------------------
(* InvokeWorker and PrewarmWorker.                                          *)

Shard(c) == ShardOf[c]
Admitted == {"admitted", "captured", "registered", "sent", "canceling"}

Goto(c, pc) == call' = [call EXCEPT ![c].pc = pc]
Refused(c)  == Goto(c, "done") /\ UNCHANGED <<pending, flight>>

\* unregister, and removeCompileFlightIntent where the request never left.
Unregister(c)  == pending' = pending \ {c}
ForgetFlight(c) == flight' = [flight EXCEPT ![c] = "none"]

\* BindPlugin; a prewarm needs no binding.
Bind(c) ==
  /\ call[c].pc = "call" /\ c \notin Prewarms /\ Serving
  /\ Ready(Shard(c))
  /\ call' = [call EXCEPT ![c].pc = "bound", ![c].bound = seq[Shard(c)]]
  /\ UNCHANGED <<supVars, beat, life, stops, pending, flight, work, revoke, control, acked>>

\* runtimeAdmissionController.acquire: room in the shard and for the plugin.
HasRoom(c) ==
  LET here == {d \in Callers \ Prewarms : Shard(d) = Shard(c) /\ call[d].pc \in Admitted}
  IN /\ Cardinality(here) < Admission
     /\ Cardinality({d \in here : PluginOf[d] = PluginOf[c]}) < PluginAdmission

\* ProcessManager.InvokeWorker and ProcessSupervisor.InvokeWorker to the
\* admission and the check of the lease's audience; PrewarmWorker.  Without room
\* the call waits, for the action to be taken after a release, or its context ends.
Admit(c) ==
  /\ \/ call[c].pc = "bound"
     \/ call[c].pc = "call" /\ c \in Prewarms /\ Ready(Shard(c))
  /\ Serving
  /\ Goto(c, IF /\ c \in Prewarms \/ HasRoom(c)
                /\ Ready(Shard(c)) /\ (c \in Prewarms \/ call[c].bound = seq[Shard(c)])
             THEN "admitted" ELSE "done")
  /\ UNCHANGED <<supVars, beat, life, stops, pending, flight, work, revoke, control, acked>>

\* callIPCRequest: the current generation is captured.
Capture(c) ==
  /\ call[c].pc = "admitted"
  /\ LET s == Shard(c) IN
     IF Ready(s) /\ process[s] \notin ended[s]
     THEN call' = [call EXCEPT ![c].pc = "captured", ![c].gen = process[s]]
     ELSE Goto(c, "done")
  /\ UNCHANGED <<supVars, beat, life, stops, pending, flight, work, revoke, control, acked>>

\* callIPCRequest: the request and its compile flight intent are registered.
Register(c) ==
  /\ call[c].pc = "captured"
  /\ IF Cardinality({d \in Callers : Shard(d) = Shard(c) /\ flight[d] # "none"}) < MaxFlights
     THEN /\ pending' = pending \cup {c}
          /\ flight' = [flight EXCEPT ![c] = "intent"]
          /\ Goto(c, "registered")
     ELSE Refused(c)
  /\ UNCHANGED <<supVars, beat, life, stops, work, revoke, control, acked>>

\* runtimeGenerationCurrent.
Current(s, g) == g \notin ended[s] /\ Ready(s) /\ process[s] = g

\* callIPCRequest: registered, the generation is checked again and the frame is
\* written (the runtime takes a lease of its own generation only); or the context
\* has ended, the generation is no longer current, or the write fails.
Send(c) ==
  /\ call[c].pc = "registered"
  /\ LET s == Shard(c)  g == call[c].gen IN
     \/ /\ Current(s, g) /\ os[s][g] # "dead"
        /\ Goto(c, "sent")
        /\ work' = [work EXCEPT ![c].run =
                      IF c \in Prewarms \/ call[c].bound = g THEN "queued" ELSE "rejected"]
        /\ UNCHANGED <<pending, flight>>
     \/ /\ Unregister(c) /\ ForgetFlight(c)
        /\ Goto(c, "done")
        /\ UNCHANGED work
  /\ UNCHANGED <<supVars, beat, life, stops, revoke, control, acked>>

\* callIPCRequest returns what came over the result channel.
Return(c) ==
  /\ call[c].pc = "sent" /\ call[c].result # "none"
  /\ Unregister(c)
  /\ Goto(c, "done")
  /\ UNCHANGED <<supVars, beat, life, stops, flight, work, revoke, control, acked>>

\* callIPCRequest: the context ended; cancel_invoke goes to the current
\* generation, and without one the generation of the request is invalidated.
CancelInvoke(c) ==
  /\ call[c].pc = "sent"
  /\ LET s == Shard(c) IN
     IF Current(s, process[s])
     THEN /\ call' = [call EXCEPT ![c].pc = "canceling", ![c].cancel = process[s]]
          /\ UNCHANGED <<pending, ready, ended, os>>
     ELSE Goto(c, "done") /\ Unregister(c) /\ Invalidate(s, call[c].gen)
  /\ UNCHANGED <<process, seq, reader, exit, beat, life, stops, flight, work, revoke, control, acked>>

\* removeUnregisteredCompileFlightIntent.
RemoveIntent(c) == flight' = [flight EXCEPT ![c] = IF @ = "intent" THEN "none" ELSE @]

\* cancel_invoke_ack: queued work is dropped and running work marked; the intent
\* of work that never started, or is over, is forgotten
\* (reconcileCompileFlightAfterCancelAck).
CancelAck(c) ==
  /\ call[c].pc = "canceling"
  /\ reader[Shard(c)][call[c].cancel] = "reading"
  /\ LET known == call[c].cancel = call[c].gen IN
     IF known /\ work[c].run = "running"
     THEN UNCHANGED <<flight, work>>
     ELSE /\ RemoveIntent(c)
          /\ work' = [work EXCEPT ![c].run = IF known /\ @ = "queued" THEN "answered" ELSE @]
  /\ Unregister(c)
  /\ Goto(c, "done")
  /\ UNCHANGED <<supVars, beat, life, stops, revoke, control, acked>>

\* The acknowledgement does not come in time, or the request for it failed: the
\* generation of the invocation is invalidated.
CancelTimeout(c) ==
  /\ call[c].pc = "canceling"
  /\ Invalidate(Shard(c), call[c].gen)
  /\ Unregister(c)
  /\ Goto(c, "done")
  /\ UNCHANGED <<process, seq, reader, exit, beat, life, stops, flight, work, revoke, control, acked>>

-----------------------------------------------------------------------------
(* The frames of the runtime process, and what readIPCLoop does with them.  *)

Reading(c) == reader[Shard(c)][call[c].gen] = "reading"

\* The scheduler of the runtime hands a request to a worker.
Take(c) ==
  /\ work[c].run = "queued" /\ os[Shard(c)][call[c].gen] = "running"
  /\ work' = [work EXCEPT ![c].run = "running"]
  /\ UNCHANGED <<supVars, beat, life, stops, call, pending, flight, revoke, control, acked>>

\* A frame about the compile flight of c: it must find the flight in state
\* expected, or the generation is invalidated.
FlightFrame(c, from, to, expected, next) ==
  /\ c \in Callers /\ call[c].gen # 0 /\ Reading(c)
  /\ work[c].compile \in from
  /\ work' = [work EXCEPT ![c].compile = to]
  /\ IF flight[c] \in expected
     THEN flight' = [flight EXCEPT ![c] = next] /\ UNCHANGED <<ready, ended, os, reader>>
     ELSE ReaderStops(Shard(c), call[c].gen) /\ UNCHANGED flight
  /\ UNCHANGED <<process, seq, exit, beat, life, stops, call, pending, revoke, control, acked>>

\* registerCompileFlight: the worker leads the flight of its module.
FlightRegister(c) ==
  work[c].run = "running" /\ FlightFrame(c, {"none"}, "registered", {"intent"}, "registered")

\* claimCompileFlightArtifact: the compile thread asks for the artifact.
OpenHandle(c) == FlightFrame(c, {"registered"}, "requested", {"registered"}, "requested")

\* dispatchCompileFlightArtifact: the Host answers, or fails and invalidates.
ArtifactServed(c) ==
  /\ work[c].compile = "requested"
  /\ \/ /\ os[Shard(c)][call[c].gen] = "running"
        /\ work' = [work EXCEPT ![c].compile = "served"]
        /\ UNCHANGED <<ready, ended, os>>
     \/ /\ work' = [work EXCEPT ![c].compile = "refused"]
        /\ Invalidate(Shard(c), call[c].gen)
  /\ UNCHANGED <<process, seq, reader, exit, beat, life, stops, call, pending, flight,
                 revoke, control, acked>>

\* completeCompileFlight: the flight is over, with its artifact or without it.
FlightComplete(c) ==
  FlightFrame(c, {"registered", "served"}, "complete", {"registered", "requested"}, "none")

\* invoke_worker_result: the intent of a worker that never led a flight is
\* forgotten, and a caller that still waits is told.  A worker whose
\* cancellation ended its wait answers before its compile flight is over.
Answer(c) ==
  /\ work[c].run \in {"running", "rejected"} /\ Reading(c)
  /\ work[c].compile \in {"none", "complete"} \/ call[c].pc = "done"
  /\ work' = [work EXCEPT ![c].run = "answered"]
  /\ RemoveIntent(c)
  /\ call' = [call EXCEPT ![c].result = IF c \in pending /\ @ = "none" THEN "answered" ELSE @]
  /\ UNCHANGED <<supVars, beat, life, stops, pending, revoke, control, acked>>

-----------------------------------------------------------------------------
(* ProcessManager.Revoke.                                                   *)

RevokeStep(r, pc, g) == revoke' = [revoke EXCEPT ![r].pc = pc, ![r].gen = g]

\* Health of the owning shard: a ready one is asked, another one is stopped.
RevokeBegin(r) ==
  /\ revoke[r].pc = "call" /\ Serving
  /\ LET s == ShardOf[r] IN
     revoke' = [revoke EXCEPT ![r] = [pc |-> IF Ready(s) THEN "ask" ELSE "stop", gen |-> 0,
                                      first |-> process[s]]]
  /\ UNCHANGED <<supVars, beat, life, stops, callVars, control, acked>>

\* callControlIPC: controlMu, the generation that is ready now, the write.
RevokeAsk(r) ==
  /\ revoke[r].pc = "ask"
  /\ LET s == ShardOf[r] IN
     /\ control[s] = Free
     /\ IF Ready(s) THEN /\ RevokeStep(r, "asked", process[s])
                         /\ control' = [control EXCEPT ![s] = r]
                    ELSE RevokeStep(r, "stop", 0) /\ UNCHANGED control
  /\ UNCHANGED <<supVars, beat, life, stops, callVars, acked>>

\* callControlIPC: revoke_epoch_ack.
RevokeAck(r) ==
  /\ revoke[r].pc = "asked"
  /\ LET s == ShardOf[r] IN
     /\ os[s][revoke[r].gen] = "running"
     /\ acked' = [acked EXCEPT ![s] = @ \cup {revoke[r].gen}]
     /\ control' = [control EXCEPT ![s] = Free]
  /\ RevokeStep(r, "done", revoke[r].gen)
  /\ UNCHANGED <<supVars, beat, life, stops, callVars>>

\* callControlIPC: a write or a read fails or the answer is refused; or the
\* context ends, which invalidates the generation.
RevokeFails(r) ==
  /\ revoke[r].pc = "asked"
  /\ LET s == ShardOf[r] IN
     /\ UNCHANGED <<ready, ended, os>> \/ Invalidate(s, revoke[r].gen)
     /\ control' = [control EXCEPT ![s] = Free]
  /\ RevokeStep(r, "stop", 0)
  /\ UNCHANGED <<process, seq, reader, exit, beat, life, stops, callVars, acked>>

\* A Revoke that does not wait for the process it stops.
RevokeStopAtOnce(r) ==
  /\ revoke[r].pc = "stop"
  /\ StopShards({ShardOf[r]})
  /\ RevokeStep(r, "done", process[ShardOf[r]])
  /\ UNCHANGED <<process, seq, reader, exit, beat, life, stops, callVars, control, acked>>

\* Revoke: the owning shard is stopped instead.
RevokeStop(r) ==
  /\ revoke[r].pc = "stop"
  /\ LET s == ShardOf[r] IN
     /\ StopShards({s})
     /\ RevokeStep(r, IF process[s] = 0 THEN "done" ELSE "stopping", process[s])
  /\ UNCHANGED <<process, seq, reader, exit, beat, life, stops, callVars, control, acked>>

\* Stop returns: the process is gone, or the context ended and Revoke fails.
RevokeStopped(r) ==
  /\ revoke[r].pc = "stopping"
  /\ RevokeStep(r, IF exit[ShardOf[r]][revoke[r].gen] = "closed" THEN "done" ELSE "failed",
                revoke[r].gen)
  /\ UNCHANGED <<supVars, beat, life, stops, callVars, control, acked>>

-----------------------------------------------------------------------------
Supervise(s, g) == WaitProcess(s, g) \/ WaitReader(s, g) \/ WaitClose(s, g)
                     \/ ReaderEOF(s, g) \/ ReaderFails(s, g)
Manager == \/ StartManager \/ StartShard \/ HelloReady \/ HelloLost \/ HelloFails
           \/ HelloCleanup \/ StartDone \/ StopManager \/ StopReturns
CallStep(c) == Bind(c) \/ Admit(c) \/ Capture(c) \/ Register(c) \/ Send(c) \/ Return(c)
               \/ CancelInvoke(c) \/ CancelAck(c) \/ CancelTimeout(c)
Runtime(c) == Take(c) \/ FlightRegister(c) \/ OpenHandle(c) \/ ArtifactServed(c)
                \/ FlightComplete(c) \/ Answer(c)
Revoker(r) == RevokeBegin(r) \/ RevokeAsk(r) \/ RevokeAck(r) \/ RevokeFails(r)
                \/ RevokeStop(r) \/ RevokeStopped(r)

Next ==
  \/ Manager
  \/ \E s \in Shards, g \in Gens : Supervise(s, g) \/ Exit(s, g) \/ BeatTick(s, g) \/ BeatCall(s, g)
  \/ \E c \in Callers : CallStep(c) \/ Runtime(c)
  \/ \E r \in Revokers : Revoker(r)

Spec == Init /\ [][Next]_vars

\* The goroutines of a generation and the manager's operation go on, a killed
\* process exits, a handshake ends (it has a timeout) and a caller that has been
\* told returns.
EndStep(s, g) == Supervise(s, g) \/ (os[s][g] = "killed" /\ Exit(s, g))
ManagerStep == ~Serving /\ Manager
CallerStep(c) == Return(c) \/ CancelAck(c) \/ CancelTimeout(c)

Fairness ==
  /\ WF_vars(ManagerStep)
  /\ \A s \in Shards, g \in Gens : WF_vars(EndStep(s, g))
  /\ \A c \in Callers : WF_vars(CallerStep(c))

FairSpec == Spec /\ Fairness
-----------------------------------------------------------------------------
\* The shape of the state.
TypeOK ==
  /\ process \in [Shards -> 0..MaxGen] /\ seq \in [Shards -> 0..MaxGen]
  /\ ready \in [Shards -> BOOLEAN]
  /\ os \in [Shards -> [Gens -> {"none", "running", "killed", "dead"}]]
  /\ ended \in [Shards -> SUBSET Gens]
  /\ reader \in [Shards -> [Gens -> {"none", "hello", "reading", "failing", "done"}]]
  /\ exit \in [Shards -> [Gens -> {"none", "process", "reader", "pending", "closed"}]]
  /\ pending \subseteq Callers
  /\ flight \in [Callers -> {"none", "intent", "registered", "requested"}]

\* A shard has at most one live process, and none that the supervisor has
\* forgotten: Start finds s.process gone only after wait has reaped it.
OneProcess ==
  \A s \in Shards : \A g \in Gens :
    os[s][g] \in {"running", "killed"} => g = process[s]

\* When a generation has been cleaned up, whoever waits for it has been told,
\* and neither its calls nor its compile flights are left in the tables, but for
\* a caller that is between its registration and its second look.  A caller is
\* told of a failure only when its own generation has ended.
EndedGenerationLeavesNothing ==
  \A c \in Callers :
    LET s == Shard(c)  g == call[c].gen IN
    g # 0 =>
      /\ exit[s][g] = "closed" /\ call[c].pc # "registered" =>
           /\ call[c].pc = "sent" => call[c].result # "none"
           /\ flight[c] = "none"
           /\ c \notin pending
      /\ call[c].result = "failed" => g \in ended[s]

\* A revocation that succeeded has reached the process that was serving when it
\* began: that process acknowledged it, or is gone.
RevokeContained ==
  \A r \in Revokers :
    LET s == ShardOf[r]  g == revoke[r].first IN
    revoke[r].pc = "done" /\ g # 0 => g \in acked[s] \/ os[s][g] = "dead"

\* A runtime that keeps to its protocol is never taken for one that does not:
\* no frame of a compile flight meets a flight that the Host has forgotten, as
\* long as the generation has not ended.
FlightsKnown ==
  \A c \in Callers :
    LET s == Shard(c)  g == call[c].gen IN
    g # 0 /\ g \notin ended[s] =>
      /\ work[c].compile = "none" /\ work[c].run = "running" => flight[c] = "intent"
      /\ work[c].compile = "registered" => flight[c] = "registered"
      /\ work[c].compile \in {"requested", "served"} => flight[c] = "requested"

\* A generation whose Start found it stopped after the hello was acknowledged:
\* nobody closes its ipcReaderDone.
Orphaned(s, g) == reader[s][g] = "hello" /\ ~(life.op = "hello" /\ life.at = s /\ seq[s] = g)

\* A generation that was ended is cleaned up, so that the shard can start again,
\* and a caller whose generation ended returns; the orphaned generation is the
\* exception, its wait goroutine never gets past ipcReaderDone.
GenerationsEnd ==
  /\ \A s \in Shards, g \in Gens :
       (g \in ended[s]) ~> (exit[s][g] = "closed" \/ Orphaned(s, g))
  /\ \A c \in Callers :
       (call[c].pc = "sent" /\ call[c].gen \in ended[ShardOf[c]]) ~> (call[c].pc = "done")
=============================================================================
