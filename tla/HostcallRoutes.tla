--------------------------- MODULE HostcallRoutes ---------------------------
(***************************************************************************)
(* The raw I/O hostcalls of a running invocation, across the pipe between  *)
(* the Host and one runtime generation.                                    *)
(*                                                                         *)
(* Runtime (crates/redevplugin-runtime/src/main.rs): PendingIORoutes, the  *)
(* worker's perform_raw_io_hostcall, the input loop and the session        *)
(* revocation of the control thread.  Host (internal/runtimeclient):       *)
(* callIPCRequest of an invocation with its cancel_invoke, readIPCLoop and *)
(* dispatchRuntimeIOFrame with its slots.                                  *)
(*                                                                         *)
(* The scheduler is abstracted to "queued jobs start while a worker is     *)
(* free" (InvocationScheduler has the detail).  The two pipes are FIFO and *)
(* lose nothing while the generation lives; `fate` records why it ended.   *)
(* A hostcall is named by its job and its number within the job.           *)
(***************************************************************************)
EXTENDS Naturals, Sequences, FiniteSets, SequencesExt

CONSTANTS Job,
          Cancelable,      \* the jobs whose Host context may be cancelled
          Session,         \* the jobs of the session that may be revoked
          WorkerCount, QueueCapacity,
          MaxIO            \* bound: hostcalls of one job

VARIABLES
  call,        \* Host: where callIPCRequest of a job is
  pending,     \* Host: pendingInvocations
  io,          \* Host: goroutines answering a hostcall, and how far they are
  toRuntime, toHost,       \* the two pipes
  worker,      \* runtime: where the worker of a job is
  calls,       \* runtime: how many hostcalls a job has made
  active, canceled,        \* runtime: PendingIORoutes
  inbox,       \* runtime: what the channel of a job's current route holds
  flag,        \* runtime: the cancellation flag of a job
  revoke, parents,         \* runtime: progress of the session revocation
  fate         \* why the generation ended, or "up"

hostVars    == <<call, pending, io>>
runtimeVars == <<worker, calls, active, canceled, inbox, flag, revoke, parents>>
vars        == <<hostVars, runtimeVars, toRuntime, toHost, fate>>

Id == Job \X (1..MaxIO)
ActiveCapacity   == WorkerCount
CanceledCapacity == 2 * WorkerCount      \* IO_ROUTE_CANCELED_CAPACITY_MULTIPLIER
Slots            == WorkerCount

Init ==
  /\ call = [j \in Job |-> "idle"]
  /\ pending = {}
  /\ io = [d \in {} |-> "exec"]
  /\ toRuntime = <<>> /\ toHost = <<>>
  /\ worker = [j \in Job |-> "none"]
  /\ calls = [j \in Job |-> 0]
  /\ active = {} /\ canceled = {}
  /\ inbox = [j \in Job |-> "empty"]
  /\ flag = [j \in Job |-> FALSE]
  /\ revoke = "none" /\ parents = {}
  /\ fate = "up"

Frame(kind, j, n) == [kind |-> kind, job |-> j, n |-> n]
Send(f) == toHost' = Append(toHost, f)

----------------------------------------------------------------------------
(* The Host's call of an invocation.                                       *)

Invoke(j) ==
  /\ call[j] = "idle"
  /\ call' = [call EXCEPT ![j] = "waiting"]
  /\ pending' = pending \cup {j}
  /\ toRuntime' = Append(toRuntime, Frame("invoke", j, 0))
  /\ UNCHANGED <<io, runtimeVars, toHost, fate>>

\* The context ends first: cancel_invoke is written and its answer awaited.
CancelInvoke(j) ==
  /\ j \in Cancelable /\ call[j] \in {"waiting", "answered"}
  /\ call' = [call EXCEPT ![j] = "cancelling"]
  /\ toRuntime' = Append(toRuntime, Frame("cancel", j, 0))
  /\ UNCHANGED <<pending, io, runtimeVars, toHost, fate>>

\* No acknowledgement in time invalidates the generation.
CancelAckTimeout(j) ==
  /\ call[j] = "cancelling"
  /\ fate' = "timeout"
  /\ UNCHANGED <<hostVars, runtimeVars, toRuntime, toHost>>

\* Answered or acknowledged: unregister, and return.
Unregister(j) ==
  /\ call[j] \in {"answered", "acked"}
  /\ call' = [call EXCEPT ![j] = "done"]
  /\ pending' = pending \ {j}
  /\ UNCHANGED <<io, runtimeVars, toRuntime, toHost, fate>>

----------------------------------------------------------------------------
(* The Host's reader, and the goroutine of a hostcall.                     *)

Refusal(j) ==
  IF j \notin pending THEN "inactive"
  ELSE IF Cardinality(DOMAIN io) >= Slots THEN "slots"
  ELSE "up"

HostReadIO ==
  /\ toHost # <<>> /\ Head(toHost).kind = "io"
  /\ LET f == Head(toHost) IN
     /\ fate' = Refusal(f.job)
     /\ io' = IF Refusal(f.job) # "up" THEN io
              ELSE [d \in DOMAIN io \cup {<<f.job, f.n>>} |->
                       IF d = <<f.job, f.n>> THEN "exec" ELSE io[d]]
  /\ toHost' = Tail(toHost)
  /\ UNCHANGED <<call, pending, runtimeVars, toRuntime>>

\* A result or an acknowledgement fills the channel of its pending request.
HostReadAnswer ==
  /\ toHost # <<>> /\ Head(toHost).kind \in {"result", "ack"}
  /\ LET f == Head(toHost) IN
     call' = [call EXCEPT ![f.job] =
                IF f.kind = "result" /\ @ = "waiting" THEN "answered"
                ELSE IF f.kind = "ack" /\ @ = "cancelling" THEN "acked" ELSE @]
  /\ toHost' = Tail(toHost)
  /\ UNCHANGED <<pending, io, runtimeVars, toRuntime, fate>>

\* executeRuntimeIO or Control ends, and the response is written.
Respond(d) ==
  /\ d \in DOMAIN io /\ io[d] = "exec"
  /\ io' = [io EXCEPT ![d] = "written"]
  /\ toRuntime' = Append(toRuntime, Frame("answer", d[1], d[2]))
  /\ UNCHANGED <<call, pending, runtimeVars, toHost, fate>>

\* The deferred release of the slot.
ReleaseSlot(d) ==
  /\ d \in DOMAIN io /\ io[d] = "written"
  /\ io' = [e \in DOMAIN io \ {d} |-> io[e]]
  /\ UNCHANGED <<call, pending, runtimeVars, toRuntime, toHost, fate>>

----------------------------------------------------------------------------
(* The routes of the runtime.                                              *)

RoutesOf(j) == {d \in active : d[1] = j}

\* Mutant: a cancelled route is forgotten.
CancelRoutesForget(J) ==
  LET gone == UNION {RoutesOf(j) : j \in J} IN
  /\ active' = active \ gone
  /\ canceled' = canceled
  /\ inbox' = [j \in Job |-> IF j \in J /\ RoutesOf(j) # {} THEN "canceled" ELSE inbox[j]]

\* cancel_parent on the routes of J, all of them or none.
CancelRoutes(J) ==
  LET gone == UNION {RoutesOf(j) : j \in J} IN
  /\ active' = active \ gone
  /\ canceled' = canceled \cup gone
  /\ inbox' = [j \in Job |-> IF j \in J /\ RoutesOf(j) # {} THEN "canceled" ELSE inbox[j]]

Fits(J) == Cardinality(canceled \cup UNION {RoutesOf(j) : j \in J}) <= CanceledCapacity

----------------------------------------------------------------------------
(* The worker of a job: guest code, and perform_raw_io_hostcall.           *)

Running == {j \in Job : worker[j] \notin {"none", "queued", "ended"}}

Start(j) ==
  /\ worker[j] = "queued" /\ Cardinality(Running) < WorkerCount
  /\ worker' = [worker EXCEPT ![j] = "guest"]
  /\ UNCHANGED <<hostVars, toRuntime, toHost, calls, active, canceled, inbox, flag, revoke, parents, fate>>

\* A hostcall of the guest: refused when cancelled, otherwise registered.
Register(j) ==
  /\ worker[j] = "guest" /\ calls[j] < MaxIO /\ ~flag[j]
  /\ Cardinality(active) < ActiveCapacity
  /\ calls' = [calls EXCEPT ![j] = @ + 1]
  /\ active' = active \cup {<<j, calls[j] + 1>>}
  /\ inbox' = [inbox EXCEPT ![j] = "empty"]
  /\ worker' = [worker EXCEPT ![j] = "registered"]
  /\ UNCHANGED <<hostVars, toRuntime, toHost, canceled, flag, revoke, parents, fate>>

\* The second look at the flag.  The route of a cancelled job is retained as
\* cancelled, although its request is never sent; without room the error
\* goes to the guest and the route stays active.
CheckCanceled(j) ==
  /\ worker[j] = "registered" /\ flag[j]
  /\ IF Fits({j}) THEN CancelRoutes({j}) ELSE UNCHANGED <<active, canceled, inbox>>
  /\ worker' = [worker EXCEPT ![j] = "guest"]
  /\ UNCHANGED <<hostVars, toRuntime, toHost, calls, flag, revoke, parents, fate>>

CheckLive(j) ==
  /\ worker[j] = "registered" /\ ~flag[j]
  /\ worker' = [worker EXCEPT ![j] = "checked"]
  /\ UNCHANGED <<hostVars, toRuntime, toHost, calls, active, canceled, inbox, flag, revoke, parents, fate>>

SendRequest(j) ==
  /\ worker[j] = "checked"
  /\ Send(Frame("io", j, calls[j]))
  /\ worker' = [worker EXCEPT ![j] = "receiving"]
  /\ UNCHANGED <<hostVars, toRuntime, calls, active, canceled, inbox, flag, revoke, parents, fate>>

Receive(j) ==
  /\ worker[j] = "receiving" /\ inbox[j] # "empty"
  /\ worker' = [worker EXCEPT ![j] = "guest"]
  /\ UNCHANGED <<hostVars, toRuntime, toHost, calls, active, canceled, inbox, flag, revoke, parents, fate>>

\* The guest ends or is stopped; the result is published unless its session is revoked.
Finish(j) ==
  /\ worker[j] = "guest"
  /\ worker' = [worker EXCEPT ![j] = "ended"]
  /\ IF revoke = "done" /\ j \in Session THEN UNCHANGED toHost ELSE Send(Frame("result", j, 0))
  /\ UNCHANGED <<hostVars, toRuntime, calls, active, canceled, inbox, flag, revoke, parents, fate>>

----------------------------------------------------------------------------
(* The input loop of the runtime.                                          *)

ReadInvoke ==
  /\ toRuntime # <<>> /\ Head(toRuntime).kind = "invoke"
  /\ LET j == Head(toRuntime).job IN
     IF revoke = "done" /\ j \in Session
     THEN Send(Frame("result", j, 0)) /\ worker' = [worker EXCEPT ![j] = "ended"]
     ELSE worker' = [worker EXCEPT ![j] = "queued"] /\ UNCHANGED toHost
  /\ toRuntime' = Tail(toRuntime)
  /\ UNCHANGED <<hostVars, calls, active, canceled, inbox, flag, revoke, parents, fate>>

\* cancel_invoke: a queued job is answered, the routes of a running one are
\* cancelled, and the acknowledgement follows; no room ends the runtime.
ReadCancel ==
  /\ toRuntime # <<>> /\ Head(toRuntime).kind = "cancel"
  /\ LET j == Head(toRuntime).job IN
     CASE worker[j] = "queued" ->
            /\ worker' = [worker EXCEPT ![j] = "ended"]
            /\ toHost' = toHost \o <<Frame("result", j, 0), Frame("ack", j, 0)>>
            /\ flag' = [flag EXCEPT ![j] = TRUE]
            /\ UNCHANGED <<active, canceled, inbox, fate>>
       [] j \in Running /\ Fits({j}) ->
            /\ flag' = [flag EXCEPT ![j] = TRUE]
            /\ CancelRoutes({j})
            /\ Send(Frame("ack", j, 0))
            /\ UNCHANGED <<worker, fate>>
       [] j \in Running /\ ~Fits({j}) ->
            /\ flag' = [flag EXCEPT ![j] = TRUE]
            /\ fate' = "retention"
            /\ UNCHANGED <<worker, active, canceled, inbox, toHost>>
       [] OTHER ->
            /\ Send(Frame("ack", j, 0))
            /\ UNCHANGED <<worker, flag, active, canceled, inbox, fate>>
  /\ toRuntime' = Tail(toRuntime)
  /\ UNCHANGED <<hostVars, calls, revoke, parents>>

\* consume: an active route gets the answer, a cancelled one swallows it.
ReadAnswer ==
  /\ toRuntime # <<>> /\ Head(toRuntime).kind = "answer"
  /\ LET f == Head(toRuntime)
         d == <<f.job, f.n>>
     IN /\ active' = active \ {d}
        /\ canceled' = IF d \in active THEN canceled ELSE canceled \ {d}
        /\ inbox' = IF d \in active THEN [inbox EXCEPT ![f.job] = "answer"] ELSE inbox
        /\ fate' = IF d \in active \cup canceled THEN fate ELSE "unknown"
  /\ toRuntime' = Tail(toRuntime)
  /\ UNCHANGED <<hostVars, toHost, worker, calls, flag, revoke, parents>>

----------------------------------------------------------------------------
(* The session revocation of the control thread: the routes of the session *)
(* first, parent by parent, then the jobs.  A failure is only answered.    *)

RevokeSnapshot ==
  /\ revoke = "none" /\ Session # {}
  /\ revoke' = "routes"
  /\ parents' = {j \in Session : RoutesOf(j) # {}}
  /\ UNCHANGED <<hostVars, toRuntime, toHost, worker, calls, active, canceled, inbox, flag, fate>>

RevokeRoutes(j) ==
  /\ revoke = "routes" /\ j \in parents
  /\ IF Fits({j}) THEN /\ CancelRoutes({j})
                      /\ parents' = parents \ {j}
                      /\ UNCHANGED revoke
     ELSE /\ revoke' = "failed"
          /\ UNCHANGED <<active, canceled, inbox, parents>>
  /\ UNCHANGED <<hostVars, toRuntime, toHost, worker, calls, flag, fate>>

RevokeJobs ==
  /\ revoke = "routes" /\ parents = {}
  /\ revoke' = "done"
  /\ flag' = [j \in Job |-> flag[j] \/ (j \in Session /\ (j \in Running \/ worker[j] = "queued"))]
  /\ worker' = [j \in Job |-> IF j \in Session /\ worker[j] = "queued" THEN "ended" ELSE worker[j]]
  /\ UNCHANGED <<hostVars, toRuntime, toHost, calls, active, canceled, inbox, parents, fate>>

HostStep(j) == Invoke(j) \/ CancelInvoke(j) \/ CancelAckTimeout(j) \/ Unregister(j)
HostRead    == HostReadIO \/ HostReadAnswer
WorkerStep(j) ==
  \/ Start(j) \/ Register(j) \/ CheckCanceled(j) \/ CheckLive(j) \/ SendRequest(j)
  \/ Receive(j) \/ Finish(j)
InputStep   == ReadInvoke \/ ReadCancel \/ ReadAnswer

Next ==
  /\ fate = "up"
  /\ \/ \E j \in Job : HostStep(j) \/ WorkerStep(j) \/ RevokeRoutes(j)
     \/ \E d \in Id : Respond(d) \/ ReleaseSlot(d)
     \/ HostRead \/ InputStep \/ RevokeSnapshot \/ RevokeJobs

Spec == Init /\ [][Next]_vars

(* The pipes are read, the goroutines and threads run, a guest ends or is  *)
(* stopped at its deadline.  New calls and cancellations may never come.   *)
Fairness ==
  /\ \A j \in Job : WF_vars(Unregister(j)) /\ WF_vars(WorkerStep(j))
  /\ \A d \in Id : WF_vars(Respond(d)) /\ WF_vars(ReleaseSlot(d))
  /\ WF_vars(HostRead) /\ WF_vars(InputStep)
LiveSpec == Init /\ [][Next]_vars /\ Fairness

----------------------------------------------------------------------------
(* Properties.                                                             *)

\* The shape of the state.
TypeOK ==
  /\ call \in [Job -> {"idle", "waiting", "answered", "cancelling", "acked", "done"}]
  /\ pending \subseteq Job
  /\ DOMAIN io \subseteq Id
  /\ worker \in [Job -> {"none", "queued", "guest", "registered", "checked", "receiving", "ended"}]
  /\ active \subseteq Id /\ canceled \subseteq Id /\ active \cap canceled = {}
  /\ Cardinality(active) <= ActiveCapacity /\ Cardinality(canceled) <= CanceledCapacity
  /\ inbox \in [Job -> {"empty", "answer", "canceled"}]
  /\ fate \in {"up", "inactive", "slots", "retention", "timeout", "unknown"}

InPipe(pipe, kind, d) == \E i \in 1..Len(pipe) : pipe[i] = Frame(kind, d[1], d[2])

\* A hostcall that the Host has or will have before it: written, executing or answered.
Outstanding(d) ==
  \/ InPipe(toHost, "io", d) \/ InPipe(toRuntime, "answer", d)
  \/ d \in DOMAIN io /\ io[d] = "exec"

\* An answer never finds the runtime without its route, so a late answer after
\* a cancellation does not end the process (PendingIORoutes::consume).
AnswersExpected ==
  /\ fate # "unknown"
  /\ \A d \in Id : Outstanding(d) => d \in active \cup canceled

\* A worker that waits for an answer waits for one that is on its way: its route
\* is active and its request is with the Host (cancellation, session revocation
\* and answers race for the route between register and recv).
NoWaitForNothing ==
  \A j \in Job :
    worker[j] = "receiving" /\ inbox[j] = "empty" /\ fate = "up" =>
      <<j, calls[j]>> \in active /\ Outstanding(<<j, calls[j]>>)

\* A hostcall never gets the answer of an earlier one: what a worker receives as
\* an answer is for its current call, which is then no longer on its way.
AnswerIsCurrent ==
  \A j \in Job :
    inbox[j] = "answer" /\ worker[j] = "receiving" => ~Outstanding(<<j, calls[j]>>)

(* What the documentation says of this protocol.                           *)

\* docs/architecture/plugin-platform-runtime.md: the runtime acknowledges a
\* cancellation "and remains ready for unrelated work".
ReadyAfterCancel == fate # "inactive"

=============================================================================
