--------------------------- MODULE ExecutionLeases ---------------------------
(***************************************************************************)
(* Method executions of one plugin: the in-memory lease registry and the   *)
(* execution sinks (pkg/host/capability_execution.go), the cancellation    *)
(* facade (pkg/host/execution_facade.go) and the durable execution rows    *)
(* with their event log (internal/controlstore/views.go, pkg/execution).   *)
(*                                                                         *)
(* Threads: the caller of each execution (start, dispatch, finish), the    *)
(* adapter that holds its sink, cancellers, the duration and the           *)
(* acknowledgement timer, the lifecycle operation that revokes the plugin, *)
(* and the Host process, which closes or crashes and starts again.         *)
(*                                                                         *)
(* A sink's s.mu is held by finishWithStatus from the first test to the    *)
(* last, so that call is one step; terminateUnchecked does not take it and *)
(* is two steps, the read of the row and the write of the terminal state.  *)
(* A row's terminal status carries its failure code: "failed" is the code  *)
(* of the adapter or worker, "platform" and "quota" those of the Host.     *)
(***************************************************************************)
EXTENDS Naturals, Sequences, FiniteSets

CONSTANTS
    Exec,            \* the invocations of the plugin
    Kind,            \* Kind[x] \in {"sync", "operation", "subscription"}
    CompleteOnReturn,\* those routed to a worker: the return completes them
    Timed,           \* those with a duration quota
    Abandonable,     \* those whose caller may give up (bound)
    MaxConcurrent,   \* quota of the method, shared by all of Exec; 0 = none
    MaxEpoch,        \* bound: revocations of the plugin
    MaxEvents,       \* bound: events an adapter appends to one execution
    MaxFaults,       \* bound: failing reads and writes of the control store
    MaxDowns         \* bound: closes and crashes of the Host

VARIABLES
    pc,        \* the caller of x
    bound,     \* revision of the plugin record x was authorised with
    lease,     \* "none", "live", "finished"
    cancelled, \* the lease's context has a cause
    sink,      \* setExecution has run: the sink is indexed by execution id
    intent,    \* sink.terminalIntent
    committed, \* sink.terminalCommitted
    returned,  \* lease.dispatchComplete
    pending,   \* registry.setupRollbacks
    active,    \* registry.activeByQuotaKey of the one key
    readers,   \* callers holding the plugin gate for reading
    term,      \* what a terminateUnchecked in flight has decided to write
    timer,     \* the duration timer and the acknowledgement timer of x
    adapter,   \* the sink call of x's adapter that has passed validation
    canceller, \* CancelExecution between its commit and its dispatch
    row,       \* the durable status
    log,       \* the durable events
    epoch,     \* revision of the plugin record
    revoker,   \* the lifecycle operation: [at, todo]
    host,      \* "open", "closing", "down"
    faults, downs,
    told,      \* <<x, status>>: a sink call for that status returned nil
    hit        \* executions a control store failure has struck

memory == <<pc, bound, lease, cancelled, sink, intent, committed, returned,
            pending, active, readers, term, timer, adapter, canceller>>
store == <<row, log, epoch>>
vars == <<memory, store, revoker, host, faults, downs, told, hit>>

Terminal == {"completed", "canceled", "failed", "platform", "quota", "orphaned"}
Intents == {"completed", "canceled", "ack", "failed", "platform", "quota"}
Threads == {"caller", "revoker", "timer"}
RowOf(i) == IF i = "ack" THEN "canceled" ELSE i

\* executionFailureCode: the caller's code follows its cause, which may be the
\* expired duration quota.
Codes(x, t) ==
    CASE t = "caller" -> IF x \in Timed THEN {"failed", "quota"} ELSE {"failed"}
      [] t = "revoker" -> {"platform"}
      [] t = "timer" -> {"quota"}

IsAsync(x) == Kind[x] # "sync"
Live == {x \in Exec : lease[x] = "live"}
Done(x) == lease[x] # "live"
Cause(x) == cancelled[x] \/ lease[x] = "finished"

Idle == [at |-> "idle", todo |-> {}]

Init ==
    /\ pc = [x \in Exec |-> "idle"]
    /\ bound = [x \in Exec |-> 0]
    /\ lease = [x \in Exec |-> "none"]
    /\ cancelled = [x \in Exec |-> FALSE]
    /\ sink = [x \in Exec |-> FALSE]
    /\ intent = [x \in Exec |-> "none"]
    /\ committed = [x \in Exec |-> FALSE]
    /\ returned = [x \in Exec |-> FALSE]
    /\ pending = {}
    /\ active = 0
    /\ readers = {}
    /\ term = [x \in Exec |-> [t \in Threads |-> "none"]]
    /\ timer = [x \in Exec |-> [duration |-> "off", ack |-> "off"]]
    /\ adapter = [x \in Exec |-> "none"]
    /\ canceller = [x \in Exec |-> "idle"]
    /\ row = [x \in Exec |-> "absent"]
    /\ log = [x \in Exec |-> <<>>]
    /\ epoch = 0
    /\ revoker = Idle
    /\ host = "open"
    /\ faults = 0
    /\ downs = 0
    /\ told = {}
    /\ hit = {}

-----------------------------------------------------------------------------
(* The durable row: pkg/execution/execution.go inside one transaction.     *)

\* Execution.Finish as finishExecution calls it: an equal terminal state is
\* accepted, another one is ErrInvalidTransition, and only a requested
\* cancellation can end as canceled.
FinishAllowed(x, r) ==
    /\ row[x] \notin Terminal
    /\ row[x] # "absent"
    /\ r = "canceled" => row[x] = "cancel_requested"

\* Mutant: any terminal row counts as the one asked for.
FinishOkAny(x, r) == row[x] \in Terminal \/ FinishAllowed(x, r)

FinishOk(x, r) == row[x] = r \/ FinishAllowed(x, r)

FinishTx(x, r) ==
    IF FinishAllowed(x, r)
    THEN /\ row' = [row EXCEPT ![x] = r]
         /\ log' = [log EXCEPT ![x] = Append(@, "terminal")]
    ELSE UNCHANGED <<row, log>>

NoFault == UNCHANGED <<faults, hit>>
Fault(x) ==
    /\ faults < MaxFaults
    /\ faults' = faults + 1
    /\ hit' = hit \cup {x}

-----------------------------------------------------------------------------
(* The lease registry.                                                     *)

\* Mutant: finish without its sync.Once.
ReleaseAgain(x) ==
    /\ lease' = [lease EXCEPT ![x] = "finished"]
    /\ active' = active - 1
    /\ pending' = pending \ {x}
    /\ timer' = [timer EXCEPT ![x] = [duration |-> "off", ack |-> "off"]]
    /\ cancelled' = [cancelled EXCEPT ![x] = TRUE]

\* executionLease.finish, effective once.
Release(x) ==
    IF Done(x)
    THEN UNCHANGED <<lease, active, pending, timer, cancelled>>
    ELSE /\ lease' = [lease EXCEPT ![x] = "finished"]
         /\ active' = active - 1
         /\ pending' = pending \ {x}
         /\ timer' = [timer EXCEPT ![x] = [duration |-> "off", ack |-> "off"]]
         /\ cancelled' = [cancelled EXCEPT ![x] = TRUE]

Keep(x) == UNCHANGED <<lease, active, pending, timer, cancelled>>

\* Mutant: a failed terminal write is not remembered.
MarkPendingNever(x) == Keep(x)

\* markSetupRollbackPending
MarkPending(x) ==
    /\ pending' = IF Done(x) THEN pending ELSE pending \cup {x}
    /\ UNCHANGED <<lease, active, timer, cancelled>>

Conflicts(x, i) == intent[x] \notin {"none", i}

\* hostExecutionSink.finishWithStatus returning nil, whole under s.mu.
FinishWithStatus(x, i) ==
    /\ ~ Conflicts(x, i)
    /\ committed[x] \/ FinishOk(x, RowOf(i))
    /\ intent' = [intent EXCEPT ![x] = i]
    /\ committed' = [committed EXCEPT ![x] = TRUE]
    /\ told' = told \cup {<<x, RowOf(i)>>}
    /\ IF committed[x] THEN Keep(x) /\ UNCHANGED <<row, log>>
       ELSE /\ FinishTx(x, RowOf(i))
            /\ IF Kind[x] = "subscription" /\ ~ returned[x] THEN Keep(x) ELSE Release(x)
    /\ NoFault

\* ... and returning an error: a conflicting intent changes nothing, a refused
\* or failing write leaves the intent and marks the lease for a later rollback.
FinishRefused(x, i) ==
    /\ Conflicts(x, i)
    /\ Keep(x)
    /\ UNCHANGED <<intent, committed, row, log, told>>
    /\ NoFault

FinishFailed(x, i) ==
    /\ ~ Conflicts(x, i)
    /\ ~ committed[x]
    /\ IF FinishOk(x, RowOf(i)) THEN Fault(x) ELSE NoFault
    /\ intent' = [intent EXCEPT ![x] = i]
    /\ MarkPending(x)
    /\ UNCHANGED <<committed, row, log, told>>

FinishErrs(x, i) == FinishRefused(x, i) \/ FinishFailed(x, i)

NoTerm(x, t) == term' = [term EXCEPT ![x][t] = "none"]

\* terminateUnchecked, first half: the row decides which terminal state is
\* written; a terminal row only releases the lease.
TerminateRead(x, t) ==
    /\ term[x][t] = "none"
    /\ row[x] \notin Terminal
    /\ \E r \in IF row[x] = "cancel_requested" THEN {"canceled"} ELSE Codes(x, t) :
          term' = [term EXCEPT ![x][t] = r]
    /\ Keep(x)
    /\ UNCHANGED <<row, log>>
    /\ NoFault

TerminateFound(x, t) ==
    /\ term[x][t] = "none"
    /\ row[x] \in Terminal
    /\ Release(x)
    /\ UNCHANGED <<term, row, log>>
    /\ NoFault

\* ... second half: finishExecution, then the release of the lease.
TerminateWrite(x, t) ==
    /\ term[x][t] # "none"
    /\ FinishOk(x, term[x][t])
    /\ FinishTx(x, term[x][t])
    /\ Release(x)
    /\ NoTerm(x, t)
    /\ NoFault

\* a refused or a failing terminateUnchecked leaves row and lease as they are
TerminateErrs(x, t) ==
    /\ IF term[x][t] # "none" /\ ~ FinishOk(x, term[x][t]) THEN NoFault ELSE Fault(x)
    /\ NoTerm(x, t)
    /\ UNCHANGED <<row, log>>

-----------------------------------------------------------------------------
(* The caller: startMethodExecution, the dispatch, and finish.             *)

Go(x, s) == pc' = [pc EXCEPT ![x] = s]

\* reconcilePendingExecutionSetups: every pending lease of the plugin is
\* failed with the platform's code. A start is refused when one cannot be.
Reconcilable(y) ==
    ~ Conflicts(y, "platform") /\ (committed[y] \/ FinishOk(y, "platform"))

StartRequest(x) ==
    LET good == {y \in pending : Reconcilable(y)}
        free == {y \in good : ~ committed[y] /\ (Kind[y] # "subscription" \/ returned[y])}
    IN
    /\ pc[x] = "idle"
    /\ host # "down"
    /\ bound' = [bound EXCEPT ![x] = epoch]
    /\ intent' = [y \in Exec |-> IF y \in pending /\ ~ Conflicts(y, "platform")
                                 THEN "platform" ELSE intent[y]]
    /\ committed' = [y \in Exec |-> committed[y] \/ y \in good]
    /\ row' = [y \in Exec |-> IF y \in good THEN "platform" ELSE row[y]]
    /\ log' = [y \in Exec |-> IF y \in good /\ row[y] # "platform"
                              THEN Append(log[y], "terminal") ELSE log[y]]
    /\ lease' = [y \in Exec |-> IF y \in free THEN "finished" ELSE lease[y]]
    /\ cancelled' = [y \in Exec |-> cancelled[y] \/ y \in free]
    /\ timer' = [y \in Exec |-> IF y \in free THEN [duration |-> "off", ack |-> "off"] ELSE timer[y]]
    /\ active' = active - Cardinality(free)
    /\ pending' = pending \ free
    /\ Go(x, IF good = pending THEN "reconciled" ELSE "refused")
    /\ UNCHANGED <<sink, returned, readers, term, adapter, canceller, epoch, revoker,
                   host, faults, downs, told, hit>>

\* validateExecutionBinding: record, state and revisions are still those the
\* execution was authorised with.
BindingCurrent(x) == bound[x] = epoch

\* start, first half: the plugin gate is taken for reading (a waiting writer
\* goes first) and the binding is validated against the current record.
StartValidate(x) ==
    /\ pc[x] = "reconciled"
    /\ host = "open"
    /\ revoker.at # "fencing"
    /\ IF BindingCurrent(x)
       THEN Go(x, "validated") /\ readers' = readers \cup {x}
       ELSE Go(x, "refused") /\ UNCHANGED readers
    /\ UNCHANGED <<bound, lease, cancelled, sink, intent, committed, returned, pending,
                   active, term, timer, adapter, canceller, store, revoker, host,
                   faults, downs, told, hit>>

StartClosed(x) ==
    /\ pc[x] = "reconciled"
    /\ host = "closing"
    /\ Go(x, "refused")
    /\ UNCHANGED <<bound, lease, cancelled, sink, intent, committed, returned, pending,
                   active, readers, term, timer, adapter, canceller, store, revoker,
                   host, faults, downs, told, hit>>

\* start, second half: the quota is tested and the lease is registered under
\* r.mu, the gate is released.
QuotaFree(x) == MaxConcurrent = 0 \/ active < MaxConcurrent

StartRegister(x) ==
    /\ pc[x] = "validated"
    /\ readers' = readers \ {x}
    /\ IF QuotaFree(x)
       THEN /\ lease' = [lease EXCEPT ![x] = "live"]
            /\ active' = active + 1
            /\ Go(x, IF IsAsync(x) THEN "leased" ELSE "dispatched")
            /\ timer' = [timer EXCEPT ![x].duration =
                            IF x \in Timed /\ ~ IsAsync(x) THEN "armed" ELSE "off"]
       ELSE Go(x, "refused") /\ UNCHANGED <<lease, active, timer>>
    /\ UNCHANGED <<bound, cancelled, sink, intent, committed, returned, pending,
                   term, adapter, canceller, store, revoker, host, faults, downs, told, hit>>

\* The execution row is created between the two halves of its audit record. A
\* failure of the second half gives the lease up although the row exists.
CreateExecution(x) ==
    /\ pc[x] = "leased"
    /\ \/ /\ row' = [row EXCEPT ![x] = "running"]
          /\ Go(x, "created")
          /\ Keep(x)
          /\ NoFault
       \/ /\ row' \in {row, [row EXCEPT ![x] = "running"]}
          /\ Fault(x)
          /\ Release(x)
          /\ Go(x, "refused")
    /\ UNCHANGED <<bound, sink, intent, committed, returned, readers, term, adapter,
                   canceller, log, epoch, revoker, host, downs, told>>

\* setExecution and armTimeout; the adapter is invoked next.
SetExecution(x) ==
    /\ pc[x] = "created"
    /\ sink' = [sink EXCEPT ![x] = TRUE]
    /\ timer' = [timer EXCEPT ![x].duration = IF x \in Timed THEN "armed" ELSE "off"]
    /\ Go(x, "dispatched")
    /\ UNCHANGED <<bound, lease, cancelled, intent, committed, returned, pending, active,
                   readers, term, adapter, canceller, store, revoker, host, faults, downs, told, hit>>

\* The request of the caller ends before the adapter returns (AfterFunc on the
\* parent context; the context itself for a synchronous method).
ParentCancel(x) ==
    /\ x \in Abandonable
    /\ pc[x] \in {"leased", "created", "dispatched"}
    /\ ~ Cause(x)
    /\ cancelled' = [cancelled EXCEPT ![x] = TRUE]
    /\ UNCHANGED <<pc, bound, lease, sink, intent, committed, returned, pending, active,
                   readers, term, timer, adapter, canceller, store, revoker, host,
                   faults, downs, told, hit>>

\* The adapter returns; finish reads the cause, a subscription marks its
\* dispatch complete, and the next step is chosen.
AfterDispatch(x, success) ==
    CASE Kind[x] = "sync" -> "finish"
      [] success /\ ~ Cause(x) ->
             IF Kind[x] = "operation"
             THEN IF x \in CompleteOnReturn THEN "complete" ELSE "detach"
             ELSE "settle"
      [] OTHER -> IF Kind[x] = "operation" THEN "terminate" ELSE "fail"

DispatchReturns(x) ==
    /\ pc[x] = "dispatched"
    /\ \E success \in BOOLEAN : Go(x, AfterDispatch(x, success))
    /\ returned' = [returned EXCEPT ![x] = Kind[x] = "subscription"]
    /\ UNCHANGED <<bound, lease, cancelled, sink, intent, committed, pending, active,
                   readers, term, timer, adapter, canceller, store, revoker, host,
                   faults, downs, told, hit>>

\* sync: finish; operation that lives on: detachParent
FinishPlain(x) ==
    /\ pc[x] \in {"finish", "detach"}
    /\ IF pc[x] = "finish" THEN Release(x) ELSE Keep(x)
    /\ Go(x, "done")
    /\ UNCHANGED <<bound, sink, intent, committed, returned, readers, term, adapter,
                   canceller, store, revoker, host, faults, downs, told, hit>>

\* sink.Complete by the returning caller: validated first, then finished.
Valid(x) == ~ Done(x) /\ ~ cancelled[x] /\ BindingCurrent(x)

FinishComplete(x) ==
    /\ pc[x] \in {"complete", "completing"}
    /\ \/ /\ pc[x] = "complete"
          /\ Go(x, IF Valid(x) THEN "completing" ELSE "erred")
          /\ Keep(x)
          /\ NoFault
          /\ UNCHANGED <<intent, committed, row, log, told>>
       \/ /\ pc[x] = "completing"
          /\ \/ FinishWithStatus(x, "completed") /\ Go(x, "done")
             \/ FinishErrs(x, "completed") /\ Go(x, "erred")
    /\ UNCHANGED <<bound, sink, returned, readers, term, adapter, canceller, epoch,
                   revoker, host, downs>>

\* A subscription after a successful return: a terminal sink releases the
\* lease, a worker's stream is completed, another one lives on.
FinishSettle(x) ==
    /\ pc[x] = "settle"
    /\ \/ /\ committed[x]
          /\ Go(x, "done")
          /\ Release(x)
          /\ NoFault
          /\ UNCHANGED <<intent, committed, row, log, told>>
       \/ /\ ~ committed[x]
          /\ x \in CompleteOnReturn
          /\ \/ FinishWithStatus(x, "completed") /\ Go(x, "done")
             \/ FinishErrs(x, "completed") /\ Go(x, "erred")
       \/ /\ ~ committed[x]
          /\ x \notin CompleteOnReturn
          /\ Go(x, "done")
          /\ Keep(x)
          /\ NoFault
          /\ UNCHANGED <<intent, committed, row, log, told>>
    /\ UNCHANGED <<bound, sink, returned, readers, term, adapter, canceller, epoch,
                   revoker, host, downs>>

\* A subscription after a failed return: failCauseUnchecked, and only its
\* success is followed by the release of the lease.
FinishFail(x) ==
    /\ pc[x] = "fail"
    /\ \E i \in Codes(x, "caller") :
          \/ ~ committed[x] /\ FinishWithStatus(x, i) /\ Go(x, "done")
          \/ /\ committed[x] /\ intent[x] = i
             /\ Release(x)
             /\ Go(x, "done")
             /\ NoFault
             /\ UNCHANGED <<intent, committed, row, log, told>>
          \/ FinishErrs(x, i) /\ Go(x, "erred")
    /\ UNCHANGED <<bound, sink, returned, readers, term, adapter, canceller, epoch,
                   revoker, host, downs>>

\* An operation after a failed return, or after its cause was set.
FinishTerminate(x) ==
    /\ pc[x] = "terminate"
    /\ \/ TerminateRead(x, "caller") /\ UNCHANGED pc
       \/ (TerminateFound(x, "caller") \/ TerminateWrite(x, "caller")) /\ Go(x, "done")
       \/ TerminateErrs(x, "caller") /\ Keep(x) /\ Go(x, "erred")
    /\ UNCHANGED <<bound, sink, intent, committed, returned, readers, adapter, canceller,
                   epoch, revoker, host, downs, told>>

-----------------------------------------------------------------------------
(* The adapter, from its invocation on.                                    *)

Held(x) == pc[x] \in {"dispatched", "finish", "detach", "complete", "completing",
                      "settle", "fail", "terminate", "done", "erred"} /\ row[x] # "absent"

\* ReportProgress, Append, Complete and Fail validate the lease first; Cancel
\* asks that it is not done and that the row has a requested cancellation.
AdapterCalls(x) ==
    /\ Held(x)
    /\ adapter[x] = "none"
    /\ \E call \in {"append", "completed", "failed", "canceled"} :
          /\ IF call = "canceled" THEN ~ Done(x) /\ row[x] = "cancel_requested" ELSE Valid(x)
          /\ call = "append" => Len(log[x]) < MaxEvents
          /\ adapter' = [adapter EXCEPT ![x] = call]
    /\ UNCHANGED <<pc, bound, lease, cancelled, sink, intent, committed, returned, pending,
                   active, readers, term, timer, canceller, store, revoker, host,
                   faults, downs, told, hit>>

\* appendEvent: refused once a terminal intent is chosen (subscriptions) or
\* the row is terminal.
AdapterAppends(x) ==
    /\ adapter[x] = "append"
    /\ adapter' = [adapter EXCEPT ![x] = "none"]
    /\ LET open == (Kind[x] = "subscription" => intent[x] = "none") /\ row[x] \notin Terminal
       IN  log' = IF open THEN [log EXCEPT ![x] = Append(@, "event")] ELSE log
    /\ UNCHANGED <<pc, bound, lease, cancelled, sink, intent, committed, returned, pending,
                   active, readers, term, timer, canceller, row, epoch, revoker, host,
                   faults, downs, told, hit>>

AdapterFinishes(x) ==
    /\ adapter[x] \in {"completed", "failed", "canceled"}
    /\ FinishWithStatus(x, adapter[x]) \/ FinishErrs(x, adapter[x])
    /\ adapter' = [adapter EXCEPT ![x] = "none"]
    /\ UNCHANGED <<pc, bound, sink, returned, readers, term, canceller, epoch, revoker,
                   host, downs>>

-----------------------------------------------------------------------------
(* Cancellation, timers.                                                   *)

\* cancelExecution up to the commit of cancel_requested. A call that finds the
\* row already requested returns; one whose second read fails returns an error.
CancelRequest(x) ==
    /\ host = "open"
    /\ \/ /\ row[x] = "running"
          /\ canceller[x] = "idle"
          /\ row' = [row EXCEPT ![x] = "cancel_requested"]
          /\ \/ NoFault /\ canceller' = [canceller EXCEPT ![x] = "requested"]
             \/ Fault(x) /\ UNCHANGED canceller
       \/ /\ row[x] = "cancel_requested"
          /\ NoFault
          /\ UNCHANGED <<row, canceller>>
    /\ UNCHANGED <<pc, bound, lease, cancelled, sink, intent, committed, returned, pending,
                   active, readers, term, timer, adapter, log, epoch, revoker, host, downs, told>>

\* cancelOperation: the live lease is signalled and its timer armed.
CancelDispatch(x) ==
    /\ canceller[x] = "requested"
    /\ canceller' = [canceller EXCEPT ![x] = "idle"]
    /\ IF sink[x] /\ ~ Done(x)
       THEN /\ cancelled' = [cancelled EXCEPT ![x] = TRUE]
            /\ timer' = [timer EXCEPT ![x].ack = IF host = "open" THEN "armed" ELSE "off"]
       ELSE UNCHANGED <<cancelled, timer>>
    /\ UNCHANGED <<pc, bound, lease, sink, intent, committed, returned, pending, active,
                   readers, term, adapter, store, revoker, host, faults, downs, told, hit>>

\* Mutant: the timer gives the lease up without ending the execution.
AckTimeoutReleases(x) ==
    /\ timer[x].ack = "armed"
    /\ Release(x)
    /\ NoFault
    /\ UNCHANGED <<pc, bound, sink, returned, readers, term, adapter, canceller, epoch,
                   revoker, host, downs, intent, committed, row, log, told>>

\* The acknowledgement timer; an error gives the lease up.
AckTimeout(x) ==
    /\ timer[x].ack = "armed"
    /\ \/ FinishWithStatus(x, "ack")
       \/ /\ Conflicts(x, "ack")
          /\ Release(x)
          /\ NoFault
          /\ UNCHANGED <<intent, committed, row, log, told>>
       \/ /\ ~ Conflicts(x, "ack") /\ ~ committed[x]
          /\ IF FinishOk(x, "canceled") THEN Fault(x) ELSE NoFault
          /\ intent' = [intent EXCEPT ![x] = "ack"]
          /\ Release(x)
          /\ UNCHANGED <<committed, row, log, told>>
    /\ UNCHANGED <<pc, bound, sink, returned, readers, term, adapter, canceller, epoch,
                   revoker, host, downs>>

\* The duration timer: the lease is cancelled, the row terminated, and the
\* lease given up in every case.
DurationExpires(x) ==
    /\ timer[x].duration = "armed"
    /\ cancelled' = [cancelled EXCEPT ![x] = TRUE]
    /\ timer' = [timer EXCEPT ![x].duration = "fired"]
    /\ UNCHANGED <<pc, bound, lease, sink, intent, committed, returned, pending, active,
                   readers, term, adapter, canceller, store, revoker, host,
                   faults, downs, told, hit>>

DurationTerminates(x) ==
    /\ timer[x].duration = "fired"
    /\ \/ sink[x] /\ TerminateRead(x, "timer")
       \/ sink[x] /\ (TerminateFound(x, "timer") \/ TerminateWrite(x, "timer"))
       \/ sink[x] /\ TerminateErrs(x, "timer") /\ Release(x)
       \/ ~ sink[x] /\ Release(x) /\ NoFault /\ UNCHANGED <<term, row, log>>
    /\ UNCHANGED <<pc, bound, sink, intent, committed, returned, readers, adapter,
                   canceller, epoch, revoker, host, downs, told>>

-----------------------------------------------------------------------------
(* The lifecycle operation: the record's revision moves, then              *)
(* revokePluginRuntimeCapabilities cancels and reconciles.                 *)

RevisionMoves ==
    /\ revoker.at = "idle"
    /\ host = "open"
    /\ epoch < MaxEpoch
    /\ epoch' = epoch + 1
    /\ revoker' = [at |-> "fencing", todo |-> {}]
    /\ UNCHANGED <<memory, row, log, host, faults, downs, told, hit>>

\* Mutant: the leases are collected without the gate.
CancelPluginUngated ==
    /\ revoker.at = "fencing"
    /\ cancelled' = [x \in Exec |-> cancelled[x] \/ x \in Live]
    /\ revoker' = [at |-> "reconciling", todo |-> Live]
    /\ UNCHANGED <<pc, bound, lease, sink, intent, committed, returned, pending, active,
                   readers, term, timer, adapter, canceller, store, host, faults, downs, told, hit>>

\* cancelPlugin: under the gate held for writing every lease of the plugin is
\* collected and signalled.
CancelPlugin ==
    /\ revoker.at = "fencing"
    /\ readers = {}
    /\ cancelled' = [x \in Exec |-> cancelled[x] \/ x \in Live]
    /\ revoker' = [at |-> "reconciling", todo |-> Live]
    /\ UNCHANGED <<pc, bound, lease, sink, intent, committed, returned, pending, active,
                   readers, term, timer, adapter, canceller, store, host, faults, downs, told, hit>>

\* reconcileRevokedExecutions: one lease after the other; a lease without a
\* sink is left to its caller, a failing one is marked for a rollback.
Settled(x) == revoker' = [revoker EXCEPT !.todo = @ \ {x}]

ReconcileRevoked(x) ==
    /\ revoker.at = "reconciling"
    /\ x \in revoker.todo
    /\ \/ sink[x] /\ TerminateRead(x, "revoker") /\ UNCHANGED revoker
       \/ sink[x] /\ (TerminateFound(x, "revoker") \/ TerminateWrite(x, "revoker")) /\ Settled(x)
       \/ sink[x] /\ TerminateErrs(x, "revoker") /\ MarkPending(x) /\ Settled(x)
       \/ ~ sink[x] /\ Settled(x) /\ Keep(x) /\ NoFault /\ UNCHANGED <<term, row, log>>
    /\ UNCHANGED <<pc, bound, sink, intent, committed, returned, readers, adapter,
                   canceller, epoch, host, downs, told>>

RevokeReturns ==
    /\ revoker.at = "reconciling"
    /\ revoker.todo = {}
    /\ revoker' = Idle
    /\ UNCHANGED <<memory, store, host, faults, downs, told, hit>>

-----------------------------------------------------------------------------
(* The Host process.                                                       *)

\* Host.Close: under the lifecycle lock (no start between its lease and its
\* sink) every lease is cancelled; finishAll then drops them all, and no
\* timer job survives.
InSetup(x) == pc[x] \in {"validated", "leased", "created"}

Close ==
    /\ host = "open"
    /\ downs < MaxDowns
    /\ \A x \in Exec : ~ InSetup(x)
    /\ host' = "closing"
    /\ downs' = downs + 1
    /\ cancelled' = [x \in Exec |-> cancelled[x] \/ x \in Live]
    /\ timer' = [x \in Exec |-> [duration |-> "off", ack |-> "off"]]
    /\ term' = [x \in Exec |-> [term[x] EXCEPT !["timer"] = "none"]]
    /\ UNCHANGED <<pc, bound, lease, sink, intent, committed, returned, pending, active,
                   readers, adapter, canceller, store, revoker, faults, told, hit>>

FinishAll ==
    /\ host = "closing"
    /\ Live # {}
    /\ lease' = [x \in Exec |-> IF x \in Live THEN "finished" ELSE lease[x]]
    /\ active' = active - Cardinality(Live)
    /\ pending' = {}
    /\ UNCHANGED <<pc, bound, cancelled, sink, intent, committed, returned, readers, term,
                   timer, adapter, canceller, store, revoker, host, faults, downs, told, hit>>

\* The process ends: after Close, or by a crash at any moment.
ProcessEnds ==
    /\ \/ host = "closing" /\ Live = {} /\ UNCHANGED downs
       \/ host = "open" /\ downs < MaxDowns /\ downs' = downs + 1
    /\ host' = "down"
    /\ pc' = [x \in Exec |-> IF pc[x] = "idle" THEN "idle" ELSE "done"]
    /\ lease' = [x \in Exec |-> IF pc[x] = "idle" THEN "none" ELSE "finished"]
    /\ cancelled' = [x \in Exec |-> pc[x] # "idle"]
    /\ sink' = [x \in Exec |-> FALSE]
    /\ intent' = [x \in Exec |-> "none"]
    /\ committed' = [x \in Exec |-> FALSE]
    /\ returned' = [x \in Exec |-> FALSE]
    /\ pending' = {}
    /\ active' = 0
    /\ readers' = {}
    /\ term' = [x \in Exec |-> [t \in Threads |-> "none"]]
    /\ timer' = [x \in Exec |-> [duration |-> "off", ack |-> "off"]]
    /\ adapter' = [x \in Exec |-> "none"]
    /\ canceller' = [x \in Exec |-> "idle"]
    /\ revoker' = Idle
    /\ UNCHANGED <<bound, store, faults, told, hit>>

\* reconcileDurableExecutionStates at the next start: ReconcileOrphans in one
\* transaction.
Open(x) == row[x] \in {"running", "cancel_requested"}

Restart ==
    /\ host = "down"
    /\ host' = "open"
    /\ row' = [x \in Exec |-> CASE row[x] = "running" -> "orphaned"
                                [] row[x] = "cancel_requested" -> "canceled"
                                [] OTHER -> row[x]]
    /\ log' = [x \in Exec |-> IF Open(x) THEN Append(log[x], "terminal") ELSE log[x]]
    /\ UNCHANGED <<memory, epoch, revoker, faults, downs, told, hit>>

-----------------------------------------------------------------------------
Start(x) == StartRequest(x) \/ StartValidate(x) \/ StartClosed(x) \/ StartRegister(x)
            \/ CreateExecution(x) \/ SetExecution(x)
Finish(x) == FinishPlain(x) \/ FinishComplete(x) \/ FinishSettle(x) \/ FinishFail(x)
             \/ FinishTerminate(x)
Adapter(x) == AdapterCalls(x) \/ AdapterAppends(x) \/ AdapterFinishes(x)
Timers(x) == AckTimeout(x) \/ DurationExpires(x) \/ DurationTerminates(x)

Next ==
    \/ \E x \in Exec :
          \/ Start(x) \/ ParentCancel(x) \/ DispatchReturns(x) \/ Finish(x)
          \/ Adapter(x) \/ CancelRequest(x) \/ CancelDispatch(x) \/ Timers(x)
          \/ ReconcileRevoked(x)
    \/ RevisionMoves \/ CancelPlugin \/ RevokeReturns
    \/ Close \/ FinishAll \/ ProcessEnds \/ Restart

Spec == Init /\ [][Next]_vars

\* The Host runs its own code: setup, finish, cancellation, timers that are
\* armed, revocation and restart go on. The adapter need not return or call.
Fairness ==
    /\ \A x \in Exec :
          /\ WF_vars(Start(x) /\ pc[x] # "idle")
          /\ WF_vars(Finish(x))
          /\ WF_vars(CancelDispatch(x))
          /\ WF_vars(Timers(x))
          /\ WF_vars(ReconcileRevoked(x))
    /\ WF_vars(CancelPlugin)
    /\ WF_vars(RevokeReturns)
    /\ WF_vars(FinishAll)
    /\ WF_vars(ProcessEnds /\ host = "closing")
    /\ WF_vars(Restart)

FairSpec == Spec /\ Fairness

-----------------------------------------------------------------------------
TypeOK ==
    /\ pc \in [Exec -> {"idle", "reconciled", "validated", "refused", "leased", "created",
                        "dispatched", "finish", "detach", "complete", "completing",
                        "settle", "fail", "terminate", "done", "erred"}]
    /\ bound \in [Exec -> 0..MaxEpoch]
    /\ lease \in [Exec -> {"none", "live", "finished"}]
    /\ {cancelled, sink, committed, returned} \subseteq [Exec -> BOOLEAN]
    /\ intent \in [Exec -> Intents \cup {"none"}]
    /\ pending \cup readers \cup hit \cup revoker.todo \subseteq Exec
    /\ active \in 0..Cardinality(Exec)
    /\ term \in [Exec -> [Threads -> {"none", "canceled", "failed", "platform", "quota"}]]
    /\ timer \in [Exec -> [duration : {"off", "armed", "fired"}, ack : {"off", "armed"}]]
    /\ adapter \in [Exec -> {"none", "append", "completed", "failed", "canceled"}]
    /\ canceller \in [Exec -> {"idle", "requested"}]
    /\ row \in [Exec -> {"absent", "running", "cancel_requested"} \cup Terminal]
    /\ \A x \in Exec : log[x] \in Seq({"event", "terminal"})
    /\ epoch \in 0..MaxEpoch
    /\ revoker.at \in {"idle", "fencing", "reconciling"}
    /\ host \in {"open", "closing", "down"}
    /\ faults \in 0..MaxFaults /\ downs \in 0..MaxDowns

\* An execution's log ends with its terminal event, holds no other one, and
\* has it exactly when the status is terminal (Finish: status and last event
\* in one transaction; Append refused on a terminal row).
LogSound ==
    \A x \in Exec :
        LET ends == {i \in DOMAIN log[x] : log[x][i] = "terminal"}
        IN  ends = IF row[x] \in Terminal THEN {Len(log[x])} ELSE {}

\* A sink call that returned nil for a terminal status told the truth: the row
\* has that status, whatever the revoker, the timers or a restart did.
ToldTruth ==
    \A x \in Exec : \A s \in Terminal : <<x, s>> \in told => row[x] = s

\* The quota counter of the method is the number of live leases, and no more
\* run at once than the quota grants.
QuotaExact ==
    /\ active = Cardinality(Live)
    /\ MaxConcurrent > 0 => active <= MaxConcurrent

\* Once a revocation has returned, no lease taken under an earlier revision is
\* still uncancelled, and its row is terminal unless its caller is still to
\* finish it or the control store failed on it (lockPlugin against start,
\* reconcileRevokedExecutions).
CallerWillFinish(x) == pc[x] \in {"leased", "created", "dispatched", "terminate", "fail"}

RevokedStops ==
    host = "open" /\ revoker.at = "idle" =>
        \A x \in Exec : bound[x] < epoch =>
            /\ x \in Live => cancelled[x]
            /\ Open(x) => CallerWillFinish(x) \/ x \in hit

\* A row that is not terminal has a live lease, so that somebody can end it,
\* or the control store failed on it; a Host that is down reconciles first.
RowOwned ==
    host = "open" => \A x \in Exec : Open(x) => x \in Live \/ x \in hit

\* A finished caller leaves no lease behind a terminal row. The one exception:
\* a subscription that reached its terminal state during a dispatch that then
\* failed; finish returns the conflict without releasing the lease.
Quiet(x) ==
    /\ pc[x] \in {"done", "erred"} /\ adapter[x] = "none" /\ timer[x].duration # "fired"
    /\ revoker.at = "idle" /\ x \notin hit

FailedAfterEnd(x) == Kind[x] = "subscription" /\ committed[x] /\ pc[x] = "erred"

NoLeaseLeft ==
    \A x \in Exec :
        Quiet(x) /\ row[x] \in Terminal /\ host = "open" => Done(x) \/ FailedAfterEnd(x)

\* A live lease whose terminal intent is not committed is queued for the
\* rollback the next start of the plugin makes (finishWithStatus on an error).
PendingKept ==
    host = "open" =>
        \A x \in Live : intent[x] # "none" /\ ~ committed[x] => x \in pending

\* A signalled cancellation ends, with or without the adapter's help: the
\* acknowledgement timer sees to it.
Ended(x) == row[x] \in Terminal

CancelEnds ==
    \A x \in Exec : timer[x].ack = "armed" ~> Ended(x)

\* "The Host marks the execution `cancel_requested`, ... and signals the live
\* execution lease": a recorded cancellation of a live lease is followed by its
\* signal, or by the execution's end.
CancelSignals ==
    \A x \in Exec :
        (row[x] = "cancel_requested" /\ x \in Live) ~> (Cause(x) \/ row[x] \in Terminal)

=============================================================================
