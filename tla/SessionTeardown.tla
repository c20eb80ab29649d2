--------------------------- MODULE SessionTeardown ---------------------------
(***************************************************************************)
(* The two-stage shutdown of one session scope by the Host: the teardown   *)
(* that revokes every class of resource the session holds, phase by phase, *)
(* and the finalisation that removes the durable fence.  Every step may    *)
(* fail, the Host may crash between any two, and startup takes up the      *)
(* teardown that was left.                                                 *)
(*                                                                         *)
(* The coordinator's gate is the one SessionScopeCoordinator describes;    *)
(* here an action is admitted exactly when no teardown holds the gate and  *)
(* no fence stands.  The per-scope maintenance lock (module KeyedLock)     *)
(* makes one maintenance call run at a time, so one program counter is     *)
(* enough.                                                                 *)
(***************************************************************************)
EXTENDS Integers, FiniteSets, FiniteSetTheorems, TLAPS

CONSTANTS Exec,      \* executions the session may start
          MaxHeld    \* resources of one class the session may hold

VARIABLES
  fence,       \* durable: state of the session control record, or "none"
  recorded,    \* durable: the count each teardown phase has recorded
  ledger,      \* durable: count the confirmation store remembers revoking
  confirms,    \* durable: pending confirmation intents of the session
  mode,        \* "up", "starting" (startup reconciliation) or "down"
  admitted,    \* admitted session actions in flight
  artifacts, connections, bridge,   \* resources of the session, by class
  execs,       \* state of each execution lease
  io,          \* executions registered with the runtime I/O broker
  sent,        \* invocations written to the runtime and not yet read by it
  workers,     \* invocations the runtime runs
  runtimeRec,  \* the runtime's revocation record for the scope
  pc,          \* next step of the maintenance call in progress, or "idle"
  call,        \* the maintenance call: "revoke", "finalize" or "startup"
  plan,        \* count the call took before or while revoking
  live,        \* execution leases the call saw
  removed      \* history: confirmation intents this teardown deleted

durable == <<fence, recorded, ledger, confirms>>
session == <<artifacts, connections, bridge>>
runtime == <<execs, io, sent, workers, runtimeRec>>
control == <<pc, call, plan, live>>
vars == <<durable, mode, admitted, session, runtime, control, removed>>

Phase == {"bridge", "confirmation", "execution", "runtime"}
None == -1
Count == 0..MaxHeld
FenceState == {"none", "draining", "incomplete", "complete"}
ExecState == {"none", "live", "canceled"}
Step == {"idle", "inspect", "begin", "artifacts", "connections", "preview",
         "countBridge", "revokeBridge", "revokeConfirmations",
         "countConfirmations", "snapshot", "countExecutions", "cancel",
         "revokeIO", "revokeRuntime", "countRuntime", "finish", "complete",
         "incomplete", "endTeardown", "checkComplete", "finalArtifacts",
         "finalLedger", "finalFence"}
\* Steps during which the teardown handle holds the coordinator's gate.
Holding == {"artifacts", "connections", "preview", "countBridge",
            "revokeBridge", "revokeConfirmations", "countConfirmations",
            "snapshot", "countExecutions", "cancel", "revokeIO",
            "revokeRuntime", "countRuntime", "finish", "complete",
            "incomplete", "endTeardown"}

Nothing == [p \in Phase |-> None]
Leases == {e \in Exec : execs[e] # "none"}

TypeOK ==
  /\ fence \in FenceState
  /\ recorded \in [Phase -> {None} \cup 0..(MaxHeld + Cardinality(Exec))]
  /\ ledger \in {None} \cup Count /\ confirms \in Count
  /\ mode \in {"up", "starting", "down"} /\ admitted \in 0..1
  /\ artifacts \in Count /\ connections \in Count /\ bridge \in Count
  /\ execs \in [Exec -> ExecState]
  /\ io \subseteq Exec /\ sent \subseteq Exec /\ workers \subseteq Exec
  /\ runtimeRec \in {None} \cup 0..Cardinality(Exec)
  /\ pc \in Step /\ call \in {"revoke", "finalize", "startup"}
  /\ plan \in 0..(MaxHeld + Cardinality(Exec)) /\ live \subseteq Exec
  /\ removed \in Count

Init ==
  /\ fence = "none" /\ recorded = Nothing /\ ledger = None /\ confirms = 0
  /\ mode = "up" /\ admitted = 0
  /\ artifacts = 0 /\ connections = 0 /\ bridge = 0
  /\ execs = [e \in Exec |-> "none"]
  /\ io = {} /\ sent = {} /\ workers = {} /\ runtimeRec = None
  /\ pc = "idle" /\ call = "revoke" /\ plan = 0 /\ live = {}
  /\ removed = 0

-----------------------------------------------------------------------------
(* What an admitted action of the session does.                            *)

Admit ==
  /\ mode = "up" /\ fence = "none" /\ pc \notin Holding /\ admitted = 0
  /\ admitted' = 1
  /\ UNCHANGED <<durable, mode, session, runtime, control, removed>>

Leave ==
  /\ admitted = 1
  /\ admitted' = 0
  /\ UNCHANGED <<durable, mode, session, runtime, control, removed>>

Inspect ==
  /\ admitted = 1 /\ artifacts < MaxHeld
  /\ artifacts' = artifacts + 1
  /\ UNCHANGED <<durable, mode, admitted, connections, bridge, runtime, control,
                 removed>>

Connect ==
  /\ admitted = 1 /\ connections < MaxHeld
  /\ connections' = connections + 1
  /\ UNCHANGED <<durable, mode, admitted, artifacts, bridge, runtime, control,
                 removed>>

OpenSurface ==
  /\ admitted = 1 /\ bridge < MaxHeld
  /\ bridge' = bridge + 1
  /\ UNCHANGED <<durable, mode, admitted, artifacts, connections, runtime, control,
                 removed>>

PrepareConfirmation ==
  /\ admitted = 1 /\ confirms < MaxHeld
  /\ confirms' = confirms + 1
  /\ UNCHANGED <<fence, recorded, ledger, mode, admitted, session, runtime, control,
                 removed>>

StartExecution(e) ==
  /\ admitted = 1 /\ execs[e] = "none" /\ e \notin io \cup sent \cup workers
  /\ execs' = [execs EXCEPT ![e] = "live"]
  /\ UNCHANGED <<durable, mode, admitted, session, io, sent, workers, runtimeRec,
                 control, removed>>

-----------------------------------------------------------------------------
(* An execution outlives the action that started it: its dispatch goes on  *)
(* by itself until it ends or its context is cancelled.                    *)

\* runtimeIO.register refuses a context that is already done.
RegisterIO(e) ==
  /\ execs[e] = "live" /\ e \notin io
  /\ io' = io \cup {e}
  /\ UNCHANGED <<durable, mode, admitted, session, execs, sent, workers, runtimeRec,
                 control, removed>>

\* InvokeWorker refuses a context that is already done; the frame it writes is
\* read by the runtime later.
InvokeWorker(e) ==
  /\ execs[e] = "live" /\ e \in io /\ e \notin sent \cup workers
  /\ sent' = sent \cup {e}
  /\ UNCHANGED <<durable, mode, admitted, session, execs, io, workers, runtimeRec,
                 control, removed>>

\* The scheduler refuses an invocation of a scope it has a record for.
Enqueue(e) ==
  /\ e \in sent
  /\ sent' = sent \ {e}
  /\ workers' = IF runtimeRec = None THEN workers \cup {e} ELSE workers
  /\ UNCHANGED <<durable, mode, admitted, session, execs, io, runtimeRec, control,
                 removed>>

WorkerEnds(e) ==
  /\ e \in workers
  /\ workers' = workers \ {e}
  /\ UNCHANGED <<durable, mode, admitted, session, execs, io, sent, runtimeRec,
                 control, removed>>

\* The dispatch returns: it releases its I/O registration and its lease.  A
\* cancelled call may return while its frame is still on its way.
DispatchEnds(e) ==
  /\ execs[e] # "none" \/ e \in io
  /\ execs[e] = "canceled" \/ e \notin sent \cup workers
  /\ execs' = [execs EXCEPT ![e] = "none"]
  /\ io' = io \ {e}
  /\ UNCHANGED <<durable, mode, admitted, session, sent, workers, runtimeRec, control,
                 removed>>


-----------------------------------------------------------------------------
(* The teardown, revokeAuthenticatedSessionScope, one action per step that *)
(* changes state or may fail.  A failure goes to "incomplete".  The error  *)
(* of a COMMIT is returned as it is, so a transaction that failed may have *)
(* been applied.                                                           *)

At(step) == pc = step /\ mode # "down"

Goto(step) == pc' = step /\ UNCHANGED call

\* The call returns.  Startup goes on to finalise a completed teardown, and
\* does not serve when the call failed.
Return(ok) ==
  /\ pc' = "idle" /\ plan' = 0 /\ live' = {} /\ UNCHANGED call
  /\ mode' = IF call # "startup" THEN mode ELSE IF ok THEN "up" ELSE "down"

StartRevoke ==
  /\ pc = "idle" /\ mode = "up"
  /\ pc' = "begin" /\ call' = "revoke"
  /\ UNCHANGED <<durable, mode, admitted, session, runtime, plan, live, removed>>

\* ResumeClosedSessionScopeTeardown takes up only a fence that stands and is not
\* complete.
StartResume ==
  /\ pc = "idle" /\ mode = "up" /\ fence \in {"draining", "incomplete"}
  /\ pc' = "begin" /\ call' = "revoke"
  /\ UNCHANGED <<durable, mode, admitted, session, runtime, plan, live, removed>>

\* Mutant: a completed teardown is started over.
StoreBeginAnew == "draining"

StoreBegin == IF fence = "complete" THEN "complete" ELSE "draining"

BeginTeardown ==
  /\ At("begin") /\ admitted = 0
  /\ fence' = StoreBegin
  /\ removed' = IF fence = "none" THEN 0 ELSE removed
  /\ \/ Goto("artifacts") /\ UNCHANGED <<mode, plan, live>>
     \/ Return(FALSE)
  /\ UNCHANGED <<recorded, ledger, confirms, admitted, session, runtime>>

BeginFails ==
  /\ At("begin") /\ Return(FALSE)
  /\ UNCHANGED <<durable, admitted, session, runtime, removed>>

CleanArtifacts ==
  /\ At("artifacts")
  /\ \/ artifacts' = 0 /\ Goto("connections")
     \/ UNCHANGED artifacts /\ Goto("incomplete")
  /\ UNCHANGED <<durable, mode, admitted, connections, bridge, runtime, plan, live,
                 removed>>

RevokeConnections ==
  /\ At("connections")
  /\ connections' = 0
  /\ Goto(IF fence = "complete" THEN "endTeardown" ELSE "preview")
  /\ UNCHANGED <<durable, mode, admitted, artifacts, bridge, runtime, plan, live,
                 removed>>

PreviewBridge ==
  /\ At("preview")
  /\ \/ plan' = bridge /\ Goto("countBridge")
     \/ UNCHANGED plan /\ Goto("incomplete")
  /\ UNCHANGED <<durable, mode, admitted, session, runtime, live, removed>>

\* AccumulatePhase: one transaction that leaves an already recorded phase alone.
RecordPhase(p, n) ==
  recorded' = [recorded EXCEPT ![p] = IF @ = None THEN n ELSE @]

\* Record the phase and go on, or fail, whether or not it was recorded.
Accumulate(at, p, n, next) ==
  /\ At(at)
  /\ \/ fence = "draining" /\ RecordPhase(p, n) /\ (Goto(next) \/ Goto("incomplete"))
     \/ UNCHANGED recorded /\ Goto("incomplete")
  /\ UNCHANGED <<fence, ledger, confirms, mode, admitted, session, runtime, plan, live,
                 removed>>

CountBridge == Accumulate("countBridge", "bridge", plan, "revokeBridge")

\* RevokeSessionScope of the token service, compared with the preview, and
\* removeWebSurfaces.
RevokeBridge ==
  /\ At("revokeBridge")
  /\ bridge' = 0
  /\ Goto(IF bridge = plan THEN "revokeConfirmations" ELSE "incomplete")
  /\ UNCHANGED <<durable, mode, admitted, artifacts, connections, runtime, plan, live,
                 removed>>

\* Mutant: no ledger of what an earlier attempt revoked.
StoreRevokeConfirmationsAnew ==
  /\ plan' = confirms /\ ledger' = confirms /\ confirms' = 0
  /\ removed' = removed + confirms

\* The confirmation store's transaction: an operation the ledger knows returns
\* the count it returned before and deletes nothing.
StoreRevokeConfirmations ==
  IF ledger # None
  THEN plan' = ledger /\ UNCHANGED <<ledger, confirms, removed>>
  ELSE /\ plan' = confirms /\ ledger' = confirms /\ confirms' = 0
       /\ removed' = removed + confirms

RevokeConfirmations ==
  /\ At("revokeConfirmations")
  /\ \/ StoreRevokeConfirmations /\ (Goto("countConfirmations") \/ Goto("incomplete"))
     \/ UNCHANGED <<ledger, confirms, plan, removed>> /\ Goto("incomplete")
  /\ UNCHANGED <<fence, recorded, mode, admitted, session, runtime, live>>

CountConfirmations ==
  Accumulate("countConfirmations", "confirmation", plan, "snapshot")

SnapshotExecutions ==
  /\ At("snapshot")
  /\ live' = Leases
  /\ Goto("countExecutions")
  /\ UNCHANGED <<durable, mode, admitted, session, runtime, plan, removed>>

CountExecutions ==
  Accumulate("countExecutions", "execution", Cardinality(live), "cancel")

\* Mutant: cancellation forgotten.
CanceledNot(s) == [e \in Exec |-> IF e \in s THEN execs[e] ELSE execs[e]]

\* requestCancel on every lease of the snapshot: its context is done.
Canceled(s) ==
  [e \in Exec |-> IF e \in s /\ execs[e] = "live" THEN "canceled" ELSE execs[e]]

CancelExecutions ==
  /\ At("cancel")
  /\ execs' = Canceled(live)
  /\ Goto("revokeIO")
  /\ UNCHANGED <<durable, mode, admitted, session, io, sent, workers, runtimeRec, plan,
                 live, removed>>

\* revokeMatching forgets every registration of the scope; closing what they
\* held may fail.
RevokeIO ==
  /\ At("revokeIO")
  /\ io' = {}
  /\ \/ Goto("revokeRuntime") \/ Goto("incomplete")
  /\ UNCHANGED <<durable, mode, admitted, session, execs, sent, workers, runtimeRec,
                 plan, live, removed>>

StopRuntime == sent' = {} /\ workers' = {} /\ runtimeRec' = None


\* ProcessManager.RevokeSession: the runtime keeps a record for the operation,
\* refuses the scope from then on and waits for what runs; a repeated operation
\* gets the recorded count.  A shard that is not ready is stopped instead, and a
\* failure stops them all, unless that fails too.
RevokeRuntime ==
  /\ At("revokeRuntime")
  /\ \/ /\ runtimeRec' = IF runtimeRec = None THEN Cardinality(workers) ELSE runtimeRec
        /\ workers' = {} /\ UNCHANGED sent
        /\ plan' = runtimeRec' /\ Goto("countRuntime")
     \/ StopRuntime /\ plan' = 0 /\ Goto("countRuntime")
     \/ StopRuntime /\ UNCHANGED plan /\ Goto("incomplete")
     \/ UNCHANGED <<sent, workers, runtimeRec, plan>> /\ Goto("incomplete")
  /\ UNCHANGED <<durable, mode, admitted, session, execs, io, live, removed>>

CountRuntime == Accumulate("countRuntime", "runtime", plan, "finish")

\* reconcileRevokedExecutions and finish on every lease of the snapshot.
FinishExecutions ==
  /\ At("finish")
  /\ execs' = [e \in Exec |-> IF e \in live THEN "none" ELSE execs[e]]
  /\ Goto("complete")
  /\ UNCHANGED <<durable, mode, admitted, session, io, sent, workers, runtimeRec, plan,
                 live, removed>>

MarkComplete ==
  /\ At("complete")
  /\ \/ fence' = "complete" /\ (Goto("endTeardown") \/ Goto("incomplete"))
     \/ UNCHANGED fence /\ Goto("incomplete")
  /\ UNCHANGED <<recorded, ledger, confirms, mode, admitted, session, runtime, plan,
                 live, removed>>

\* markSessionTeardownIncomplete: only a draining fence becomes incomplete, and
\* the store's own failure is ignored.
MarkIncomplete ==
  /\ At("incomplete")
  /\ \/ fence = "draining" /\ fence' = "incomplete"
     \/ UNCHANGED fence
  /\ Return(FALSE)
  /\ UNCHANGED <<recorded, ledger, confirms, admitted, session, runtime, removed>>

\* Release the gate; startup goes on to the finalisation.
EndTeardown ==
  /\ At("endTeardown")
  /\ \/ call # "startup" /\ Return(TRUE)
     \/ call = "startup" /\ Goto("checkComplete") /\ UNCHANGED <<mode, plan, live>>
  /\ UNCHANGED <<durable, admitted, session, runtime, removed>>

-----------------------------------------------------------------------------
(* Finalisation, finalizeClosedSessionScopeLocked.                         *)

StartFinalize ==
  /\ pc = "idle" /\ mode = "up"
  /\ pc' = "checkComplete" /\ call' = "finalize"
  /\ UNCHANGED <<durable, mode, admitted, session, runtime, plan, live, removed>>

CheckComplete ==
  /\ At("checkComplete")
  /\ \/ fence = "complete" /\ Goto("finalArtifacts") /\ UNCHANGED <<mode, plan, live>>
     \/ Return(FALSE)
  /\ UNCHANGED <<durable, admitted, session, runtime, removed>>

FinalArtifacts ==
  /\ At("finalArtifacts")
  /\ \/ artifacts' = 0 /\ Goto("finalLedger") /\ UNCHANGED <<mode, plan, live>>
     \/ UNCHANGED artifacts /\ Return(FALSE)
  /\ UNCHANGED <<durable, admitted, connections, bridge, runtime, removed>>

FinalizeLedger ==
  /\ At("finalLedger")
  /\ \/ ledger' = None /\ Goto("finalFence") /\ UNCHANGED <<mode, plan, live>>
     \/ ledger' \in {ledger, None} /\ Return(FALSE)
  /\ UNCHANGED <<fence, recorded, confirms, admitted, session, runtime, removed>>

\* One transaction deletes the phases and the complete fence.
FinalizeFence ==
  /\ At("finalFence")
  /\ \/ /\ fence = "complete"
        /\ fence' = "none" /\ recorded' = Nothing /\ (Return(TRUE) \/ Return(FALSE))
     \/ UNCHANGED <<fence, recorded>> /\ Return(FALSE)
  /\ UNCHANGED <<ledger, confirms, admitted, session, runtime, removed>>

-----------------------------------------------------------------------------
(* Crashes of the Host and of the runtime, and startup.                    *)

Crash ==
  /\ mode # "down"
  /\ mode' = "down" /\ admitted' = 0
  /\ artifacts' = 0 /\ connections' = 0 /\ bridge' = 0
  /\ execs' = [e \in Exec |-> "none"] /\ io' = {}
  /\ StopRuntime
  /\ pc' = "idle" /\ call' = "revoke" /\ plan' = 0 /\ live' = {}
  /\ UNCHANGED <<durable, removed>>

RuntimeExits ==
  /\ sent \cup workers # {} \/ runtimeRec # None
  /\ StopRuntime
  /\ UNCHANGED <<durable, mode, admitted, session, execs, io, control, removed>>

\* reconcileSessionScopeMaintenance: a retained fence is resumed and finalised
\* before the Host serves anyone.
Startup ==
  /\ mode = "down"
  /\ IF fence = "none"
     THEN mode' = "up" /\ UNCHANGED <<pc, call>>
     ELSE /\ mode' = "starting" /\ call' = "startup"
          /\ pc' = IF fence = "complete" THEN "checkComplete" ELSE "begin"
  /\ UNCHANGED <<durable, admitted, session, runtime, plan, live, removed>>

SessionStep ==
  \/ Admit \/ Leave \/ Inspect \/ Connect \/ OpenSurface \/ PrepareConfirmation
  \/ \E e \in Exec : \/ StartExecution(e) \/ RegisterIO(e) \/ InvokeWorker(e)
                     \/ Enqueue(e) \/ WorkerEnds(e) \/ DispatchEnds(e)

TeardownStep ==
  \/ StartRevoke \/ StartResume \/ BeginTeardown \/ BeginFails \/ CleanArtifacts
  \/ RevokeConnections \/ PreviewBridge \/ CountBridge \/ RevokeBridge
  \/ RevokeConfirmations \/ CountConfirmations \/ SnapshotExecutions
  \/ CountExecutions \/ CancelExecutions \/ RevokeIO \/ RevokeRuntime
  \/ CountRuntime \/ FinishExecutions \/ MarkComplete \/ MarkIncomplete
  \/ EndTeardown

FinalizeStep ==
  StartFinalize \/ CheckComplete \/ FinalArtifacts \/ FinalizeLedger \/ FinalizeFence

Next == SessionStep \/ TeardownStep \/ FinalizeStep \/ Crash \/ RuntimeExits \/ Startup

Spec == Init /\ [][Next]_vars

-----------------------------------------------------------------------------
(* Properties.                                                             *)

\* A fence that says complete tells the truth: revokeAuthenticatedSessionScope
\* marks it only when nothing of the session is left in any class, in the
\* runtime or on its way there, and every phase has recorded its count.
EmptyWhenComplete ==
  fence = "complete" =>
    /\ artifacts = 0 /\ connections = 0 /\ bridge = 0 /\ confirms = 0
    /\ Leases = {} /\ io = {} /\ workers = {}
    /\ \A p \in Phase : recorded[p] # None

\* The confirmation store remembers a teardown only while its fence stands:
\* finalizeClosedSessionScopeLocked forgets the ledger entry first.  The
\* identity of a scope's teardown never changes, so an entry that outlived its
\* fence would make the next teardown of the scope revoke no confirmation.
LedgerOnlyUnderFence == ledger # None => fence # "none"

\* However often RevokeSessionConfirmationIntents is retried, and wherever a
\* crash falls between the revocation and its recording, the count recorded for
\* the phase is the number of intents the teardown deleted.
ConfirmationsCountedOnce ==
  recorded["confirmation"] # None => recorded["confirmation"] = removed

\* The record of a teardown tells the truth, whatever failed, crashed or was retried:
\* complete means that nothing is left, an entry in the ledger of confirmations that
\* the fence of its teardown stands, and the recorded count of confirmations is the
\* number deleted (revokeAuthenticatedSessionScope, FinalizeClosedSessionScope).
CompleteMeansEmpty == EmptyWhenComplete /\ LedgerOnlyUnderFence /\ ConfirmationsCountedOnce

\* A count AccumulatePhase has recorded stays as it is, through retries and
\* restarts, until FinalizeSessionControl deletes the whole completed record.
CountsStay ==
  \/ fence = "complete" /\ fence' = "none" /\ recorded' = Nothing
  \/ \A p \in Phase : recorded[p] # None => recorded'[p] = recorded[p]

\* The Host's maintenance calls use the coordinator the way its contract says:
\* seen through the fence and the admitted actions, they are the steps of
\* SessionFence; and no retry or restart changes a count that was recorded.
Fence == INSTANCE SessionFence
           WITH Proc <- {"action"},
                admitted <- IF admitted = 1 THEN {"action"} ELSE {}

FenceContract == Fence!Spec /\ [][CountsStay]_vars

-----------------------------------------------------------------------------
(* Proofs, for every finite set of executions and every number of          *)
(* resources of a class: the inductive invariant, its preservation by each *)
(* step, the properties above and the refinement of SessionFence.          *)

\* What the constants stand for: finitely many executions, a number of resources.
ConstantsOK == IsFiniteSet(Exec) /\ MaxHeld \in Nat

\* The steps of revokeAuthenticatedSessionScope that follow the named one.
PastCountRuntime == {"finish", "complete"}
PastRuntime == PastCountRuntime \cup {"countRuntime"}
PastIO == PastRuntime \cup {"revokeRuntime"}
PastCancel == PastIO \cup {"revokeIO"}
PastCountExecutions == PastCancel \cup {"cancel"}
PastSnapshot == PastCountExecutions \cup {"countExecutions"}
PastCountConfirmations == PastSnapshot \cup {"snapshot"}
PastConfirmations == PastCountConfirmations \cup {"countConfirmations"}
PastBridge == PastConfirmations \cup {"revokeConfirmations"}
PastCountBridge == PastBridge \cup {"revokeBridge"}
PastConnections == PastCountBridge \cup {"preview", "countBridge"}

\* Nothing runs in the runtime, and a frame on its way there will be refused.
Quiet == workers = {} /\ (sent = {} \/ runtimeRec # None)

\* The fence while the maintenance call is at its steps, and that it keeps the
\* session's actions out.
Gate ==
  /\ fence # "none" => admitted = 0
  /\ pc \in Holding => fence \in {"draining", "complete"}
  /\ pc \in PastConnections => fence = "draining"
  /\ pc \in {"endTeardown", "finalArtifacts", "finalLedger", "finalFence"} =>
       fence = "complete"

\* What a class has left once the teardown is past it.
Swept ==
  /\ pc \in PastConnections \cup {"connections"} => artifacts = 0
  /\ pc \in PastConnections => connections = 0
  /\ pc \in PastBridge => bridge = 0
  /\ pc \in PastConfirmations => ledger # None
  /\ pc \in PastSnapshot => Leases \subseteq live
  /\ pc \in PastCancel => \A e \in Exec : execs[e] # "live"
  /\ pc \in PastIO => io = {}
  /\ pc \in PastRuntime => Quiet
  /\ pc = "complete" => Leases = {}

\* The phases recorded by then.
Recorded ==
  /\ pc \in PastCountBridge => recorded["bridge"] # None
  /\ pc \in PastCountConfirmations => recorded["confirmation"] # None
  /\ pc \in PastCountExecutions => recorded["execution"] # None
  /\ pc \in PastCountRuntime => recorded["runtime"] # None

\* What the confirmation store's ledger and the recorded count say.
Ledger ==
  /\ ledger # None => fence # "none" /\ confirms = 0 /\ ledger = removed
  /\ ledger = None /\ fence \in {"draining", "incomplete"} =>
       removed = 0 /\ recorded["confirmation"] = None
  /\ fence = "none" => recorded = Nothing
  /\ recorded["confirmation"] # None => recorded["confirmation"] = removed
  /\ pc = "countConfirmations" => plan = ledger
  /\ pc = "finalFence" => ledger = None

\* A completed teardown stays empty.
Emptied ==
  fence = "complete" =>
    /\ artifacts = 0 /\ connections = 0 /\ bridge = 0 /\ confirms = 0
    /\ Leases = {} /\ io = {} /\ Quiet
    /\ \A p \in Phase : recorded[p] # None

IInv == ConstantsOK /\ TypeOK /\ Gate /\ Swept /\ Recorded /\ Ledger /\ Emptied

-----------------------------------------------------------------------------
(* Every step preserves the invariant.                                     *)

\* Finitely many executions: every set of them has a size, bounded by that of all.
LEMMA Sizes ==
  ASSUME ConstantsOK
  PROVE  /\ Cardinality(Exec) \in Nat
         /\ \A s \in SUBSET Exec : Cardinality(s) \in 0..Cardinality(Exec)
BY FS_CardinalityType, FS_Subset DEF ConstantsOK

\* The actions an admitted call performs and the executions they leave behind. Only
\* an admitted action adds to a class, and none is admitted under a fence.
LEMMA SessionInv == IInv /\ SessionStep => IInv'
<1> SUFFICES ASSUME IInv, SessionStep PROVE IInv'
  BY Zenon
<1>0. /\ MaxHeld \in Nat /\ Cardinality(Exec) \in Nat
      /\ \A s \in SUBSET Exec : Cardinality(s) \in 0..Cardinality(Exec)
  BY Sizes, Zenon DEF IInv, ConstantsOK
<1> USE DEF IInv, TypeOK, Gate, Swept, Recorded, Ledger, Emptied, Quiet, Leases, Count,
            durable, session, runtime, control, PastCountRuntime, PastRuntime, PastIO,
            PastCancel, PastCountExecutions, PastSnapshot, PastCountConfirmations,
            PastConfirmations, PastBridge, PastCountBridge, PastConnections, Holding,
            Step, FenceState, ExecState, Phase, None, Nothing
<1>1. CASE Admit
  BY <1>0, <1>1, SMTT(30) DEF Admit
<1>2. CASE Leave
  BY <1>0, <1>2, SMTT(30) DEF Leave
<1>3. CASE Inspect
  BY <1>0, <1>3, SMTT(30) DEF Inspect
<1>4. CASE Connect
  BY <1>0, <1>4, SMTT(30) DEF Connect
<1>5. CASE OpenSurface
  BY <1>0, <1>5, SMTT(30) DEF OpenSurface
<1>6. CASE PrepareConfirmation
  BY <1>0, <1>6, SMTT(30) DEF PrepareConfirmation
<1>7. ASSUME NEW e \in Exec, StartExecution(e) PROVE IInv'
  BY <1>0, <1>7, SMTT(30) DEF StartExecution
<1>8. ASSUME NEW e \in Exec, RegisterIO(e) PROVE IInv'
  BY <1>0, <1>8, SMTT(30) DEF RegisterIO
<1>9. ASSUME NEW e \in Exec, InvokeWorker(e) PROVE IInv'
  BY <1>0, <1>9, SMTT(30) DEF InvokeWorker
<1>10. ASSUME NEW e \in Exec, Enqueue(e) PROVE IInv'
  BY <1>0, <1>10, SMTT(30) DEF Enqueue
<1>11. ASSUME NEW e \in Exec, WorkerEnds(e) PROVE IInv'
  BY <1>0, <1>11, SMTT(30) DEF WorkerEnds
<1>12. ASSUME NEW e \in Exec, DispatchEnds(e) PROVE IInv'
  BY <1>0, <1>12 DEF DispatchEnds
<1> QED BY <1>1, <1>2, <1>3, <1>4, <1>5, <1>6, <1>7, <1>8, <1>9, <1>10, <1>11,
           <1>12, ZenonT(40) DEF SessionStep

\* The steps of revokeAuthenticatedSessionScope and of its resumption.
LEMMA TeardownInv == IInv /\ TeardownStep => IInv'
<1> SUFFICES ASSUME IInv, TeardownStep PROVE IInv'
  BY Zenon
<1>0. /\ MaxHeld \in Nat /\ Cardinality(Exec) \in Nat
      /\ \A s \in SUBSET Exec : Cardinality(s) \in 0..Cardinality(Exec)
  BY Sizes, Zenon DEF IInv, ConstantsOK
<1> USE DEF IInv, TypeOK, Gate, Swept, Recorded, Ledger, Emptied, Quiet, Leases, Count,
            durable, session, runtime, control, PastCountRuntime, PastRuntime, PastIO,
            PastCancel, PastCountExecutions, PastSnapshot, PastCountConfirmations,
            PastConfirmations, PastBridge, PastCountBridge, PastConnections, Holding,
            Step, FenceState, ExecState, Phase, None, Nothing
<1>1. CASE StartRevoke
  BY <1>0, <1>1, SMTT(30) DEF StartRevoke
<1>2. CASE StartResume
  BY <1>0, <1>2, SMTT(30) DEF StartResume
<1>3. CASE BeginTeardown
  BY <1>0, <1>3, SMTT(30) DEF BeginTeardown, StoreBegin, At, Goto, Return
<1>4. CASE BeginFails
  BY <1>0, <1>4, SMTT(30) DEF BeginFails, At, Goto, Return
<1>5. CASE CleanArtifacts
  BY <1>0, <1>5, SMTT(30) DEF CleanArtifacts, At, Goto, Return
<1>6. CASE RevokeConnections
  BY <1>0, <1>6, SMTT(30) DEF RevokeConnections, At, Goto, Return
<1>7. CASE PreviewBridge
  BY <1>0, <1>7, SMTT(30) DEF PreviewBridge, At, Goto, Return
<1>8. CASE CountBridge
  BY <1>0, <1>8, SMTT(30) DEF CountBridge, Accumulate, RecordPhase, At, Goto
<1>9. CASE RevokeBridge
  BY <1>0, <1>9, SMTT(30) DEF RevokeBridge, At, Goto, Return
<1>10. CASE RevokeConfirmations
  BY <1>0, <1>10, SMTT(30) DEF RevokeConfirmations, StoreRevokeConfirmations, At, Goto
<1>11. CASE CountConfirmations
  BY <1>0, <1>11, SMTT(30) DEF CountConfirmations, Accumulate, RecordPhase, At, Goto
<1>12. CASE SnapshotExecutions
  BY <1>0, <1>12, SMTT(30) DEF SnapshotExecutions, At, Goto, Return
<1>13. CASE CountExecutions
  BY <1>0, <1>13, SMTT(30) DEF CountExecutions, Accumulate, RecordPhase, At, Goto
<1>14. CASE CancelExecutions
  BY <1>0, <1>14, SMTT(30) DEF CancelExecutions, Canceled, At, Goto
<1>15. CASE RevokeIO
  BY <1>0, <1>15, SMTT(30) DEF RevokeIO, At, Goto, Return
<1>16. CASE RevokeRuntime
  BY <1>0, <1>16, SMTT(30) DEF RevokeRuntime, StopRuntime, At, Goto
<1>17. CASE CountRuntime
  BY <1>0, <1>17, SMTT(30) DEF CountRuntime, Accumulate, RecordPhase, At, Goto
<1>18. CASE FinishExecutions
  BY <1>0, <1>18, SMTT(30) DEF FinishExecutions, At, Goto, Return
<1>19. CASE MarkComplete
  BY <1>0, <1>19, SMTT(30) DEF MarkComplete, At, Goto, Return
<1>20. CASE MarkIncomplete
  BY <1>0, <1>20, SMTT(30) DEF MarkIncomplete, At, Goto, Return
<1>21. CASE EndTeardown
  BY <1>0, <1>21 DEF EndTeardown, At, Goto, Return
<1> QED BY <1>1, <1>2, <1>3, <1>4, <1>5, <1>6, <1>7, <1>8, <1>9, <1>10, <1>11,
           <1>12, <1>13, <1>14, <1>15, <1>16, <1>17, <1>18, <1>19, <1>20, <1>21, ZenonT(40)
        DEF TeardownStep

\* The steps of finalizeClosedSessionScopeLocked.
LEMMA FinalizeInv == IInv /\ FinalizeStep => IInv'
<1> SUFFICES ASSUME IInv, FinalizeStep PROVE IInv'
  BY Zenon
<1>0. /\ MaxHeld \in Nat /\ Cardinality(Exec) \in Nat
      /\ \A s \in SUBSET Exec : Cardinality(s) \in 0..Cardinality(Exec)
  BY Sizes, Zenon DEF IInv, ConstantsOK
<1> USE DEF IInv, TypeOK, Gate, Swept, Recorded, Ledger, Emptied, Quiet, Leases, Count,
            durable, session, runtime, control, PastCountRuntime, PastRuntime, PastIO,
            PastCancel, PastCountExecutions, PastSnapshot, PastCountConfirmations,
            PastConfirmations, PastBridge, PastCountBridge, PastConnections, Holding,
            Step, FenceState, ExecState, Phase, None, Nothing
<1>1. CASE StartFinalize
  BY <1>0, <1>1, SMTT(30) DEF StartFinalize
<1>2. CASE CheckComplete
  BY <1>0, <1>2, SMTT(30) DEF CheckComplete, At, Goto, Return
<1>3. CASE FinalArtifacts
  BY <1>0, <1>3, SMTT(30) DEF FinalArtifacts, At, Goto, Return
<1>4. CASE FinalizeLedger
  BY <1>0, <1>4 DEF FinalizeLedger, At, Goto, Return
<1>5. CASE FinalizeFence
  <2>1. CASE fence' = "none" /\ recorded' = Nothing
    <3>1. recorded' \in [Phase -> {None} \cup 0..(MaxHeld + Cardinality(Exec))]
      BY <1>0, <2>1, ZenonT(40)
    <3>2. recorded'["confirmation"] = None
      BY <2>1, ZenonT(40)
    <3>3. /\ pc' = "idle" /\ plan' = 0 /\ live' = {} /\ call' = call
          /\ mode' \in {"up", "starting", "down"}
      BY <1>5 DEF FinalizeFence, At, Return
    <3>4. ledger = None
      BY <1>5, Zenon DEF FinalizeFence, At
    <3>5. TypeOK'
      BY <1>0, <1>5, <2>1, <3>1, <3>3, SMTT(30) DEF FinalizeFence
    <3> QED BY <1>5, <2>1, <3>2, <3>3, <3>4, <3>5, SMTT(30) DEF FinalizeFence, ConstantsOK
  <2>2. CASE fence' = fence /\ recorded' = recorded
    BY <1>0, <1>5, <2>2 DEF FinalizeFence, At, Return
  <2> QED BY <1>5, <2>1, <2>2, ZenonT(40) DEF FinalizeFence
<1> QED BY <1>1, <1>2, <1>3, <1>4, <1>5, ZenonT(40) DEF FinalizeStep

\* A crash of the Host, an exit of the runtime and the startup keep what is durable.
LEMMA RestartInv == IInv /\ (Crash \/ RuntimeExits \/ Startup) => IInv'
<1> SUFFICES ASSUME IInv, (Crash \/ RuntimeExits \/ Startup) PROVE IInv'
  OBVIOUS
<1>0. /\ MaxHeld \in Nat /\ Cardinality(Exec) \in Nat
      /\ \A s \in SUBSET Exec : Cardinality(s) \in 0..Cardinality(Exec)
  BY Sizes, ZenonT(40) DEF IInv, ConstantsOK
<1> USE DEF IInv, TypeOK, Gate, Swept, Recorded, Ledger, Emptied, Quiet, Leases, Count,
            durable, session, runtime, control, PastCountRuntime, PastRuntime, PastIO,
            PastCancel, PastCountExecutions, PastSnapshot, PastCountConfirmations,
            PastConfirmations, PastBridge, PastCountBridge, PastConnections, Holding,
            Step, FenceState, ExecState, Phase, None, Nothing
<1>1. CASE Crash
  BY <1>0, <1>1, SMTT(30) DEF Crash, StopRuntime
<1>2. CASE RuntimeExits
  BY <1>0, <1>2, SMTT(30) DEF RuntimeExits, StopRuntime
<1>3. CASE Startup
  BY <1>0, <1>3 DEF Startup
<1> QED BY <1>1, <1>2, <1>3, ZenonT(40)

-----------------------------------------------------------------------------
(* The theorems.                                                           *)

\* The session starts without a fence and with nothing recorded or held.
LEMMA InitInv == ConstantsOK /\ Init => IInv
<1> SUFFICES ASSUME ConstantsOK, Init PROVE IInv
  OBVIOUS
<1>0. MaxHeld \in Nat /\ Cardinality(Exec) \in Nat
  BY Sizes DEF ConstantsOK
<1>1. recorded \in [Phase -> {None} \cup 0..(MaxHeld + Cardinality(Exec))]
  BY DEF Init, Nothing
<1>2. TypeOK
  BY <1>0, <1>1 DEF Init, TypeOK, Count, FenceState, ExecState, Step, None
<1>3. recorded["confirmation"] = None
  BY DEF Init, Nothing, Phase
<1> QED BY <1>2, <1>3, Zenon DEF Init, IInv, Gate, Swept, Recorded, Ledger, Emptied, Holding,
     PastCountRuntime, PastRuntime, PastIO, PastCancel, PastCountExecutions, PastSnapshot,
     PastCountConfirmations, PastConfirmations, PastBridge, PastCountBridge, PastConnections

\* Every step of the session, of a maintenance call, of a crash and of the startup
\* preserves the invariant.
LEMMA NextInv == IInv /\ [Next]_vars => IInv'
<1>1. IInv /\ Next => IInv'
  BY SessionInv, TeardownInv, FinalizeInv, RestartInv, ZenonT(40) DEF Next
<1>2. ASSUME IInv, UNCHANGED vars PROVE IInv'
  <2>1. /\ UNCHANGED <<fence, recorded, ledger, confirms, mode, admitted, artifacts>>
        /\ UNCHANGED <<connections, bridge, execs, io, sent, workers, runtimeRec>>
        /\ UNCHANGED <<pc, call, plan, live, removed>>
    BY <1>2 DEF vars, durable, session, runtime, control
  <2> QED BY <1>2, <2>1 DEF IInv, ConstantsOK, TypeOK, Gate, Swept, Recorded, Ledger,
       Emptied, Quiet, Leases
<1> QED BY <1>1, <1>2

\* The inductive invariant holds throughout.
THEOREM TeardownInvariant == ConstantsOK /\ Spec => []IInv
BY InitInv, NextInv, PTL DEF Spec

\* A fence that says complete tells the truth, for any number of executions and
\* resources, whatever failed, crashed or was retried before: nothing of the session
\* is left in any class and every phase has its count
\* (Host.revokeAuthenticatedSessionScope).  The confirmation store's ledger never
\* outlives the fence of its teardown, so the next teardown of the scope revokes its
\* confirmations (finalizeClosedSessionScopeLocked); and the recorded number of
\* confirmations is the number the teardown deleted, however often their revocation
\* was retried (RevokeSessionConfirmationIntents).
THEOREM TeardownEmpties == ConstantsOK /\ Spec => []CompleteMeansEmpty
<1>1. IInv => EmptyWhenComplete
  BY DEF IInv, Emptied, Quiet, EmptyWhenComplete
<1>2. IInv => LedgerOnlyUnderFence
  BY DEF IInv, Ledger, LedgerOnlyUnderFence
<1>3. IInv => ConfirmationsCountedOnce
  BY DEF IInv, Ledger, ConfirmationsCountedOnce
<1>4. IInv => CompleteMeansEmpty
  BY <1>1, <1>2, <1>3, Zenon DEF CompleteMeansEmpty
<1> QED BY <1>4, TeardownInvariant, PTL

\* A recorded count stays as it is through retries and restarts, until the completed
\* record is deleted as a whole (AccumulatePhase, FinalizeSessionControl).
THEOREM RecordedCountsStay == ConstantsOK /\ Spec => [][CountsStay]_vars
<1>1. ASSUME IInv, Next PROVE CountsStay
  <2>1. CASE recorded' = recorded
    BY <2>1 DEF CountsStay
  <2>2. ASSUME NEW p \in Phase, NEW n, RecordPhase(p, n) PROVE CountsStay
    BY <1>1, <2>2, Zenon DEF RecordPhase, CountsStay, IInv, TypeOK
  <2>3. CASE FinalizeFence
    BY <2>1, <2>3, ZenonT(40) DEF FinalizeFence, CountsStay
  <2>4. CASE SessionStep
    BY <2>1, <2>4 DEF SessionStep, durable, Admit, Leave, Inspect, Connect, OpenSurface,
       PrepareConfirmation, StartExecution, RegisterIO, InvokeWorker, Enqueue,
       WorkerEnds, DispatchEnds
  <2>5. CASE CountBridge \/ CountConfirmations \/ CountExecutions \/ CountRuntime
    BY <2>1, <2>2, <2>5 DEF CountBridge, CountConfirmations, CountExecutions,
       CountRuntime, Accumulate, Phase
  <2>6. CASE /\ TeardownStep
             /\ ~(CountBridge \/ CountConfirmations \/ CountExecutions \/ CountRuntime)
    BY <2>1, <2>6, ZenonT(40) DEF TeardownStep, durable, StartRevoke, StartResume, BeginTeardown,
       BeginFails, CleanArtifacts, RevokeConnections, PreviewBridge, RevokeBridge,
       RevokeConfirmations, SnapshotExecutions, CancelExecutions, RevokeIO, RevokeRuntime,
       FinishExecutions, MarkComplete, MarkIncomplete, EndTeardown
  <2>7. CASE FinalizeStep /\ ~FinalizeFence
    BY <2>1, <2>7, ZenonT(40) DEF FinalizeStep, durable, StartFinalize, CheckComplete,
       FinalArtifacts, FinalizeLedger
  <2>8. CASE Crash \/ RuntimeExits \/ Startup
    BY <2>1, <2>8 DEF Crash, RuntimeExits, Startup, durable
  <2> QED BY <1>1, <2>3, <2>4, <2>5, <2>6, <2>7, <2>8 DEF Next
<1> QED BY <1>1, TeardownInvariant, PTL DEF Spec

\* Seen through the fence and the admitted actions, the Host's maintenance calls,
\* crashes and startups are steps of SessionFence: the fence is raised only over an
\* empty session, completed only while draining and removed only when complete.  And
\* they keep the counts they recorded.
THEOREM TeardownImplementsFence == ConstantsOK /\ Spec => FenceContract
<1> DEFINE act == IF admitted = 1 THEN {"action"} ELSE {}
<1>1. Init => Fence!Init
  BY DEF Init, Fence!Init
<1>2. ASSUME IInv, Next PROVE Fence!Next \/ UNCHANGED <<fence, act>>
  <2>1. /\ admitted \in {0, 1} /\ (fence # "none" => admitted = 0)
        /\ pc = "complete" => fence = "draining"
    BY <1>2 DEF IInv, TypeOK, Gate, PastConnections, PastCountBridge, PastBridge,
       PastConfirmations, PastCountConfirmations, PastSnapshot, PastCountExecutions,
       PastCancel, PastIO, PastRuntime, PastCountRuntime
  <2>2. CASE fence' = fence /\ admitted' = admitted
    BY <2>2
  <2>3. CASE Admit
    <3>1. fence = "none" /\ fence' = fence /\ act = {} /\ act' = {"action"}
      BY <2>3 DEF Admit, durable
    <3>2. Fence!Admit("action")
      BY <3>1 DEF Fence!Admit
    <3> QED BY <3>2 DEF Fence!Next
  <2>4. CASE Leave
    <3>1. fence' = fence /\ act = {"action"} /\ act' = {}
      BY <2>4 DEF Leave, durable
    <3>2. Fence!Leave("action")
      BY <3>1 DEF Fence!Leave
    <3> QED BY <3>2 DEF Fence!Next
  <2>5. CASE BeginTeardown
    BY <2>1, <2>5 DEF BeginTeardown, StoreBegin, Fence!Next, Fence!Raise
  <2>6. CASE MarkComplete
    BY <2>1, <2>6, ZenonT(40) DEF MarkComplete, At, Fence!Next, Fence!MarkComplete
  <2>7. CASE MarkIncomplete
    BY <2>7 DEF MarkIncomplete, Fence!Next, Fence!MarkIncomplete
  <2>8. CASE FinalizeFence
    <3>1. admitted' = admitted /\ ((fence = "complete" /\ fence' = "none") \/ fence' = fence)
      BY <2>8, ZenonT(40) DEF FinalizeFence
    <3> QED BY <2>1, <2>2, <3>1 DEF Fence!Next, Fence!Finalize
  <2>9. CASE Crash
    BY <2>9, SMTT(30) DEF Crash, durable, Fence!Next, Fence!Restart
  <2>10. CASE SessionStep /\ ~Admit /\ ~Leave
    BY <2>2, <2>10, Zenon DEF SessionStep, durable, Inspect, Connect, OpenSurface,
       PrepareConfirmation, StartExecution, RegisterIO, InvokeWorker, Enqueue,
       WorkerEnds, DispatchEnds
  <2>11. CASE TeardownStep /\ ~BeginTeardown /\ ~MarkComplete /\ ~MarkIncomplete
    BY <2>2, <2>11, ZenonT(40) DEF TeardownStep, durable, StartRevoke, StartResume, BeginFails,
       CleanArtifacts, RevokeConnections, PreviewBridge, CountBridge, RevokeBridge,
       RevokeConfirmations, CountConfirmations, SnapshotExecutions, CountExecutions,
       CancelExecutions, RevokeIO, RevokeRuntime, CountRuntime, FinishExecutions,
       EndTeardown, Accumulate
  <2>12. CASE FinalizeStep /\ ~FinalizeFence
    BY <2>2, <2>12, ZenonT(40) DEF FinalizeStep, durable, StartFinalize, CheckComplete,
       FinalArtifacts, FinalizeLedger
  <2>13. CASE RuntimeExits \/ Startup
    BY <2>2, <2>13 DEF RuntimeExits, Startup, durable
  <2> QED BY <1>2, <2>3, <2>4, <2>5, <2>6, <2>7, <2>8, <2>9, <2>10, <2>11, <2>12, <2>13, SMTT(30)
          DEF Next
<1>3. ASSUME UNCHANGED vars PROVE UNCHANGED <<fence, act>>
  BY <1>3 DEF vars, durable
<1>4. IInv /\ [Next]_vars => [Fence!Next]_(Fence!vars)
  BY <1>2, <1>3 DEF Fence!vars
<1>5. ConstantsOK /\ Spec => Fence!Spec
  BY <1>1, <1>4, TeardownInvariant, PTL DEF Spec, Fence!Spec
<1> QED BY <1>5, RecordedCountsStay DEF FenceContract
==============================================================================
