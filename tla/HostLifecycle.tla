---------------------------- MODULE HostLifecycle ----------------------------
(***************************************************************************)
(* Opening and closing a Host, and resetting the state root it owns.       *)
(*                                                                         *)
(* Host.Open takes the environment root lock, then opens the control       *)
(* store, the external-package stage and the plugin-data store, and claims *)
(* the runtime module.  Every later failure unwinds what was opened        *)
(* through the deferred closers, last opened first.  Host.Close publishes  *)
(* the closed state, waits for the calls that entered through ensureOpen,  *)
(* the lifecycle jobs and the two maintenance loops, and then closes       *)
(* everything in a fixed order, the lock last.  It does not wait for the   *)
(* calls that only pass authorizeManagement: those meet each store as they *)
(* find it.  PreflightEnvironmentReset and ResetEnvironment take the same  *)
(* lock.                                                                   *)
(*                                                                         *)
(* All Hosts and resets run in one process: Crash ends the process at any  *)
(* step, which frees the lock (flock belongs to the open file) and leaves  *)
(* the files as they are.  Two Hosts may be configured with the same       *)
(* runtime module.  sync.Once makes concurrent Close calls of one Host     *)
(* wait for the first, so one closer per Host is modelled.                 *)
(***************************************************************************)
EXTENDS Naturals, Sequences, FiniteSets, TLAPS

CONSTANTS
    Hosts,   \* Open calls on one state root, each with its own Host
    Calls,   \* calls of the Host's methods that enter through ensureOpen
    Direct,  \* calls of those that do not: enable, disable, install, call...
    Resets,  \* calls of ResetEnvironment or of its preflight
    Kinds,   \* what the ownership manifest selects, in its sorted order
    Nil

VARIABLES
    lock,    \* who holds .redevplugin-environment.lock
    host,    \* h -> [at, held, closed, told]
    jobs,    \* h -> the goroutines of h that are running
    module,  \* the runtime module: [state, by, journalled]
    call,    \* c -> the Host that admitted the call, or Nil
    direct,  \* d -> [host, using]: the call's Host and the store it is working in
    reset,   \* r -> [at, done]
    files    \* kind -> "absent", "used" or "fresh"

vars == <<lock, host, jobs, module, call, direct, reset, files>>

AllKinds == {"assets", "host_control", "plugin_data"}
Resources == {"lock", "control", "stage", "data", "module", "assets"}
Told == {Nil, "plain", "caller_owned", "already_closed", "consumed_and_closed"}

(* The stages of Open up to the returned Host.                             *)
Opening == {"control", "bind", "stage", "data", "claim", "manager",
            "assemble", "reconcile", "start", "intervals"}

(* lifecycleWG counts the first three, securityAuditWG and selectedFilesWG *)
(* the last two.                                                           *)
Lifecycle == {"recovery", "prewarm", "intervals"}
Maintenance == {"exporter", "files"}

(* The order of the deferred closers of Open, and of the closes of Close   *)
(* (the background manager, the runtime I/O broker, the selected files and *)
(* the process supervisor hold nothing of the root and are left out).      *)
UnwindOrder == <<"module", "data", "stage", "control", "lock">>
CloseOrderLockFirst ==
    <<"lock", "stage", "module", "data", "assets", "control">>
CloseOrder == <<"stage", "module", "data", "assets", "control", "lock">>

Absent == [at |-> "none", held |-> {}, closed |-> FALSE, told |-> Nil]
Quiet == [at |-> "none", done |-> 0]

(* The stores a call works in.                                             *)
Worked == {"control", "data", "assets"}

TypeOK ==
    /\ lock \in Hosts \cup Resets \cup {Nil}
    /\ \A h \in Hosts :
          /\ host[h].held \subseteq Resources
          /\ host[h].closed \in BOOLEAN
          /\ host[h].told \in Told
    /\ jobs \in [Hosts -> SUBSET (Lifecycle \cup Maintenance)]
    /\ module.state \in {"owned", "transferred", "closed"}
    /\ module.by \in Hosts \cup {Nil}
    /\ call \in [Calls -> Hosts \cup {Nil}]
    /\ direct \in [Direct -> [host : Hosts \cup {Nil}, using : {Nil} \cup Worked]]
    /\ \A r \in Resets : reset[r].done \in 0..Len(Kinds)
    /\ files \in [AllKinds -> {"absent", "used", "fresh"}]

Outside == [host |-> Nil, using |-> Nil]
Owned == [state |-> "owned", by |-> Nil, journalled |-> TRUE]

Init ==
    /\ lock = Nil
    /\ host = [h \in Hosts |-> Absent]
    /\ jobs = [h \in Hosts |-> {}]
    /\ module = Owned
    /\ call = [c \in Calls |-> Nil]
    /\ direct = [d \in Direct |-> Outside]
    /\ reset = [r \in Resets |-> Quiet]
    /\ files \in [AllKinds -> {"absent", "used"}]

-----------------------------------------------------------------------------
(* Open                                                                    *)

Goes(h, at) == host' = [host EXCEPT ![h].at = at]

GoesHolding(h, at, resource) ==
    host' = [host EXCEPT ![h].at = at, ![h].held = @ \cup {resource}]

(* A failing step returns nil: the deferred closers run.                   *)
Fails(h) == Goes(h, "unwind")

(* normalizeConfig refuses a configuration before anything is opened: for  *)
(* a module that is not the caller's any more, or for any other reason, in *)
(* which case it says that a configured module stays with the caller.      *)
normalizeConfig(h) ==
    /\ host[h] = Absent
    /\ \E told \in {"plain", "caller_owned", "already_closed"} :
          /\ told = "already_closed" => module.state # "owned"
          /\ host' = [host EXCEPT ![h].at = "failed", ![h].told = told]
    /\ UNCHANGED <<lock, jobs, module, call, direct, reset, files>>

(* The lock is taken without waiting; a held lock, or a lock file that     *)
(* cannot be opened or is not the expected one, fails Open.                *)
acquireEnvironmentRootLock(h) ==
    /\ host[h] = Absent
    /\ \/ /\ lock = Nil
          /\ lock' = h
          /\ GoesHolding(h, "control", "lock")
       \/ /\ Goes(h, "failed")
          /\ UNCHANGED lock
    /\ UNCHANGED <<jobs, module, call, direct, reset, files>>

openControlStore(h) ==
    /\ host[h].at = "control"
    /\ \/ /\ GoesHolding(h, "bind", "control")
          /\ files' = [files EXCEPT !["host_control"] = "used"]
       \/ Fails(h) /\ UNCHANGED files
    /\ UNCHANGED <<lock, jobs, module, call, direct, reset>>

bindInternalPlatformState(h) ==
    /\ host[h].at = "bind"
    /\ Goes(h, "stage") \/ Fails(h)
    /\ UNCHANGED <<lock, jobs, module, call, direct, reset, files>>

(* A fetcher or resolver that cannot be built closes the stage again; a    *)
(* Host without external packages has no stage.                            *)
openExternalPackagePipeline(h) ==
    /\ host[h].at = "stage"
    /\ GoesHolding(h, "data", "stage") \/ Goes(h, "data") \/ Fails(h)
    /\ UNCHANGED <<lock, jobs, module, call, direct, reset, files>>

openPluginDataStore(h) ==
    /\ host[h].at = "data"
    /\ \/ /\ GoesHolding(h, "claim", "data")
          /\ files' = [files EXCEPT !["plugin_data"] = "used"]
       \/ Fails(h) /\ UNCHANGED files
    /\ UNCHANGED <<lock, jobs, module, call, direct, reset>>

FailsTelling(h, told) ==
    host' = [host EXCEPT ![h].at = "unwind", ![h].told = told]

(* The module goes to the first Host that claims it.  A journal that       *)
(* cannot record the transition leaves the module with the caller.         *)
claimForHost(h) ==
    /\ host[h].at = "claim"
    /\ \/ /\ module.state = "owned"
          /\ module' = [module EXCEPT !.state = "transferred", !.by = h]
          /\ Goes(h, "manager")
       \/ /\ module.state = "owned"
          /\ module' = [module EXCEPT !.journalled = FALSE]
          /\ FailsTelling(h, "already_closed")
       \/ /\ module.state # "owned"
          /\ FailsTelling(h, IF module.state = "transferred"
                               THEN "consumed_and_closed"
                               ELSE "already_closed")
          /\ UNCHANGED module
       \/ Goes(h, "assemble") /\ UNCHANGED module  \* no runtime configured
    /\ UNCHANGED <<lock, jobs, call, direct, reset, files>>

(* A manager that cannot be built closes the module at once; otherwise     *)
(* the deferred closer of the module is registered.                        *)
newRuntimeManagerFromCapability(h) ==
    /\ host[h].at = "manager"
    /\ \/ GoesHolding(h, "assemble", "module") /\ UNCHANGED module
       \/ /\ module' = [module EXCEPT !.state = "closed"]
          /\ FailsTelling(h, "consumed_and_closed")
    /\ UNCHANGED <<lock, jobs, call, direct, reset, files>>

(* The caller closes a module no Host has claimed; a claimed one is        *)
(* refused.                                                                *)
CloseModule ==
    /\ module.state = "owned"
    /\ module' = [module EXCEPT !.state = "closed"]
    /\ UNCHANGED <<lock, host, jobs, call, direct, reset, files>>

(* The runtime I/O broker, the background runner and manager, the audit    *)
(* reconciliation and export, the services bound to the runtime manager,   *)
(* and the three reconciliations of the durable state: each may fail.      *)
Assemble(h) ==
    /\ host[h].at \in {"assemble", "reconcile"}
    /\ \/ Goes(h, IF host[h].at = "assemble" THEN "reconcile" ELSE "start")
       \/ Fails(h)
    /\ UNCHANGED <<lock, jobs, module, call, direct, reset, files>>

(* startLifecycleJob refuses a closed Host.                                *)
Started(h, starting) ==
    jobs' = [jobs EXCEPT ![h] = @ \cup
               (IF host[h].closed THEN starting \cap Maintenance ELSE starting)]

(* With a session Open recovers the enabled plugins in a job, without one  *)
(* it prewarms the workers; the exporter needs an audit sink.              *)
StartJobs(h) ==
    /\ host[h].at = "start"
    /\ \E job \in {{}, {"recovery"}, {"prewarm"}}, loop \in {{}, {"exporter"}} :
          Started(h, job \cup loop \cup {"files"})
    /\ \/ GoesHolding(h, "intervals", "assets")
       \/ GoesHolding(h, "open", "assets")   \* no background configured
    /\ UNCHANGED <<lock, module, call, direct, reset, files>>

(* The interval claims are recovered while the jobs run already: a failure *)
(* closes the Host before the deferred closers run.                        *)
RecoverIntervalClaims(h) ==
    /\ host[h].at = "intervals"
    /\ \/ Started(h, {"intervals"}) /\ Goes(h, "open")
       \/ /\ host' = [host EXCEPT ![h].at = "draining", ![h].closed = TRUE,
                                  ![h].told = IF "module" \in host[h].held
                                                THEN "already_closed"
                                                ELSE "plain"]
          /\ UNCHANGED jobs
    /\ UNCHANGED <<lock, module, call, direct, reset, files>>

(* Closing a resource of h: closeFromHost closes the module it claimed,    *)
(* the environment lock becomes free.                                      *)
Closed(h, resource) ==
    /\ module' = IF resource = "module" /\ "module" \in host[h].held
                   THEN [module EXCEPT !.state = "closed"]
                   ELSE module
    /\ lock' = IF resource = "lock" THEN Nil ELSE lock

Next1(order, held) ==
    order[CHOOSE i \in 1..Len(order) :
            order[i] \in held /\ \A j \in 1..(i - 1) : order[j] \notin held]

(* The deferred closers of a failed Open, one at a time, then the result.  *)
(* A module whose Host owned it was closed with it.                        *)
Unwind(h) ==
    /\ host[h].at = "unwind"
    /\ LET next == Next1(UnwindOrder, host[h].held) IN
       IF host[h].held = {}
         THEN Goes(h, "failed") /\ UNCHANGED <<lock, module>>
         ELSE /\ Closed(h, next)
              /\ host' = [host EXCEPT
                            ![h].held = @ \ {next},
                            ![h].told = IF next = "module"
                                          THEN "consumed_and_closed" ELSE @]
    /\ UNCHANGED <<jobs, call, direct, reset, files>>

-----------------------------------------------------------------------------
(* Calls, jobs and Close                                                   *)

(* The check and the registration are one critical section, so Close waits *)
(* for every call that is admitted here.                                   *)
ensureOpenUnchecked(c, h) ==
    /\ call[c] = Nil
    /\ host[h].at \in {"open", "draining", "closing", "closed"}
    /\ call' = [call EXCEPT ![c] = h]
    /\ UNCHANGED <<lock, host, jobs, module, direct, reset, files>>

ensureOpen(c, h) ==
    /\ call[c] = Nil
    /\ host[h].at \in {"open", "draining", "closing", "closed"}
    /\ ~host[h].closed
    /\ call' = [call EXCEPT ![c] = h]
    /\ UNCHANGED <<lock, host, jobs, module, direct, reset, files>>

Return(c) ==
    /\ call[c] # Nil
    /\ call' = [call EXCEPT ![c] = Nil]
    /\ UNCHANGED <<lock, host, jobs, module, direct, reset, files>>

Returned == {"open", "draining", "closing", "closed"}

(* A call that passes authorizeManagement alone enters at any time after   *)
(* Open has returned the Host, also while it is closing and after.         *)
authorizeManagement(d, h) ==
    /\ direct[d].host = Nil
    /\ host[h].at \in Returned /\ host[h].told = Nil
    /\ direct' = [direct EXCEPT ![d].host = h]
    /\ UNCHANGED <<lock, host, jobs, module, call, reset, files>>

(* FileStore.begin, FileAssetStore.acquire, or a transaction of the        *)
(* control store: a store that is closed refuses.                          *)
BeginOperation(d, store) ==
    /\ direct[d].host # Nil /\ direct[d].using = Nil
    /\ store \in host[direct[d].host].held
    /\ direct' = [direct EXCEPT ![d].using = store]
    /\ UNCHANGED <<lock, host, jobs, module, call, reset, files>>

EndOperation(d) ==
    /\ direct[d].using # Nil
    /\ direct' = [direct EXCEPT ![d].using = Nil]
    /\ UNCHANGED <<lock, host, jobs, module, call, reset, files>>

ReturnDirect(d) ==
    /\ direct[d].host # Nil /\ direct[d].using = Nil
    /\ direct' = [direct EXCEPT ![d] = Outside]
    /\ UNCHANGED <<lock, host, jobs, module, call, reset, files>>

(* Recovery and prewarming end by themselves; the other goroutines run     *)
(* until the lifecycle context is cancelled.                               *)
JobEnds(h, j) ==
    /\ j \in jobs[h]
    /\ j \in {"recovery", "prewarm"} \/ host[h].closed
    /\ jobs' = [jobs EXCEPT ![h] = @ \ {j}]
    /\ UNCHANGED <<lock, host, module, call, direct, reset, files>>

(* closed, the cancelled executions and the cancelled lifecycle context    *)
(* are published under lifecycleMu.                                        *)
Close(h) ==
    /\ host[h].at = "open"
    /\ host' = [host EXCEPT ![h].at = "draining", ![h].closed = TRUE]
    /\ UNCHANGED <<lock, jobs, module, call, direct, reset, files>>

(* The three wait groups.                                                  *)
Drained(h) == jobs[h] = {} /\ \A c \in Calls : call[c] # h

Drain(h) ==
    /\ host[h].at = "draining"
    /\ Drained(h)
    /\ Goes(h, "closing")
    /\ UNCHANGED <<lock, jobs, module, call, direct, reset, files>>

(* Close of the plugin data and of the assets take the write lock of the   *)
(* store, which an operation in the store holds for reading; Close of the  *)
(* control store waits for nobody.                                         *)
NotUsed(h, store) ==
    store \in {"data", "assets"} =>
      \A d \in Direct : direct[d].host = h => direct[d].using # store

CloseNextAtOnce(h) ==
    /\ host[h].at = "closing"
    /\ LET next == Next1(CloseOrder, host[h].held) IN
       IF host[h].held = {}
         THEN /\ Goes(h, IF host[h].told = Nil THEN "closed" ELSE "unwind")
              /\ UNCHANGED <<lock, module>>
         ELSE /\ Closed(h, next)
              /\ host' = [host EXCEPT ![h].held = @ \ {next}]
    /\ UNCHANGED <<jobs, call, direct, reset, files>>

(* Each close is tried whatever the others answered; their errors are      *)
(* joined.  After the failed recovery of the interval claims the deferred  *)
(* closers find everything closed.                                         *)
CloseNext(h) ==
    /\ host[h].at = "closing"
    /\ LET next == Next1(CloseOrder, host[h].held) IN
       IF host[h].held = {}
         THEN /\ Goes(h, IF host[h].told = Nil THEN "closed" ELSE "unwind")
              /\ UNCHANGED <<lock, module>>
         ELSE /\ NotUsed(h, next)
              /\ Closed(h, next)
              /\ host' = [host EXCEPT ![h].held = @ \ {next}]
    /\ UNCHANGED <<jobs, call, direct, reset, files>>

-----------------------------------------------------------------------------
(* The reset of the environment                                            *)

(* A preflight only looks, under the lock; it ends at once.                *)
LockForReset(r) ==
    /\ reset[r].at = "none"
    /\ lock = Nil
    /\ lock' = r
    /\ reset' = [reset EXCEPT ![r].at = "removing"]
    /\ UNCHANGED <<host, jobs, module, call, direct, files>>

(* The deferred Close of the lock, after the result.                       *)
Unlock(r) ==
    /\ reset[r].at \in {"failed", "done"}
    /\ lock' = Nil
    /\ reset' = [reset EXCEPT ![r] = Quiet]
    /\ UNCHANGED <<host, jobs, module, call, direct, files>>

removeEnvironmentResetEntry(r) ==
    /\ reset[r].at = "removing"
    /\ \/ /\ reset[r].done < Len(Kinds)
          /\ files' = [files EXCEPT ![Kinds[reset[r].done + 1]] = "absent"]
          /\ reset' = [reset EXCEPT ![r].done = @ + 1]
       \/ /\ reset[r].done = Len(Kinds)
          /\ reset' = [reset EXCEPT ![r].at = "initialize"]
          /\ UNCHANGED files
       \/ /\ reset' = [reset EXCEPT ![r].at = "failed"]
          /\ UNCHANGED files
    /\ UNCHANGED <<lock, host, jobs, module, call, direct>>

(* The control store is opened for either core kind, and an existing one   *)
(* is kept as it is; the plugin data only when selected.                   *)
Initialized(k) == IF files[k] = "absent" THEN "fresh" ELSE files[k]

initializeResetEnvironmentCore(r) ==
    LET selected == {Kinds[i] : i \in 1..Len(Kinds)}
        core == selected \cap {"host_control", "plugin_data"}
        built == IF core = {} THEN {} ELSE core \cup {"host_control"}
    IN
    /\ reset[r].at = "initialize"
    /\ \/ /\ files' = [k \in AllKinds |->
                         IF k \in built THEN Initialized(k) ELSE files[k]]
          /\ reset' = [reset EXCEPT ![r].at = "done"]
       \/ /\ \E part \in {{}, {"host_control"} \cap built} :
               files' = [k \in AllKinds |->
                           IF k \in part THEN Initialized(k) ELSE files[k]]
          /\ reset' = [reset EXCEPT ![r].at = "failed"]
    /\ UNCHANGED <<lock, host, jobs, module, call, direct>>

(* The process ends: the kernel frees the lock.                            *)
Crash ==
    /\ lock' = Nil
    /\ host' = [h \in Hosts |-> Absent]
    /\ jobs' = [h \in Hosts |-> {}]
    /\ module' = Owned
    /\ call' = [c \in Calls |-> Nil]
    /\ direct' = [d \in Direct |-> Outside]
    /\ reset' = [r \in Resets |-> Quiet]
    /\ UNCHANGED files

Next ==
    \/ \E h \in Hosts :
          \/ normalizeConfig(h) \/ acquireEnvironmentRootLock(h)
          \/ openControlStore(h) \/ bindInternalPlatformState(h)
          \/ openExternalPackagePipeline(h) \/ openPluginDataStore(h)
          \/ claimForHost(h) \/ newRuntimeManagerFromCapability(h)
          \/ Assemble(h) \/ StartJobs(h) \/ RecoverIntervalClaims(h)
          \/ Unwind(h) \/ Close(h) \/ Drain(h) \/ CloseNext(h)
          \/ \E j \in Lifecycle \cup Maintenance : JobEnds(h, j)
          \/ \E c \in Calls : ensureOpen(c, h)
    \/ \E c \in Calls : Return(c)
    \/ \E d \in Direct :
          \/ \E h \in Hosts : authorizeManagement(d, h)
          \/ \E store \in Worked : BeginOperation(d, store)
          \/ EndOperation(d) \/ ReturnDirect(d)
    \/ \E r \in Resets :
          \/ LockForReset(r) \/ Unlock(r)
          \/ removeEnvironmentResetEntry(r)
          \/ initializeResetEnvironmentCore(r)
    \/ CloseModule \/ Crash

Spec == Init /\ [][Next]_vars

-----------------------------------------------------------------------------
(* The root has one owner: whoever has anything of it open, or is removing *)
(* and rebuilding files, holds the environment lock, through every failed  *)
(* Open and every Close.                                                   *)
RootHasOneOwner ==
    /\ \A h \in Hosts : host[h].held # {} => lock = h
    /\ \A r \in Resets : reset[r].at # "none" => lock = r

(* Work never meets a store closing under it.  While a goroutine of a Host *)
(* or a call that entered through ensureOpen runs, the control store and   *)
(* the plugin data of the Host are open (Close drains before it closes);   *)
(* and any other call is in an operation of the plugin data or of the      *)
(* assets only while that store is open and the Host owns the root (begin, *)
(* acquire and Close of the stores).  Of a control store's transaction of  *)
(* such a call nothing is claimed: Close does not wait for it.             *)
WorkHasStores ==
    /\ \A h \in Hosts :
         (jobs[h] # {} \/ \E c \in Calls : call[c] = h)
           => {"lock", "control", "data"} \subseteq host[h].held
    /\ \A d \in Direct : direct[d].using \in {"data", "assets"} =>
         /\ direct[d].using \in host[direct[d].host].held
         /\ lock = direct[d].host

(* A failed Open and a finished Close leave nothing open: the lock is not  *)
(* theirs, the module they claimed is closed, and a caller who is told the *)
(* module is gone does not still own it (except when its own journal could *)
(* not be written).                                                        *)
NothingLeftOpen ==
    \A h \in Hosts : host[h].at \in {"failed", "closed"} =>
      /\ host[h].held = {} /\ lock # h /\ jobs[h] = {}
      /\ module.by = h => module.state = "closed"
      /\ host[h].told \in {"already_closed", "consumed_and_closed"}
           => module.state # "owned" \/ ~module.journalled

(* A reset that answers success left none of the data it was to remove.    *)
ResetIsComplete ==
    \A r \in Resets : reset[r].at = "done" =>
      \A i \in 1..Len(Kinds) : files[Kinds[i]] # "used"

(* The four together: the state root through Open, work, Close and reset.  *)
StoresOutliveWork ==
    RootHasOneOwner /\ WorkHasStores /\ NothingLeftOpen /\ ResetIsComplete

-----------------------------------------------------------------------------
(* The inductive invariant of StoresOutliveWork.                           *)

(* Hosts and resets are told apart, Nil is neither of them, no answer      *)
(* about the module and no store.                                          *)
LifecycleConstants ==
    /\ Nil \notin Hosts \cup Resets /\ Hosts \cap Resets = {}
    /\ Kinds \in Seq(AllKinds)
    /\ Nil \notin {"already_closed", "consumed_and_closed"} \cup Worked

(* A Host, and the shape of the state.                                     *)
Stages == Opening \cup {"none", "unwind", "failed", "open", "draining", "closing", "closed"}
HostRecords == [at : Stages, held : SUBSET Resources, closed : BOOLEAN, told : Told]
Modules == [state : {"owned", "transferred", "closed"}, by : Hosts \cup {Nil},
            journalled : BOOLEAN]
ResetRecords ==
    [at : {"none", "removing", "initialize", "failed", "done"}, done : Nat]
FileStates == [AllKinds -> {"absent", "used", "fresh"}]

Shape ==
    /\ host \in [Hosts -> HostRecords]
    /\ jobs \in [Hosts -> SUBSET (Lifecycle \cup Maintenance)]
    /\ module \in Modules
    /\ call \in [Calls -> Hosts \cup {Nil}]
    /\ reset \in [Resets -> ResetRecords]
    /\ files \in FileStates

Stores == {"lock", "control", "data"}

(* What a Host has open at every stage of Open and Close; it has the lock  *)
(* as long as it has a store, the stage or the data.                       *)
HoldsAt(at, held) ==
    /\ at \in {"none", "failed", "closed"} => held = {}
    /\ at = "control" => held = {"lock"}
    /\ at \in {"bind", "stage"} => held = {"lock", "control"}
    /\ at = "data" =>
         {"lock", "control"} \subseteq held /\ held \subseteq {"lock", "control", "stage"}
    /\ at \in {"claim", "manager"} =>
         Stores \subseteq held /\ held \subseteq Stores \cup {"stage"}
    /\ at \in {"assemble", "reconcile", "start", "intervals", "open", "draining"} =>
         Stores \subseteq held
    /\ at \in {"assemble", "reconcile", "start", "unwind"} => "assets" \notin held
    /\ held # {} => "lock" \in held

(* It holds the environment lock exactly when it has taken it and not      *)
(* closed it.                                                              *)
LockHeld(h) == lock = h <=> "lock" \in host[h].held

(* Goroutines run from StartJobs to the end of the drain, calls from the   *)
(* returned Host to the end of the drain; a Host that drains is closed.    *)
WorkInside(h) ==
    /\ jobs[h] # {} => host[h].at \in {"intervals", "open", "draining"}
    /\ \A c \in Calls : call[c] = h => host[h].at \in {"open", "draining"}
    /\ host[h].at \in {"draining", "closing", "closed"} => host[h].closed

(* It has the module open exactly while the module is transferred to it,   *)
(* and tells a caller that the module is gone only when it is.             *)
ModuleOwned(h) ==
    /\ "module" \in host[h].held \/ host[h].at = "manager"
         <=> module.by = h /\ module.state = "transferred"
    /\ host[h].told \in {"already_closed", "consumed_and_closed"}
         => module.state # "owned" \/ ~module.journalled

HostInv(h) ==
    /\ HoldsAt(host[h].at, host[h].held)
    /\ LockHeld(h) /\ WorkInside(h) /\ ModuleOwned(h)

(* A reset under way has the lock; what it has removed stays removed.      *)
ResetInv(r) ==
    /\ reset[r].at # "none" <=> lock = r
    /\ reset[r].done \in 0..Len(Kinds)
    /\ reset[r].at = "none" => reset[r].done = 0
    /\ reset[r].at = "removing" =>
         \A i \in 1..reset[r].done : files[Kinds[i]] = "absent"
    /\ reset[r].at = "initialize" => \A i \in 1..Len(Kinds) : files[Kinds[i]] = "absent"
    /\ reset[r].at = "done" => \A i \in 1..Len(Kinds) : files[Kinds[i]] # "used"

RootInv ==
    /\ Shape /\ (module.state = "owned" => module.by = Nil)
    /\ \A h \in Hosts : HostInv(h)
    /\ \A r \in Resets : ResetInv(r)

(* A call that Close does not wait for is of a Host that was returned, and *)
(* in an operation of the data or the assets only while they are open.     *)
DirectInside(d) ==
    direct[d].host \in Hosts =>
      /\ host[direct[d].host].at \in Returned /\ host[direct[d].host].told = Nil
      /\ direct[d].using \in {"data", "assets"} =>
           direct[d].using \in host[direct[d].host].held

DirectInv ==
    /\ direct \in [Direct -> [host : Hosts \cup {Nil}, using : {Nil} \cup Worked]]
    /\ \A d \in Direct : direct[d].host = Nil => direct[d].using = Nil
    /\ \A d \in Direct : DirectInside(d)

LifecycleInv == RootInv /\ DirectInv

-----------------------------------------------------------------------------
(* Proofs: one lemma per action, over the frame lemmas HostStep and        *)
(* ResetStep.                                                              *)

(* Close closes something it holds and the environment lock last            *)
(* (CloseOrder).                                                            *)
LEMMA ClosesLockLast ==
  ASSUME NEW held \in SUBSET Resources, held # {}
  PROVE  /\ Next1(CloseOrder, held) \in held
         /\ Next1(CloseOrder, held) = "lock" => held = {"lock"}
<1> DEFINE P(i) == CloseOrder[i] \in held /\ \A j \in 1..(i - 1) : CloseOrder[j] \notin held
           k == CHOOSE i \in 1..Len(CloseOrder) : P(i)
<1>1. /\ Len(CloseOrder) = 6
      /\ CloseOrder[1] = "stage" /\ CloseOrder[2] = "module" /\ CloseOrder[3] = "data"
      /\ CloseOrder[4] = "assets" /\ CloseOrder[5] = "control" /\ CloseOrder[6] = "lock"
  BY Zenon DEF CloseOrder
<1>2. \E i \in 1..Len(CloseOrder) : P(i)
  <2>1. CASE "stage" \in held
    BY <1>1, <2>1
  <2>2. CASE "stage" \notin held /\ "module" \in held
    BY <1>1, <2>2
  <2>3. CASE "stage" \notin held /\ "module" \notin held /\ "data" \in held
    BY <1>1, <2>3
  <2>4. CASE {"stage", "module", "data"} \cap held = {} /\ "assets" \in held
    BY <1>1, <2>4
  <2>5. CASE {"stage", "module", "data", "assets"} \cap held = {} /\ "control" \in held
    BY <1>1, <2>5
  <2>6. CASE {"stage", "module", "data", "assets", "control"} \cap held = {}
               /\ "lock" \in held
    BY <1>1, <2>6
  <2> QED BY <2>1, <2>2, <2>3, <2>4, <2>5, <2>6, Zenon DEF Resources
<1>3. k \in 1..Len(CloseOrder) /\ P(k)
  <2> HIDE DEF P
  <2> QED BY <1>2, Zenon
<1>4. Next1(CloseOrder, held) = CloseOrder[k]
  BY Zenon DEF Next1
<1> HIDE DEF k
<1>5. ASSUME CloseOrder[k] = "lock" PROVE held = {"lock"}
  <2>1. k = 6
    BY <1>1, <1>3, <1>5
  <2>2. CloseOrder[1] \notin held /\ CloseOrder[2] \notin held
          /\ CloseOrder[3] \notin held /\ CloseOrder[4] \notin held
          /\ CloseOrder[5] \notin held
    BY <1>3, <2>1
  <2> QED BY <1>1, <1>3, <1>5, <2>2, Zenon DEF Resources
<1> QED BY <1>3, <1>4, <1>5, Zenon

(* So do the deferred closers of a failed Open, which has no assets yet     *)
(* (UnwindOrder).                                                           *)
LEMMA UnwindsLockLast ==
  ASSUME NEW held \in SUBSET Resources, held # {}, "assets" \notin held
  PROVE  /\ Next1(UnwindOrder, held) \in held
         /\ Next1(UnwindOrder, held) = "lock" => held = {"lock"}
<1> DEFINE P(i) == UnwindOrder[i] \in held
                     /\ \A j \in 1..(i - 1) : UnwindOrder[j] \notin held
           k == CHOOSE i \in 1..Len(UnwindOrder) : P(i)
<1>1. /\ Len(UnwindOrder) = 5
      /\ UnwindOrder[1] = "module" /\ UnwindOrder[2] = "data" /\ UnwindOrder[3] = "stage"
      /\ UnwindOrder[4] = "control" /\ UnwindOrder[5] = "lock"
  BY Zenon DEF UnwindOrder
<1>2. \E i \in 1..Len(UnwindOrder) : P(i)
  <2>1. CASE "module" \in held
    BY <1>1, <2>1
  <2>2. CASE "module" \notin held /\ "data" \in held
    BY <1>1, <2>2
  <2>3. CASE {"module", "data"} \cap held = {} /\ "stage" \in held
    BY <1>1, <2>3
  <2>4. CASE {"module", "data", "stage"} \cap held = {} /\ "control" \in held
    BY <1>1, <2>4
  <2>5. CASE {"module", "data", "stage", "control"} \cap held = {} /\ "lock" \in held
    BY <1>1, <2>5
  <2> QED BY <2>1, <2>2, <2>3, <2>4, <2>5, Zenon DEF Resources
<1>3. k \in 1..Len(UnwindOrder) /\ P(k)
  <2> HIDE DEF P
  <2> QED BY <1>2, Zenon
<1>4. Next1(UnwindOrder, held) = UnwindOrder[k]
  BY Zenon DEF Next1
<1> HIDE DEF k
<1>5. ASSUME UnwindOrder[k] = "lock" PROVE held = {"lock"}
  <2>1. k = 5
    BY <1>1, <1>3, <1>5
  <2>2. UnwindOrder[1] \notin held /\ UnwindOrder[2] \notin held
          /\ UnwindOrder[3] \notin held /\ UnwindOrder[4] \notin held
    BY <1>3, <2>1
  <2> QED BY <1>1, <1>3, <1>5, <2>2, Zenon DEF Resources
<1> QED BY <1>3, <1>4, <1>5, Zenon

(* What the step of one Host has to show: the others keep their part when   *)
(* only this Host, its goroutines, a lock that was free or its own, and a   *)
(* module nobody else has claimed change, and files only under its lock.    *)
LEMMA HostStep ==
  ASSUME LifecycleConstants, RootInv, NEW h \in Hosts, NEW x \in HostRecords,
           host' = [host EXCEPT ![h] = x],
         NEW w \in SUBSET (Lifecycle \cup Maintenance), jobs' = [jobs EXCEPT ![h] = w],
         \/ lock' = lock
         \/ lock = Nil /\ lock' = h
         \/ lock = h /\ lock' = Nil,
         UNCHANGED <<call, reset>>,
         \/ UNCHANGED files
         \/ lock = h /\ files' \in FileStates,
         module' \in Modules,
         \/ UNCHANGED module
         \/ module.state = "owned" /\ module'.by = h /\ module'.state = "transferred"
         \/ module'.by = module.by /\ module'.state = module.state /\ ~module'.journalled
         \/ module.by = h /\ module'.by = h /\ module'.state = "closed",
         HostInv(h)'
  PROVE  RootInv'
<1>1. Shape'
  BY Zenon DEF RootInv, Shape
<1>2. (module.state = "owned" => module.by = Nil)'
  BY Zenon DEF RootInv
<1>3. ASSUME NEW d \in Hosts, d # h PROVE HostInv(d)'
  <2>1. host'[d] = host[d] /\ jobs'[d] = jobs[d] /\ HostInv(d)
    BY <1>3, Zenon DEF RootInv, Shape
  <2>2. HoldsAt(host[d].at, host[d].held)'
    BY <2>1 DEF HostInv, HoldsAt
  <2>3. LockHeld(d)'
    BY <1>3, <2>1 DEF HostInv, LockHeld, LifecycleConstants
  <2>4. WorkInside(d)'
    BY <2>1, Zenon DEF HostInv, WorkInside
  <2>5. ModuleOwned(d)'
    BY <1>3, <2>1, Zenon DEF HostInv, ModuleOwned, RootInv, LifecycleConstants
  <2> QED BY <2>2, <2>3, <2>4, <2>5, Zenon DEF HostInv
<1>4. ASSUME NEW r \in Resets PROVE ResetInv(r)'
  <2>1. ResetInv(r) /\ r # h /\ r # Nil /\ r \in Resets
    BY <1>4, Zenon DEF RootInv, LifecycleConstants
  <2>2. CASE UNCHANGED files
    BY <2>1, <2>2, Zenon DEF ResetInv
  <2>3. CASE lock = h
    BY <2>1, <2>3, Zenon DEF ResetInv
  <2> QED BY <2>2, <2>3, Zenon
<1> QED BY <1>1, <1>2, <1>3, <1>4, Zenon DEF RootInv

(* The case of a step that changes the Host alone.                          *)
LEMMA LocalStep ==
  ASSUME LifecycleConstants, RootInv, NEW h \in Hosts, NEW x \in HostRecords,
           host' = [host EXCEPT ![h] = x],
         UNCHANGED <<lock, jobs, module, call, reset, files>>, HostInv(h)'
  PROVE  RootInv'
<1>1. jobs[h] \in SUBSET (Lifecycle \cup Maintenance)
        /\ jobs' = [jobs EXCEPT ![h] = jobs[h]]
  BY Zenon DEF RootInv, Shape
<1> QED BY <1>1, HostStep, Zenon DEF RootInv, Shape

(* The steps of Open and of its unwinding that move on with what is held.   *)
LEMMA GoesKeeps ==
  ASSUME LifecycleConstants, RootInv, NEW h \in Hosts, NEW at \in Stages, Goes(h, at),
         at \notin {"manager", "draining", "closing", "closed"},
         host[h].at \notin {"manager", "intervals", "open", "draining"},
         UNCHANGED <<lock, jobs, module, call, reset, files>>,
         HoldsAt(at, host[h].held)
  PROVE  RootInv'
<1> DEFINE x == [host[h] EXCEPT !.at = at]
<1>1. host[h] \in HostRecords /\ HostInv(h)
  BY Zenon DEF RootInv, Shape
<1>2. /\ x \in HostRecords /\ x.at = at
      /\ x.held = host[h].held /\ x.closed = host[h].closed /\ x.told = host[h].told
  BY <1>1, Zenon DEF HostRecords
<1>3. host' = [host EXCEPT ![h] = x] /\ host'[h] = x
  BY Zenon DEF Goes, RootInv, Shape
<1> HIDE DEF x
<1>4. LockHeld(h)' /\ WorkInside(h)'
  BY <1>1, <1>2, <1>3, Zenon DEF LockHeld, WorkInside, HostInv
<1>5. ModuleOwned(h)'
  BY <1>1, <1>2, <1>3, Zenon DEF ModuleOwned, HostInv
<1> QED BY <1>2, <1>3, <1>4, <1>5, LocalStep, Zenon DEF HostInv

(* The steps of Open that open a store under the lock.                      *)
LEMMA OpensKeeps ==
  ASSUME LifecycleConstants, RootInv, NEW h \in Hosts, NEW at \in Stages,
         NEW r \in {"control", "stage", "data"}, GoesHolding(h, at, r),
         at \notin {"manager", "draining", "closing", "closed"},
         host[h].at \in {"control", "stage", "data"},
         UNCHANGED <<lock, jobs, module, call, reset>>,
         files' \in FileStates,
         HoldsAt(at, host[h].held \cup {r})
  PROVE  RootInv'
<1> DEFINE x == [host[h] EXCEPT !.at = at, !.held = @ \cup {r}]
<1>1. host[h] \in HostRecords /\ HostInv(h)
  BY Zenon DEF RootInv, Shape
<1>2. /\ x \in HostRecords /\ x.at = at /\ x.held = host[h].held \cup {r}
      /\ x.closed = host[h].closed /\ x.told = host[h].told
  BY <1>1, Zenon DEF HostRecords, Resources
<1>3. host' = [host EXCEPT ![h] = x] /\ host'[h] = x
  BY Zenon DEF GoesHolding, RootInv, Shape
<1> HIDE DEF x
<1>4. lock = h
  BY <1>1, Zenon DEF HostInv, HoldsAt, LockHeld
<1>5. LockHeld(h)' /\ WorkInside(h)'
  BY <1>1, <1>2, <1>3 DEF LockHeld, WorkInside, HostInv
<1>6. ModuleOwned(h)'
  BY <1>1, <1>2, <1>3 DEF ModuleOwned, HostInv
<1>7. jobs[h] \in SUBSET (Lifecycle \cup Maintenance)
        /\ jobs' = [jobs EXCEPT ![h] = jobs[h]]
  BY Zenon DEF RootInv, Shape
<1> QED BY <1>2, <1>3, <1>4, <1>5, <1>6, <1>7, HostStep, Zenon
           DEF HostInv, RootInv, Shape

(* Open from the lock to the jobs, without the runtime module               *)
(* (openControlStore, bindInternalPlatformState,                            *)
(* openExternalPackagePipeline, openPluginDataStore, the reconciliations).  *)
LEMMA OpeningKeeps ==
  ASSUME LifecycleConstants, RootInv, NEW h \in Hosts,
         \/ openControlStore(h) \/ bindInternalPlatformState(h)
         \/ openExternalPackagePipeline(h) \/ openPluginDataStore(h) \/ Assemble(h)
  PROVE  RootInv'
<1>1. HoldsAt(host[h].at, host[h].held) /\ host[h].held \subseteq Resources
  BY Zenon DEF RootInv, HostInv, Shape, HostRecords
<1>2. CASE openControlStore(h)
  <2>1. files' \in FileStates
    BY <1>2, ZenonT(40) DEF openControlStore, RootInv, Shape, AllKinds, FileStates
  <2>2. CASE GoesHolding(h, "bind", "control")
    BY <1>1, <1>2, <2>1, <2>2, OpensKeeps, ZenonT(40) DEF openControlStore, HoldsAt, Stages, Opening
  <2>3. CASE Fails(h) /\ UNCHANGED files
    BY <1>1, <1>2, <2>3, GoesKeeps, Zenon DEF openControlStore, Fails, HoldsAt, Stages
  <2> QED BY <1>2, <2>2, <2>3, Zenon DEF openControlStore
<1>3. CASE bindInternalPlatformState(h)
  <2>1. CASE Goes(h, "stage")
    BY <1>1, <1>3, <2>1, GoesKeeps, Zenon DEF bindInternalPlatformState, HoldsAt, Stages, Opening
  <2>2. CASE Fails(h)
    BY <1>1, <1>3, <2>2, GoesKeeps, Zenon DEF bindInternalPlatformState, Fails, HoldsAt, Stages
  <2> QED BY <1>3, <2>1, <2>2, Zenon DEF bindInternalPlatformState
<1>4. CASE openExternalPackagePipeline(h)
  <2>1. CASE GoesHolding(h, "data", "stage")
    BY <1>1, <1>4, <2>1, OpensKeeps, Zenon
       DEF openExternalPackagePipeline, HoldsAt, Stages, Opening, RootInv, Shape
  <2>2. CASE Goes(h, "data")
    BY <1>1, <1>4, <2>2, GoesKeeps, Zenon
       DEF openExternalPackagePipeline, HoldsAt, Stages, Opening
  <2>3. CASE Fails(h)
    BY <1>1, <1>4, <2>3, GoesKeeps, Zenon DEF openExternalPackagePipeline, Fails, HoldsAt, Stages
  <2> QED BY <1>4, <2>1, <2>2, <2>3, Zenon DEF openExternalPackagePipeline
<1>5. CASE openPluginDataStore(h)
  <2>1. files' \in FileStates
    BY <1>5, Zenon DEF openPluginDataStore, RootInv, Shape, AllKinds, FileStates
  <2>2. CASE GoesHolding(h, "claim", "data")
    BY <1>1, <1>5, <2>1, <2>2, OpensKeeps
       DEF openPluginDataStore, HoldsAt, Stages, Opening, Stores
  <2>3. CASE Fails(h) /\ UNCHANGED files
    BY <1>1, <1>5, <2>3, GoesKeeps, Zenon DEF openPluginDataStore, Fails, HoldsAt, Stages
  <2> QED BY <1>5, <2>2, <2>3, Zenon DEF openPluginDataStore
<1>6. CASE Assemble(h)
  <2>1. CASE Goes(h, IF host[h].at = "assemble" THEN "reconcile" ELSE "start")
    BY <1>1, <1>6, <2>1, GoesKeeps, Zenon DEF Assemble, HoldsAt, Stages, Opening
  <2>2. CASE Fails(h)
    BY <1>1, <1>6, <2>2, GoesKeeps, Zenon DEF Assemble, Fails, HoldsAt, Stages
  <2> QED BY <1>6, <2>1, <2>2, Zenon DEF Assemble
<1> QED BY <1>2, <1>3, <1>4, <1>5, <1>6, Zenon

(* An incomplete configuration is refused before anything is opened.        *)
LEMMA normalizeConfigKeeps ==
  ASSUME LifecycleConstants, RootInv, NEW h \in Hosts, normalizeConfig(h)
  PROVE  RootInv'
<1>1. host[h].at = "none" /\ host[h].held = {} /\ host[h].told = Nil
  BY DEF normalizeConfig, Absent
<1>2. host[h] \in HostRecords /\ HostInv(h)
        /\ jobs[h] \in SUBSET (Lifecycle \cup Maintenance)
  BY Zenon DEF RootInv, Shape
<1>3. PICK told \in {"plain", "caller_owned", "already_closed"} :
        /\ told = "already_closed" => module.state # "owned"
        /\ host' = [host EXCEPT ![h].at = "failed", ![h].told = told]
  BY Zenon DEF normalizeConfig
<1>4. UNCHANGED <<lock, jobs, module, call, reset, files>>
  BY Zenon DEF normalizeConfig
<1>5. RootInv'
  <2> DEFINE x == [host[h] EXCEPT !.at = "failed", !.told = told]
  <2>1. /\ x \in HostRecords /\ x.at = "failed" /\ x.held = host[h].held
        /\ x.closed = host[h].closed /\ x.told = told
    BY <1>1, <1>2, Zenon DEF HostRecords, Stages, Opening, Told, Resources
  <2>2. host' = [host EXCEPT ![h] = x] /\ host'[h] = x
    BY <1>3, Zenon DEF RootInv, Shape
  <2> HIDE DEF x
  <2>3. HoldsAt(host[h].at, host[h].held)' /\ LockHeld(h)'
    BY <1>1, <1>2, <1>4, <2>1, <2>2, Zenon DEF HoldsAt, LockHeld, HostInv, Stores
  <2>4. WorkInside(h)'
    BY <1>1, <1>2, <1>4, <2>1, <2>2, Zenon DEF WorkInside, HostInv
  <2>5. ModuleOwned(h)'
    BY <1>1, <1>2, <1>3, <1>4, <2>1, <2>2 DEF ModuleOwned, HostInv
  <2> QED BY <1>4, <2>1, <2>2, <2>3, <2>4, <2>5, LocalStep, Zenon DEF HostInv
<1> QED BY <1>5, Zenon

(* The lock is taken when it is free; Open fails without it.                *)
LEMMA acquireEnvironmentRootLockKeeps ==
  ASSUME LifecycleConstants, RootInv, NEW h \in Hosts, acquireEnvironmentRootLock(h)
  PROVE  RootInv'
<1>1. host[h].at = "none" /\ host[h].held = {} /\ host[h].told = Nil
  BY DEF acquireEnvironmentRootLock, Absent
<1>2. host[h] \in HostRecords /\ HostInv(h)
        /\ jobs[h] \in SUBSET (Lifecycle \cup Maintenance)
  BY Zenon DEF RootInv, Shape
<1>3. CASE lock = Nil /\ lock' = h /\ GoesHolding(h, "control", "lock")
  <2> DEFINE x == [host[h] EXCEPT !.at = "control", !.held = @ \cup {"lock"}]
  <2>1. /\ x \in HostRecords /\ x.at = "control" /\ x.held = host[h].held \cup {"lock"}
        /\ x.closed = host[h].closed /\ x.told = host[h].told
    BY <1>1, <1>2, Zenon DEF HostRecords, Stages, Opening, Told, Resources
  <2>2. host' = [host EXCEPT ![h] = x] /\ host'[h] = x
    BY <1>1, <1>3, Zenon DEF acquireEnvironmentRootLock, GoesHolding, RootInv, Shape
  <2> HIDE DEF x
  <2>3. jobs' = [jobs EXCEPT ![h] = jobs[h]] /\ jobs'[h] = jobs[h]
    BY <1>1, <1>3, Zenon DEF acquireEnvironmentRootLock, GoesHolding, RootInv, Shape
  <2>4. HoldsAt(host[h].at, host[h].held)' /\ LockHeld(h)'
    BY <1>1, <1>2, <2>1, <2>2, <1>3, Zenon
       DEF acquireEnvironmentRootLock, GoesHolding, HoldsAt, LockHeld, HostInv, Stores,
           LifecycleConstants
  <2>5. WorkInside(h)'
    BY <1>1, <1>2, <2>1, <2>2, <2>3, <1>3, Zenon
       DEF acquireEnvironmentRootLock, GoesHolding, WorkInside, HostInv
  <2>6. ModuleOwned(h)'
    BY <1>1, <1>2, <2>1, <2>2, <1>3
       DEF acquireEnvironmentRootLock, GoesHolding, ModuleOwned, HostInv
  <2>7. lock = Nil /\ lock' = h /\ UNCHANGED module
    BY <1>1, <1>2, <1>3, Zenon
       DEF acquireEnvironmentRootLock, GoesHolding, RootInv, Shape, HostInv,
           ModuleOwned, LockHeld
  <2>8. UNCHANGED <<call, reset, files>>
    BY <1>3, Zenon DEF acquireEnvironmentRootLock, GoesHolding
  <2> QED BY <1>2, <2>1, <2>2, <2>3, <2>4, <2>5, <2>6, <2>7, <2>8, HostStep, ZenonT(40)
             DEF HostInv, RootInv, Shape
<1>4. CASE Goes(h, "failed") /\ UNCHANGED lock
  BY <1>1, <1>2, <1>4, GoesKeeps, Zenon DEF acquireEnvironmentRootLock, Absent, Stages, HoldsAt
<1> QED BY <1>3, <1>4, Zenon DEF acquireEnvironmentRootLock

(* The runtime module goes to the first Host that claims it.                *)
LEMMA claimForHostKeeps ==
  ASSUME LifecycleConstants, RootInv, NEW h \in Hosts, claimForHost(h)
  PROVE  RootInv'
<1>1. host[h].at = "claim"
  BY Zenon DEF claimForHost
<1>2. host[h] \in HostRecords /\ HostInv(h)
        /\ jobs[h] \in SUBSET (Lifecycle \cup Maintenance)
  BY Zenon DEF RootInv, Shape
<1>3. CASE /\ module.state = "owned" /\ Goes(h, "manager")
            /\ module' = [module EXCEPT !.state = "transferred", !.by = h]
  <2> DEFINE x == [host[h] EXCEPT !.at = "manager"]
  <2>1. /\ x \in HostRecords /\ x.at = "manager" /\ x.held = host[h].held
        /\ x.closed = host[h].closed /\ x.told = host[h].told
    BY <1>1, <1>2, Zenon DEF HostRecords, Stages, Opening, Told, Resources
  <2>2. host' = [host EXCEPT ![h] = x] /\ host'[h] = x
    BY <1>1, <1>3, Zenon DEF claimForHost, Goes, RootInv, Shape
  <2> HIDE DEF x
  <2>3. jobs' = [jobs EXCEPT ![h] = jobs[h]] /\ jobs'[h] = jobs[h]
    BY <1>1, <1>3, Zenon DEF claimForHost, Goes, RootInv, Shape
  <2>4. HoldsAt(host[h].at, host[h].held)' /\ LockHeld(h)'
    BY <1>1, <1>2, <2>1, <2>2, <1>3
       DEF claimForHost, Goes, HoldsAt, LockHeld, HostInv, Stores
  <2>5. WorkInside(h)'
    BY <1>1, <1>2, <2>1, <2>2, <2>3, <1>3, Zenon DEF claimForHost, Goes, WorkInside, HostInv
  <2>6. ModuleOwned(h)'
    BY <1>1, <1>2, <2>1, <2>2, <1>3
       DEF claimForHost, Goes, ModuleOwned, HostInv, HoldsAt, Stores, RootInv, Shape,
           LifecycleConstants
  <2>7. /\ module' \in Modules
        /\ \/ module.state = "owned" /\ module'.by = h /\ module'.state = "transferred"
           \/ module'.by = module.by /\ module'.state = module.state /\ ~module'.journalled
           \/ module.by = h /\ module'.by = h /\ module'.state = "closed"
        /\ UNCHANGED lock
    BY <1>1, <1>2, <1>3, Zenon
       DEF claimForHost, Goes, RootInv, Shape, HostInv, ModuleOwned, LockHeld,
           Modules
  <2>8. UNCHANGED <<call, reset, files>>
    BY <1>3, Zenon DEF claimForHost, Goes
  <2> QED BY <1>2, <2>1, <2>2, <2>3, <2>4, <2>5, <2>6, <2>7, <2>8, HostStep, ZenonT(40)
             DEF HostInv, RootInv, Shape
<1>4. CASE /\ module.state = "owned" /\ FailsTelling(h, "already_closed")
            /\ module' = [module EXCEPT !.journalled = FALSE]
  <2> DEFINE x == [host[h] EXCEPT !.at = "unwind", !.told = "already_closed"]
  <2>1. /\ x \in HostRecords /\ x.at = "unwind" /\ x.held = host[h].held
        /\ x.closed = host[h].closed /\ x.told = "already_closed"
    BY <1>1, <1>2, Zenon DEF HostRecords, Stages, Opening, Told, Resources
  <2>2. host' = [host EXCEPT ![h] = x] /\ host'[h] = x
    BY <1>1, <1>4, Zenon DEF claimForHost, FailsTelling, RootInv, Shape
  <2> HIDE DEF x
  <2>3. jobs' = [jobs EXCEPT ![h] = jobs[h]] /\ jobs'[h] = jobs[h]
    BY <1>1, <1>4, Zenon DEF claimForHost, FailsTelling, RootInv, Shape
  <2>4. HoldsAt(host[h].at, host[h].held)' /\ LockHeld(h)'
    BY <1>1, <1>2, <2>1, <2>2, <1>4
       DEF claimForHost, FailsTelling, HoldsAt, LockHeld, HostInv, Stores
  <2>5. WorkInside(h)'
    BY <1>1, <1>2, <2>1, <2>2, <2>3, <1>4, Zenon
       DEF claimForHost, FailsTelling, WorkInside, HostInv
  <2>6. ModuleOwned(h)'
    BY <1>1, <1>2, <2>1, <2>2, <1>4
       DEF claimForHost, FailsTelling, ModuleOwned, HostInv, HoldsAt, Stores,
           RootInv, Shape, LifecycleConstants
  <2>7. /\ module' \in Modules
        /\ \/ module.state = "owned" /\ module'.by = h /\ module'.state = "transferred"
           \/ module'.by = module.by /\ module'.state = module.state /\ ~module'.journalled
           \/ module.by = h /\ module'.by = h /\ module'.state = "closed"
        /\ UNCHANGED lock
    BY <1>1, <1>2, <1>4, Zenon
       DEF claimForHost, FailsTelling, RootInv, Shape, HostInv, ModuleOwned,
           LockHeld, Modules
  <2>8. UNCHANGED <<call, reset, files>>
    BY <1>4, Zenon DEF claimForHost, FailsTelling
  <2> QED BY <1>2, <2>1, <2>2, <2>3, <2>4, <2>5, <2>6, <2>7, <2>8, HostStep, Zenon
             DEF HostInv, RootInv, Shape
<1>5. CASE /\ module.state # "owned" /\ UNCHANGED module
            /\ FailsTelling(h, IF module.state = "transferred" 
                                 THEN "consumed_and_closed" 
                                 ELSE "already_closed")
  <2> DEFINE x == [host[h] EXCEPT !.at = "unwind", !.told =
                   IF module.state = "transferred" THEN "consumed_and_closed"
                   ELSE "already_closed"]
  <2>1. /\ x \in HostRecords /\ x.at = "unwind" /\ x.held = host[h].held
        /\ x.closed = host[h].closed /\ x.told = (IF module.state = "transferred"
             THEN "consumed_and_closed" ELSE "already_closed")
    BY <1>1, <1>2, Zenon DEF HostRecords, Stages, Opening, Told, Resources
  <2>2. host' = [host EXCEPT ![h] = x] /\ host'[h] = x
    BY <1>1, <1>5, Zenon DEF claimForHost, FailsTelling, RootInv, Shape
  <2> HIDE DEF x
  <2>3. jobs' = [jobs EXCEPT ![h] = jobs[h]] /\ jobs'[h] = jobs[h]
    BY <1>1, <1>5, Zenon DEF claimForHost, FailsTelling, RootInv, Shape
  <2>4. HoldsAt(host[h].at, host[h].held)' /\ LockHeld(h)'
    BY <1>1, <1>2, <2>1, <2>2, <1>5
       DEF claimForHost, FailsTelling, HoldsAt, LockHeld, HostInv, Stores
  <2>5. WorkInside(h)'
    BY <1>1, <1>2, <2>1, <2>2, <2>3, <1>5, Zenon
       DEF claimForHost, FailsTelling, WorkInside, HostInv
  <2>6. ModuleOwned(h)'
    BY <1>1, <1>2, <2>1, <2>2, <1>5, Zenon DEF claimForHost, FailsTelling, ModuleOwned, HostInv
  <2> QED BY <1>1, <1>2, <2>1, <2>2, <2>4, <2>5, <2>6, <1>5, LocalStep, ZenonT(40)
             DEF claimForHost, FailsTelling, HostInv
<1>6. CASE Goes(h, "assemble") /\ UNCHANGED module
  BY <1>1, <1>2, <1>6, GoesKeeps
     DEF claimForHost, HostInv, HoldsAt, Stages, Opening, Stores
<1> QED BY <1>3, <1>4, <1>5, <1>6, Zenon DEF claimForHost

(* A manager that cannot be built closes the claimed module.                *)
LEMMA newRuntimeManagerFromCapabilityKeeps ==
  ASSUME LifecycleConstants, RootInv, NEW h \in Hosts,
           newRuntimeManagerFromCapability(h)
  PROVE  RootInv'
<1>1. host[h].at = "manager"
  BY Zenon DEF newRuntimeManagerFromCapability
<1>2. host[h] \in HostRecords /\ HostInv(h)
        /\ jobs[h] \in SUBSET (Lifecycle \cup Maintenance)
  BY Zenon DEF RootInv, Shape
<1>3. CASE GoesHolding(h, "assemble", "module") /\ UNCHANGED module
  <2> DEFINE x == [host[h] EXCEPT !.at = "assemble", !.held = @ \cup {"module"}]
  <2>1. /\ x \in HostRecords /\ x.at = "assemble" /\ x.held = host[h].held \cup {"module"}
        /\ x.closed = host[h].closed /\ x.told = host[h].told
    BY <1>1, <1>2, Zenon DEF HostRecords, Stages, Opening, Told, Resources
  <2>2. host' = [host EXCEPT ![h] = x] /\ host'[h] = x
    BY <1>1, <1>3, Zenon
       DEF newRuntimeManagerFromCapability, GoesHolding, RootInv, Shape
  <2> HIDE DEF x
  <2>3. jobs' = [jobs EXCEPT ![h] = jobs[h]] /\ jobs'[h] = jobs[h]
    BY <1>1, <1>3, Zenon DEF newRuntimeManagerFromCapability, GoesHolding, RootInv, Shape
  <2>4. HoldsAt(host[h].at, host[h].held)' /\ LockHeld(h)'
    BY <1>1, <1>2, <2>1, <2>2, <1>3
       DEF newRuntimeManagerFromCapability, GoesHolding, HoldsAt, LockHeld, HostInv,
           Stores
  <2>5. WorkInside(h)'
    BY <1>1, <1>2, <2>1, <2>2, <2>3, <1>3, Zenon
       DEF newRuntimeManagerFromCapability, GoesHolding, WorkInside, HostInv
  <2>6. ModuleOwned(h)'
    BY <1>1, <1>2, <2>1, <2>2, <1>3, Zenon
       DEF newRuntimeManagerFromCapability, GoesHolding, ModuleOwned, HostInv
  <2> QED BY <1>1, <1>2, <2>1, <2>2, <2>4, <2>5, <2>6, <1>3, LocalStep, ZenonT(40)
             DEF newRuntimeManagerFromCapability, GoesHolding, HostInv
<1>4. CASE /\ module' = [module EXCEPT !.state = "closed"]
            /\ FailsTelling(h, "consumed_and_closed")
  <2> DEFINE x == [host[h] EXCEPT !.at = "unwind", !.told = "consumed_and_closed"]
  <2>1. /\ x \in HostRecords /\ x.at = "unwind" /\ x.held = host[h].held
        /\ x.closed = host[h].closed /\ x.told = "consumed_and_closed"
    BY <1>1, <1>2, Zenon DEF HostRecords, Stages, Opening, Told, Resources
  <2>2. host' = [host EXCEPT ![h] = x] /\ host'[h] = x
    BY <1>1, <1>4, Zenon
       DEF newRuntimeManagerFromCapability, FailsTelling, RootInv, Shape
  <2> HIDE DEF x
  <2>3. jobs' = [jobs EXCEPT ![h] = jobs[h]] /\ jobs'[h] = jobs[h]
    BY <1>1, <1>4, Zenon DEF newRuntimeManagerFromCapability, FailsTelling, RootInv, Shape
  <2>4. HoldsAt(host[h].at, host[h].held)' /\ LockHeld(h)'
    BY <1>1, <1>2, <2>1, <2>2, <1>4
       DEF newRuntimeManagerFromCapability, FailsTelling, HoldsAt, LockHeld, HostInv,
           Stores
  <2>5. WorkInside(h)'
    BY <1>1, <1>2, <2>1, <2>2, <2>3, <1>4, Zenon
       DEF newRuntimeManagerFromCapability, FailsTelling, WorkInside, HostInv
  <2>6. ModuleOwned(h)'
    <3>1. "module" \notin host[h].held
      BY <1>1, <1>2, Zenon DEF HostInv, HoldsAt, Stores
    <3>2. module'.state = "closed"
      BY <1>4 DEF RootInv, Shape
    <3> QED BY <2>1, <2>2, <3>1, <3>2, Zenon DEF ModuleOwned
  <2>7. /\ module' \in Modules
        /\ \/ module.state = "owned" /\ module'.by = h /\ module'.state = "transferred"
           \/ module'.by = module.by /\ module'.state = module.state /\ ~module'.journalled
           \/ module.by = h /\ module'.by = h /\ module'.state = "closed"
        /\ UNCHANGED lock
    BY <1>1, <1>2, <1>4, Zenon
       DEF newRuntimeManagerFromCapability, FailsTelling, RootInv, Shape, HostInv,
           ModuleOwned, LockHeld, Modules
  <2>8. UNCHANGED <<call, reset, files>>
    BY <1>4, Zenon DEF newRuntimeManagerFromCapability, FailsTelling
  <2> QED BY <1>2, <2>1, <2>2, <2>3, <2>4, <2>5, <2>6, <2>7, <2>8, HostStep, Zenon
             DEF HostInv, RootInv, Shape
<1> QED BY <1>3, <1>4, Zenon DEF newRuntimeManagerFromCapability

(* The goroutines start when the stores are open.                           *)
LEMMA StartJobsKeeps ==
  ASSUME LifecycleConstants, RootInv, NEW h \in Hosts, StartJobs(h)
  PROVE  RootInv'
<1>1. host[h].at = "start"
  BY Zenon DEF StartJobs
<1>2. host[h] \in HostRecords /\ HostInv(h)
        /\ jobs[h] \in SUBSET (Lifecycle \cup Maintenance)
  BY Zenon DEF RootInv, Shape
<1>3. ASSUME NEW at \in {"intervals", "open"}, GoesHolding(h, at, "assets")
               PROVE RootInv'
  <2> DEFINE x == [host[h] EXCEPT !.at = at, !.held = @ \cup {"assets"}]
  <2>1. /\ x \in HostRecords /\ x.at = at /\ x.held = host[h].held \cup {"assets"}
        /\ x.closed = host[h].closed /\ x.told = host[h].told
    BY <1>1, <1>2, Zenon DEF HostRecords, Stages, Opening, Told, Resources
  <2>2. host' = [host EXCEPT ![h] = x] /\ host'[h] = x
    BY <1>1, <1>3, Zenon DEF StartJobs, GoesHolding, RootInv, Shape
  <2> HIDE DEF x
  <2>3. /\ jobs'[h] \in SUBSET (Lifecycle \cup Maintenance)
        /\ jobs' = [jobs EXCEPT ![h] = jobs'[h]]
    BY <1>1, <1>3
       DEF StartJobs, GoesHolding, RootInv, Shape, Started, Lifecycle, Maintenance
  <2>4. HoldsAt(host[h].at, host[h].held)' /\ LockHeld(h)'
    BY <1>1, <1>2, <2>1, <2>2, <1>3
       DEF StartJobs, GoesHolding, HoldsAt, LockHeld, HostInv, Stores
  <2>5. WorkInside(h)'
    BY <1>1, <1>2, <2>1, <2>2, <2>3, <1>3 DEF StartJobs, GoesHolding, WorkInside, HostInv
  <2>6. ModuleOwned(h)'
    BY <1>1, <1>2, <2>1, <2>2, <1>3 DEF StartJobs, GoesHolding, ModuleOwned, HostInv
  <2>7. UNCHANGED <<lock, module>>
    BY <1>1, <1>2, <1>3, Zenon
       DEF StartJobs, GoesHolding, RootInv, Shape, HostInv, ModuleOwned, LockHeld
  <2>8. UNCHANGED <<call, reset, files>>
    BY <1>3, Zenon DEF StartJobs, GoesHolding
  <2> QED BY <1>2, <2>1, <2>2, <2>3, <2>4, <2>5, <2>6, <2>7, <2>8, HostStep, Zenon
             DEF HostInv, RootInv, Shape
<1> QED BY <1>3, Zenon DEF StartJobs

(* A failed recovery of the interval claims drains the goroutines it has    *)
(* already started before anything is closed.                               *)
LEMMA RecoverIntervalClaimsKeeps ==
  ASSUME LifecycleConstants, RootInv, NEW h \in Hosts, RecoverIntervalClaims(h)
  PROVE  RootInv'
<1>1. host[h].at = "intervals"
  BY Zenon DEF RecoverIntervalClaims
<1>2. host[h] \in HostRecords /\ HostInv(h)
        /\ jobs[h] \in SUBSET (Lifecycle \cup Maintenance)
  BY Zenon DEF RootInv, Shape
<1>3. CASE Started(h, {"intervals"}) /\ Goes(h, "open")
  <2> DEFINE x == [host[h] EXCEPT !.at = "open"]
  <2>1. /\ x \in HostRecords /\ x.at = "open" /\ x.held = host[h].held
        /\ x.closed = host[h].closed /\ x.told = host[h].told
    BY <1>1, <1>2, Zenon DEF HostRecords, Stages, Opening, Told, Resources
  <2>2. host' = [host EXCEPT ![h] = x] /\ host'[h] = x
    BY <1>1, <1>3, Zenon DEF RecoverIntervalClaims, Goes, RootInv, Shape
  <2> HIDE DEF x
  <2>3. /\ jobs'[h] \in SUBSET (Lifecycle \cup Maintenance)
        /\ jobs' = [jobs EXCEPT ![h] = jobs'[h]]
    BY <1>1, <1>3, Zenon
       DEF RecoverIntervalClaims, Goes, RootInv, Shape, Started, Lifecycle,
           Maintenance
  <2>4. HoldsAt(host[h].at, host[h].held)' /\ LockHeld(h)'
    BY <1>1, <1>2, <2>1, <2>2, <1>3
       DEF RecoverIntervalClaims, Goes, HoldsAt, LockHeld, HostInv, Stores
  <2>5. WorkInside(h)'
    BY <1>1, <1>2, <2>1, <2>2, <2>3, <1>3
       DEF RecoverIntervalClaims, Goes, WorkInside, HostInv
  <2>6. ModuleOwned(h)'
    BY <1>1, <1>2, <2>1, <2>2, <1>3 DEF RecoverIntervalClaims, Goes, ModuleOwned, HostInv
  <2>7. UNCHANGED <<lock, module>>
    BY <1>1, <1>2, <1>3
       DEF RecoverIntervalClaims, Goes, RootInv, Shape, HostInv, ModuleOwned,
           LockHeld
  <2>8. UNCHANGED <<call, reset, files>>
    BY <1>3, Zenon DEF RecoverIntervalClaims, Goes
  <2> QED BY <1>2, <2>1, <2>2, <2>3, <2>4, <2>5, <2>6, <2>7, <2>8, HostStep, ZenonT(40)
             DEF HostInv, RootInv, Shape
<1>4. CASE /\ host' = [host EXCEPT ![h].at = "draining", ![h].closed = TRUE,
                                    ![h].told = IF "module" \in host[h].held 
                                                  THEN "already_closed" 
                                                  ELSE "plain"]
            /\ UNCHANGED jobs
  <2> DEFINE x == [host[h] EXCEPT !.at = "draining", !.closed = TRUE,
                                   !.told = IF "module" \in host[h].held
                                     THEN "already_closed" ELSE "plain"]
  <2>1. /\ x \in HostRecords /\ x.at = "draining" /\ x.held = host[h].held
        /\ x.closed = TRUE /\ x.told = (IF "module" \in host[h].held
             THEN "already_closed" ELSE "plain")
    BY <1>1, <1>2, Zenon DEF HostRecords, Stages, Opening, Told, Resources
  <2>2. host' = [host EXCEPT ![h] = x] /\ host'[h] = x
    BY <1>1, <1>4, Zenon DEF RecoverIntervalClaims, RootInv, Shape
  <2> HIDE DEF x
  <2>3. jobs' = [jobs EXCEPT ![h] = jobs[h]] /\ jobs'[h] = jobs[h]
    BY <1>1, <1>4 DEF RecoverIntervalClaims, RootInv, Shape
  <2>4. HoldsAt(host[h].at, host[h].held)' /\ LockHeld(h)'
    BY <1>1, <1>2, <2>1, <2>2, <1>4
       DEF RecoverIntervalClaims, HoldsAt, LockHeld, HostInv, Stores
  <2>5. WorkInside(h)'
    BY <1>1, <1>2, <2>1, <2>2, <2>3, <1>4 DEF RecoverIntervalClaims, WorkInside, HostInv
  <2>6. ModuleOwned(h)'
    BY <1>1, <1>2, <2>1, <2>2, <1>4 DEF RecoverIntervalClaims, ModuleOwned, HostInv
  <2> QED BY <1>1, <1>2, <2>1, <2>2, <2>4, <2>5, <2>6, <1>4, LocalStep, ZenonT(40)
             DEF RecoverIntervalClaims, HostInv
<1> QED BY <1>3, <1>4, Zenon DEF RecoverIntervalClaims

(* Close publishes closed before it waits.                                  *)
LEMMA CloseKeeps ==
  ASSUME LifecycleConstants, RootInv, NEW h \in Hosts, Close(h)
  PROVE  RootInv'
<1>1. host[h].at = "open"
  BY Zenon DEF Close
<1>2. host[h] \in HostRecords /\ HostInv(h)
        /\ jobs[h] \in SUBSET (Lifecycle \cup Maintenance)
  BY Zenon DEF RootInv, Shape
<1>3. RootInv'
  <2> DEFINE x == [host[h] EXCEPT !.at = "draining", !.closed = TRUE]
  <2>1. /\ x \in HostRecords /\ x.at = "draining" /\ x.held = host[h].held
        /\ x.closed = TRUE /\ x.told = host[h].told
    BY <1>1, <1>2, Zenon DEF HostRecords, Stages, Opening, Told, Resources
  <2>2. host' = [host EXCEPT ![h] = x] /\ host'[h] = x
    BY <1>1, Zenon DEF Close, RootInv, Shape
  <2> HIDE DEF x
  <2>3. jobs' = [jobs EXCEPT ![h] = jobs[h]] /\ jobs'[h] = jobs[h]
    BY <1>1, Zenon DEF Close, RootInv, Shape
  <2>4. HoldsAt(host[h].at, host[h].held)' /\ LockHeld(h)'
    BY <1>1, <1>2, <2>1, <2>2 DEF Close, HoldsAt, LockHeld, HostInv, Stores
  <2>5. WorkInside(h)'
    BY <1>1, <1>2, <2>1, <2>2, <2>3, ZenonT(40) DEF Close, WorkInside, HostInv
  <2>6. ModuleOwned(h)'
    BY <1>1, <1>2, <2>1, <2>2 DEF Close, ModuleOwned, HostInv
  <2> QED BY <1>1, <1>2, <2>1, <2>2, <2>4, <2>5, <2>6, LocalStep, ZenonT(40) DEF Close, HostInv
<1> QED BY <1>3, Zenon

(* The wait groups are empty when the stores begin to close.                *)
LEMMA DrainKeeps ==
  ASSUME LifecycleConstants, RootInv, NEW h \in Hosts, Drain(h)
  PROVE  RootInv'
<1>1. host[h].at = "draining"
  BY Zenon DEF Drain
<1>2. host[h] \in HostRecords /\ HostInv(h)
        /\ jobs[h] \in SUBSET (Lifecycle \cup Maintenance)
  BY Zenon DEF RootInv, Shape
<1>3. RootInv'
  <2> DEFINE x == [host[h] EXCEPT !.at = "closing"]
  <2>1. /\ x \in HostRecords /\ x.at = "closing" /\ x.held = host[h].held
        /\ x.closed = host[h].closed /\ x.told = host[h].told
    BY <1>1, <1>2 DEF HostRecords, Stages, Opening, Told, Resources
  <2>2. host' = [host EXCEPT ![h] = x] /\ host'[h] = x
    BY <1>1, Zenon DEF Drain, Goes, Drained, RootInv, Shape
  <2> HIDE DEF x
  <2>3. jobs' = [jobs EXCEPT ![h] = jobs[h]] /\ jobs'[h] = jobs[h]
    BY <1>1, Zenon DEF Drain, Goes, Drained, RootInv, Shape
  <2>4. HoldsAt(host[h].at, host[h].held)' /\ LockHeld(h)'
    BY <1>1, <1>2, <2>1, <2>2, Zenon DEF Drain, Goes, Drained, HoldsAt, LockHeld, HostInv, Stores
  <2>5. WorkInside(h)'
    BY <1>1, <1>2, <2>1, <2>2, <2>3 DEF Drain, Goes, Drained, WorkInside, HostInv
  <2>6. ModuleOwned(h)'
    BY <1>1, <1>2, <2>1, <2>2 DEF Drain, Goes, Drained, ModuleOwned, HostInv
  <2> QED BY <1>1, <1>2, <2>1, <2>2, <2>4, <2>5, <2>6, LocalStep, ZenonT(40)
             DEF Drain, Goes, Drained, HostInv
<1> QED BY <1>3, Zenon

(* Each deferred closer of a failed Open.                                   *)
LEMMA UnwindKeeps ==
  ASSUME LifecycleConstants, RootInv, NEW h \in Hosts, Unwind(h)
  PROVE  RootInv'
<1>1. host[h].at = "unwind"
  BY DEF Unwind
<1>2. host[h] \in HostRecords /\ HostInv(h)
        /\ jobs[h] \in SUBSET (Lifecycle \cup Maintenance)
  BY Zenon DEF RootInv, Shape
<1>3. CASE host[h].held = {}
  BY <1>1, <1>2, <1>3, GoesKeeps DEF Unwind, HostInv, HoldsAt, Stages
<1>4. CASE host[h].held # {}
  <2> DEFINE next == Next1(UnwindOrder, host[h].held)
  <2>a. next \in host[h].held /\ (next = "lock" => host[h].held = {"lock"})
    BY <1>1, <1>2, <1>4, UnwindsLockLast DEF HostRecords, HostInv, HoldsAt
  <2>b. /\ host' = [host EXCEPT ![h].held = @ \ {next},
                            ![h].told = IF next = "module"
                                          THEN "consumed_and_closed" ELSE @]
        /\ Closed(h, next) /\ UNCHANGED <<jobs, call, reset, files>>
    BY <1>1, <1>4 DEF Unwind
  <2> HIDE DEF next
  <2> DEFINE x == [host[h] EXCEPT !.held = @ \ {next},
             !.told = IF next = "module" THEN "consumed_and_closed" ELSE @]
  <2>1. /\ x \in HostRecords /\ x.at = host[h].at /\ x.held = host[h].held \ {next}
        /\ x.closed = host[h].closed /\ x.told = (IF next = "module"
             THEN "consumed_and_closed" ELSE host[h].told)
    BY <1>1, <1>2, <2>a, ZenonT(40) DEF HostRecords, Stages, Opening, Told, Resources
  <2>2. host' = [host EXCEPT ![h] = x] /\ host'[h] = x
    BY <1>1, <2>b, Zenon DEF Closed, RootInv, Shape
  <2> HIDE DEF x
  <2>3. jobs' = [jobs EXCEPT ![h] = jobs[h]] /\ jobs'[h] = jobs[h]
    BY <1>1, <2>b DEF Closed, RootInv, Shape
  <2>4. HoldsAt(host[h].at, host[h].held)' /\ LockHeld(h)'
    BY <1>1, <1>2, <2>1, <2>2, <2>a, <2>b
       DEF Closed, HoldsAt, LockHeld, HostInv, Stores, LifecycleConstants
  <2>5. WorkInside(h)'
    BY <1>1, <1>2, <2>1, <2>2, <2>3, <2>b, Zenon DEF Closed, WorkInside, HostInv
  <2>6. ModuleOwned(h)'
    BY <1>1, <1>2, <2>1, <2>2, <2>a, <2>b, SMTT(30)
       DEF Closed, ModuleOwned, HostInv, HoldsAt, Stores, RootInv, Shape,
           LifecycleConstants
  <2>7. /\ module' \in Modules
        /\ UNCHANGED module \/ (module.by = h /\ module'.by = h /\ module'.state = "closed")
        /\ lock' = lock \/ (lock = h /\ lock' = Nil)
    BY <1>1, <1>2, <2>a, <2>b, Zenon
       DEF Closed, RootInv, Shape, HostInv, ModuleOwned, LockHeld, Modules
  <2>8. UNCHANGED <<call, reset, files>>
    BY <2>b DEF Closed
  <2> QED BY <1>2, <2>1, <2>2, <2>3, <2>4, <2>5, <2>6, <2>7, <2>8, HostStep, ZenonT(40)
             DEF HostInv, RootInv, Shape
<1> QED BY <1>3, <1>4

(* Each close of Close, and its result.                                     *)
LEMMA CloseNextKeeps ==
  ASSUME LifecycleConstants, RootInv, NEW h \in Hosts, CloseNext(h)
  PROVE  RootInv'
<1>1. host[h].at = "closing"
  BY Zenon DEF CloseNext
<1>2. host[h] \in HostRecords /\ HostInv(h)
        /\ jobs[h] \in SUBSET (Lifecycle \cup Maintenance)
  BY Zenon DEF RootInv, Shape
<1>3. CASE host[h].held = {}
  <2> DEFINE x == [host[h] EXCEPT !.at = IF host[h].told = Nil THEN "closed" ELSE "unwind"]
  <2>1. /\ x \in HostRecords /\ x.at = (IF host[h].told = Nil THEN "closed"
             ELSE "unwind") /\ x.held = host[h].held
        /\ x.closed = host[h].closed /\ x.told = host[h].told
    BY <1>1, <1>2, Zenon DEF HostRecords, Stages, Opening, Told, Resources
  <2>2. host' = [host EXCEPT ![h] = x] /\ host'[h] = x
    BY <1>1, <1>3, Zenon DEF CloseNext, Goes, RootInv, Shape
  <2> HIDE DEF x
  <2>3. jobs' = [jobs EXCEPT ![h] = jobs[h]] /\ jobs'[h] = jobs[h]
    BY <1>1, <1>3, Zenon DEF CloseNext, Goes, RootInv, Shape
  <2>4. HoldsAt(host[h].at, host[h].held)' /\ LockHeld(h)'
    BY <1>1, <1>2, <2>1, <2>2, <1>3
       DEF CloseNext, Goes, HoldsAt, LockHeld, HostInv, Stores
  <2>5. WorkInside(h)'
    BY <1>1, <1>2, <2>1, <2>2, <2>3, <1>3 DEF CloseNext, Goes, WorkInside, HostInv
  <2>6. ModuleOwned(h)'
    BY <1>1, <1>2, <2>1, <2>2, <1>3 DEF CloseNext, Goes, ModuleOwned, HostInv
  <2> QED BY <1>1, <1>2, <2>1, <2>2, <2>4, <2>5, <2>6, <1>3, LocalStep, ZenonT(40)
             DEF CloseNext, Goes, HostInv
<1>4. CASE host[h].held # {}
  <2> DEFINE next == Next1(CloseOrder, host[h].held)
  <2>a. next \in host[h].held /\ (next = "lock" => host[h].held = {"lock"})
    BY <1>1, <1>2, <1>4, ClosesLockLast DEF HostRecords, HostInv, HoldsAt
  <2>b. /\ host' = [host EXCEPT ![h].held = @ \ {next}]
        /\ Closed(h, next) /\ UNCHANGED <<jobs, call, reset, files>>
    BY <1>1, <1>4 DEF CloseNext
  <2> HIDE DEF next
  <2> DEFINE x == [host[h] EXCEPT !.held = @ \ {next}]
  <2>1. /\ x \in HostRecords /\ x.at = host[h].at /\ x.held = host[h].held \ {next}
        /\ x.closed = host[h].closed /\ x.told = host[h].told
    BY <1>1, <1>2, <2>a DEF HostRecords, Stages, Opening, Told, Resources
  <2>2. host' = [host EXCEPT ![h] = x] /\ host'[h] = x
    BY <1>1, <2>b DEF Closed, RootInv, Shape
  <2> HIDE DEF x
  <2>3. jobs' = [jobs EXCEPT ![h] = jobs[h]] /\ jobs'[h] = jobs[h]
    BY <1>1, <2>b DEF Closed, RootInv, Shape
  <2>4. HoldsAt(host[h].at, host[h].held)' /\ LockHeld(h)'
    BY <1>1, <1>2, <2>1, <2>2, <2>a, <2>b
       DEF Closed, HoldsAt, LockHeld, HostInv, Stores, LifecycleConstants
  <2>5. WorkInside(h)'
    BY <1>1, <1>2, <2>1, <2>2, <2>3, <2>b DEF Closed, WorkInside, HostInv
  <2>6. ModuleOwned(h)'
    BY <1>1, <1>2, <2>1, <2>2, <2>a, <2>b
       DEF Closed, ModuleOwned, HostInv, HoldsAt, Stores, RootInv, Shape,
           LifecycleConstants
  <2>7. /\ module' \in Modules
        /\ UNCHANGED module \/ (module.by = h /\ module'.by = h /\ module'.state = "closed")
        /\ lock' = lock \/ (lock = h /\ lock' = Nil)
    BY <1>1, <1>2, <2>a, <2>b
       DEF Closed, RootInv, Shape, HostInv, ModuleOwned, LockHeld, Modules
  <2>8. UNCHANGED <<call, reset, files>>
    BY <2>b DEF Closed
  <2> QED BY <1>2, <2>1, <2>2, <2>3, <2>4, <2>5, <2>6, <2>7, <2>8, HostStep, ZenonT(40)
             DEF HostInv, RootInv, Shape
<1> QED BY <1>3, <1>4, Zenon

(* A step of nobody changes nothing.                                        *)
LEMMA RootStutters ==
  ASSUME RootInv, UNCHANGED <<lock, host, jobs, module, call, reset, files>>
  PROVE  RootInv'
<1>1. Shape' /\ (module.state = "owned" => module.by = Nil)'
  BY SMTT(30) DEF RootInv, Shape
<1>2. ASSUME NEW h \in Hosts PROVE HostInv(h)'
  BY SMTT(30) DEF RootInv, HostInv, LockHeld, WorkInside, ModuleOwned
<1>3. ASSUME NEW r \in Resets PROVE ResetInv(r)'
  BY SMTT(30) DEF RootInv, ResetInv
<1> QED BY <1>1, <1>2, <1>3 DEF RootInv

(* Goroutines that end, calls that are admitted and return (ensureOpen      *)
(* admits none after Close), and a caller who closes an unclaimed module.   *)
LEMMA WorkKeeps ==
  ASSUME LifecycleConstants, RootInv,
         \/ \E h \in Hosts, j \in Lifecycle \cup Maintenance : JobEnds(h, j)
         \/ \E c \in Calls, h \in Hosts : ensureOpen(c, h)
         \/ \E c \in Calls : Return(c)
         \/ \E d \in Direct :
               \/ \E h \in Hosts : authorizeManagement(d, h)
               \/ \E store \in Worked : BeginOperation(d, store)
               \/ EndOperation(d) \/ ReturnDirect(d)
         \/ CloseModule
  PROVE  RootInv'
<1>1. CASE \E h \in Hosts, j \in Lifecycle \cup Maintenance : JobEnds(h, j)
  <2> PICK h \in Hosts, j \in Lifecycle \cup Maintenance : JobEnds(h, j)
    BY <1>1
  <2>1. Shape'
    BY DEF JobEnds, RootInv, Shape
  <2>2. ASSUME NEW d \in Hosts PROVE HostInv(d)'
    <3>1. jobs'[d] \subseteq jobs[d] /\ HostInv(d)
      BY Zenon DEF JobEnds, RootInv, Shape
    <3> QED BY <3>1 DEF JobEnds, HostInv, LockHeld, WorkInside, ModuleOwned
  <2>3. ASSUME NEW r \in Resets PROVE ResetInv(r)'
    BY SMTT(30) DEF JobEnds, RootInv, ResetInv
  <2> QED BY <2>1, <2>2, <2>3 DEF RootInv, JobEnds
<1>2. ASSUME NEW c \in Calls, NEW h \in Hosts \cup {Nil}, call' = [call EXCEPT ![c] = h],
             UNCHANGED <<lock, host, jobs, module, reset, files>>,
             h # Nil => host[h].at \in {"open", "draining"}
      PROVE  RootInv'
  <2>1. Shape'
    BY <1>2, ZenonT(40) DEF RootInv, Shape
  <2>2. ASSUME NEW d \in Hosts PROVE HostInv(d)'
    <3>1. \A e \in Calls : call'[e] = d => call[e] = d \/ host[d].at \in {"open",
            "draining"}
      BY <1>2 DEF RootInv, Shape, LifecycleConstants
    <3>2. HostInv(d)
      BY ZenonT(40) DEF RootInv
    <3> QED BY <1>2, <3>1, <3>2, SMTT(30) DEF HostInv, LockHeld, WorkInside, ModuleOwned
  <2>3. ASSUME NEW r \in Resets PROVE ResetInv(r)'
    BY <1>2 DEF RootInv, ResetInv
  <2> QED BY <1>2, <2>1, <2>2, <2>3 DEF RootInv
<1>3. CASE \E c \in Calls, h \in Hosts : ensureOpen(c, h)
  <2> PICK c \in Calls, h \in Hosts : ensureOpen(c, h)
    BY <1>3, SMTT(30)
  <2>1. host[h].at \in {"open", "draining"}
    BY ZenonT(40) DEF ensureOpen, RootInv, HostInv, WorkInside
  <2> QED BY <1>2, <2>1, ZenonT(40) DEF ensureOpen
<1>4. CASE \E c \in Calls : Return(c)
  BY <1>2, <1>4, ZenonT(40) DEF Return
<1>5. CASE CloseModule
  <2>1. Shape' /\ module'.state = "closed" /\ module'.by = Nil
    BY <1>5 DEF CloseModule, RootInv, Shape, Modules
  <2>2. ASSUME NEW d \in Hosts PROVE HostInv(d)'
    <3>1. HostInv(d) /\ module.state = "owned" /\ d # Nil
      BY <1>5 DEF RootInv, CloseModule, LifecycleConstants
    <3> QED BY <1>5, <2>1, <3>1
               DEF CloseModule, HostInv, LockHeld, WorkInside, ModuleOwned
  <2>3. ASSUME NEW r \in Resets PROVE ResetInv(r)'
    BY <1>5 DEF CloseModule, RootInv, ResetInv
  <2> QED BY <2>1, <2>2, <2>3 DEF RootInv
<1>6. CASE UNCHANGED <<lock, host, jobs, module, call, reset, files>>
  BY <1>6, RootStutters
<1>7. CASE \E d \in Direct :
             \/ \E h \in Hosts : authorizeManagement(d, h)
             \/ \E store \in Worked : BeginOperation(d, store)
             \/ EndOperation(d) \/ ReturnDirect(d)
  BY <1>6, <1>7, ZenonT(40) DEF authorizeManagement, BeginOperation, EndOperation, ReturnDirect
<1> QED BY <1>1, <1>3, <1>4, <1>5, <1>7

(* What the step of a reset has to show: it has the lock, so no Host has a  *)
(* store open and no other reset is under way.                              *)
LEMMA ResetStep ==
  ASSUME LifecycleConstants, RootInv, NEW r \in Resets,
         NEW x \in ResetRecords,
         reset' = [reset EXCEPT ![r] = x],
         UNCHANGED <<host, jobs, module, call>>,
         lock \in {Nil, r} /\ lock' \in {Nil, r},
         files' \in FileStates,
         ResetInv(r)'
  PROVE  RootInv'
<1>1. Shape'
  BY DEF RootInv, Shape
<1>2. ASSUME NEW h \in Hosts PROVE HostInv(h)'
  BY <1>2 DEF RootInv, HostInv, LockHeld, WorkInside, ModuleOwned, LifecycleConstants
<1>3. ASSUME NEW d \in Resets, d # r PROVE ResetInv(d)'
  <2>1. reset'[d] = reset[d] /\ ResetInv(d) /\ d # Nil
    BY <1>3 DEF RootInv, Shape, LifecycleConstants
  <2>2. reset[d].at = "none" /\ reset[d].done = 0
    BY <1>3, <2>1 DEF ResetInv
  <2> QED BY <1>3, <2>1, <2>2, SMTT(30) DEF ResetInv
<1> QED BY <1>1, <1>2, <1>3 DEF RootInv

(* ResetEnvironment from the lock to the result: it removes the selected    *)
(* kinds one by one and builds the core again.                              *)
LEMMA ResetKeeps ==
  ASSUME LifecycleConstants, RootInv, NEW r \in Resets,
         \/ LockForReset(r) \/ Unlock(r)
         \/ removeEnvironmentResetEntry(r) \/ initializeResetEnvironmentCore(r)
  PROVE  RootInv'
<1>1. /\ reset[r] \in ResetRecords /\ ResetInv(r) /\ r # Nil /\ files \in FileStates
      /\ Len(Kinds) \in Nat /\ \A i \in 1..Len(Kinds) : Kinds[i] \in AllKinds
  BY DEF RootInv, Shape, LifecycleConstants
<1>2. CASE LockForReset(r)
  <2> DEFINE x == [reset[r] EXCEPT !.at = "removing"]
  <2>1. x \in ResetRecords /\ x.at = "removing" /\ x.done = reset[r].done
    BY <1>1 DEF ResetRecords
  <2>2. reset' = [reset EXCEPT ![r] = x] /\ reset'[r] = x
    BY <1>2 DEF LockForReset, RootInv, Shape
  <2> HIDE DEF x
  <2>3. ResetInv(r)'
    BY <1>1, <1>2, <2>1, <2>2 DEF LockForReset, ResetInv
  <2> QED BY <1>1, <1>2, <2>1, <2>2, <2>3, ResetStep, ZenonT(40) DEF LockForReset
<1>3. CASE Unlock(r)
  <2>1. Quiet \in ResetRecords /\ Quiet.at = "none" /\ Quiet.done = 0
    BY DEF Quiet, ResetRecords
  <2>2. reset' = [reset EXCEPT ![r] = Quiet] /\ reset'[r] = Quiet
    BY <1>3, SMTT(30) DEF Unlock, RootInv, Shape
  <2>3. ResetInv(r)'
    BY <1>1, <1>3, <2>1, <2>2 DEF Unlock, ResetInv
  <2> QED BY <1>1, <1>3, <2>1, <2>2, <2>3, ResetStep, ZenonT(40) DEF Unlock, ResetInv
<1>4. ASSUME NEW at \in {"initialize", "failed", "done"}, lock = r,
             reset' = [reset EXCEPT ![r].at = at],
             UNCHANGED <<lock, host, jobs, module, call>>, files' \in FileStates,
             at = "initialize" => \A i \in 1..Len(Kinds) : files'[Kinds[i]] = "absent",
             at = "done" => \A i \in 1..Len(Kinds) : files'[Kinds[i]] # "used"
      PROVE  RootInv'
  <2> DEFINE x == [reset[r] EXCEPT !.at = at]
  <2>1. x \in ResetRecords /\ x.at = at /\ x.done = reset[r].done
    BY <1>1 DEF ResetRecords
  <2>2. reset' = [reset EXCEPT ![r] = x] /\ reset'[r] = x
    BY <1>4 DEF RootInv, Shape
  <2> HIDE DEF x
  <2>3. ResetInv(r)'
    BY <1>1, <1>4, <2>1, <2>2 DEF ResetInv
  <2> QED BY <1>1, <1>4, <2>1, <2>2, <2>3, ResetStep, ZenonT(40)
<1>5. CASE removeEnvironmentResetEntry(r)
  <2>1. CASE /\ reset[r].done < Len(Kinds)
             /\ files' = [files EXCEPT ![Kinds[reset[r].done + 1]] = "absent"]
             /\ reset' = [reset EXCEPT ![r].done = @ + 1]
    <3> DEFINE x == [reset[r] EXCEPT !.done = @ + 1]
    <3>1. x \in ResetRecords /\ x.at = "removing" /\ x.done = reset[r].done + 1
      BY <1>1, <1>5 DEF removeEnvironmentResetEntry, ResetRecords
    <3>2. reset' = [reset EXCEPT ![r] = x] /\ reset'[r] = x
      BY <2>1 DEF RootInv, Shape
    <3> HIDE DEF x
    <3>3. files' \in FileStates
      BY <1>1, <2>1, ZenonT(40) DEF FileStates
    <3>4. \A i \in 1..(reset[r].done + 1) : files'[Kinds[i]] = "absent"
      BY <1>1, <1>5, <2>1, SMTT(30) DEF removeEnvironmentResetEntry, ResetInv, FileStates
    <3>5. ResetInv(r)'
      BY <1>1, <1>5, <2>1, <3>1, <3>2, <3>4 DEF removeEnvironmentResetEntry, ResetInv
    <3> QED BY <1>1, <1>5, <3>1, <3>2, <3>3, <3>5, ResetStep, ZenonT(40)
            DEF removeEnvironmentResetEntry, ResetInv
  <2>2. CASE /\ reset[r].done = Len(Kinds) /\ UNCHANGED files
             /\ reset' = [reset EXCEPT ![r].at = "initialize"]
    BY <1>1, <1>4, <1>5, <2>2 DEF removeEnvironmentResetEntry, ResetInv
  <2>3. CASE reset' = [reset EXCEPT ![r].at = "failed"] /\ UNCHANGED files
    BY <1>1, <1>4, <1>5, <2>3 DEF removeEnvironmentResetEntry, ResetInv
  <2> QED BY <1>5, <2>1, <2>2, <2>3 DEF removeEnvironmentResetEntry
<1>6. CASE initializeResetEnvironmentCore(r)
  <2>1. ASSUME NEW part,
               files' = [k \in AllKinds |-> IF k \in part THEN Initialized(k) ELSE files[k]]
        PROVE  files' \in FileStates /\ \A k \in AllKinds : files[k] # "used"
                 => files'[k] # "used"
    BY <1>1, <2>1 DEF Initialized, FileStates
  <2>2. reset[r].at = "initialize" /\ lock = r /\ UNCHANGED <<lock, host, jobs, module,
          call>>
    BY <1>1, <1>6 DEF initializeResetEnvironmentCore, ResetInv
  <2> DEFINE selected == {Kinds[i] : i \in 1..Len(Kinds)}
             core == selected \cap {"host_control", "plugin_data"}
             built == IF core = {} THEN {} ELSE core \cup {"host_control"}
  <2>3. CASE /\ files' = [k \in AllKinds |-> IF k \in built THEN Initialized(k)
                  ELSE files[k]]
             /\ reset' = [reset EXCEPT ![r].at = "done"]
    <3> HIDE DEF built
    <3>1. files' \in FileStates /\ \A k \in AllKinds : files[k] # "used"
            => files'[k] # "used"
      BY <2>1, <2>3, ZenonT(40)
    <3>2. \A i \in 1..Len(Kinds) : files'[Kinds[i]] # "used"
      BY <1>1, <2>2, <3>1 DEF ResetInv
    <3> QED BY <1>4, <2>2, <2>3, <3>1, <3>2
  <2>4. CASE /\ \E part \in {{}, {"host_control"} \cap built} :
                  files' = [k \in AllKinds |-> IF k \in part THEN Initialized(k)
                    ELSE files[k]]
             /\ reset' = [reset EXCEPT ![r].at = "failed"]
    <3> HIDE DEF built
    <3>1. files' \in FileStates
      BY <2>1, <2>4
    <3> QED BY <1>4, <2>2, <2>4, <3>1
  <2> QED BY <1>6, <2>3, <2>4, ZenonT(40) DEF initializeResetEnvironmentCore
<1> QED BY <1>2, <1>3, <1>5, <1>6

(* The invariant holds when the process starts, whatever files it finds.    *)
LEMMA StartsInside ==
  ASSUME LifecycleConstants, files \in FileStates,
         lock = Nil, host = [h \in Hosts |-> Absent], jobs = [h \in Hosts |-> {}],
         module = Owned, call = [c \in Calls |-> Nil], reset = [r \in Resets |-> Quiet]
  PROVE  RootInv
<1>1. Absent \in HostRecords /\ Absent.at = "none" /\ Absent.held = {} /\ Absent.told = Nil
  BY DEF Absent, HostRecords, Stages, Told, Resources
<1>2. Shape
  BY <1>1 DEF Shape, Owned, Quiet, Modules, ResetRecords, FileStates
<1>3. module.state = "owned" /\ module.by = Nil
  BY DEF Owned
<1>4. ASSUME NEW h \in Hosts PROVE HostInv(h)
  <2>1. HoldsAt(host[h].at, host[h].held)
    BY <1>1 DEF HoldsAt
  <2>2. LockHeld(h) /\ WorkInside(h)
    BY <1>1 DEF LockHeld, WorkInside, LifecycleConstants
  <2>3. ModuleOwned(h)
    BY <1>1, <1>3 DEF ModuleOwned, LifecycleConstants
  <2> QED BY <2>1, <2>2, <2>3 DEF HostInv
<1>5. ASSUME NEW r \in Resets PROVE ResetInv(r)
  BY DEF ResetInv, Quiet, LifecycleConstants
<1> QED BY <1>2, <1>3, <1>4, <1>5 DEF RootInv

(* A crash frees the lock and leaves the files as they are.                 *)
LEMMA CrashKeeps ==
  ASSUME LifecycleConstants, RootInv, Crash
  PROVE  RootInv'
<1>1. Absent \in HostRecords /\ Absent.at = "none" /\ Absent.held = {} /\ Absent.told = Nil
  BY DEF Absent, HostRecords, Stages, Told, Resources
<1>2. Shape'
  BY <1>1 DEF Crash, RootInv, Shape, Owned, Quiet, Modules, ResetRecords
<1>3. module'.state = "owned" /\ module'.by = Nil
  BY DEF Crash, Owned
<1>4. ASSUME NEW h \in Hosts PROVE HostInv(h)'
  <2>1. host'[h] = Absent /\ lock' = Nil /\ jobs'[h] = {} /\ h # Nil
    BY DEF Crash, LifecycleConstants
  <2>2. HoldsAt(host[h].at, host[h].held)'
    BY <1>1, <2>1 DEF HoldsAt
  <2>3. LockHeld(h)' /\ WorkInside(h)'
    BY <1>1, <2>1 DEF Crash, LockHeld, WorkInside
  <2>4. ModuleOwned(h)'
    BY <1>1, <1>3, <2>1 DEF ModuleOwned, LifecycleConstants
  <2> QED BY <2>2, <2>3, <2>4 DEF HostInv
<1>5. ASSUME NEW r \in Resets PROVE ResetInv(r)'
  BY DEF Crash, ResetInv, Quiet, LifecycleConstants
<1> QED BY <1>2, <1>3, <1>4, <1>5 DEF RootInv

(* What the step of one Host means to the calls Close does not wait for: a  *)
(* Host that was not returned has none; a returned one stays returned and   *)
(* keeps the store that one of them is working in.                          *)
LEMMA DirectStay ==
  ASSUME DirectInv, NEW h \in Hosts, UNCHANGED direct,
         \A g \in Hosts : g # h => host'[g] = host[g],
         \/ host[h].at \notin Returned
         \/ host[h].told # Nil
         \/ /\ host'[h].at \in Returned /\ host'[h].told = host[h].told
            /\ \A d \in Direct :
                 direct[d].host = h /\ direct[d].using \in {"data", "assets"}
                     /\ direct[d].using \in host[h].held
                   => direct[d].using \in host'[h].held
  PROVE  DirectInv'
<1>1. ASSUME NEW d \in Direct PROVE DirectInside(d)'
  <2>1. CASE direct[d].host = h
    BY <2>1, Zenon DEF DirectInv, DirectInside
  <2>2. CASE direct[d].host # h
    BY <2>2, Zenon DEF DirectInv, DirectInside
  <2> QED BY <2>1, <2>2, Zenon
<1> QED BY <1>1, Zenon DEF DirectInv

(* Those calls come, work in a store that is open and return; and neither   *)
(* Open nor Close closes the plugin data or the assets under them           *)
(* (authorizeManagement, FileStore.begin, FileAssetStore.acquire, Close).   *)
LEMMA DirectKeeps ==
  ASSUME LifecycleConstants, LifecycleInv, Next
  PROVE  DirectInv'
<1> USE DEF LifecycleInv
<1>1. ASSUME NEW h \in Hosts,
             \/ normalizeConfig(h) \/ acquireEnvironmentRootLock(h)
             \/ openControlStore(h) \/ bindInternalPlatformState(h)
             \/ openExternalPackagePipeline(h) \/ openPluginDataStore(h)
             \/ claimForHost(h) \/ newRuntimeManagerFromCapability(h)
             \/ Assemble(h) \/ StartJobs(h) \/ RecoverIntervalClaims(h) \/ Unwind(h)
      PROVE  DirectInv'
  <2> USE DEF Goes, GoesHolding, Fails, FailsTelling
  <2>1. host[h].at \notin Returned
    <3>1. CASE normalizeConfig(h) \/ acquireEnvironmentRootLock(h)
      BY <3>1 DEF normalizeConfig, acquireEnvironmentRootLock, Absent, Returned
    <3>2. CASE \/ openControlStore(h) \/ bindInternalPlatformState(h)
               \/ openExternalPackagePipeline(h) \/ openPluginDataStore(h)
               \/ claimForHost(h) \/ newRuntimeManagerFromCapability(h)
               \/ Assemble(h) \/ StartJobs(h) \/ RecoverIntervalClaims(h) \/ Unwind(h)
      <4>1. host[h].at \in Opening \cup {"unwind"}
        BY <3>2, Zenon DEF openControlStore, bindInternalPlatformState,
           openExternalPackagePipeline, openPluginDataStore, claimForHost,
           newRuntimeManagerFromCapability, Assemble, StartJobs, RecoverIntervalClaims,
           Unwind, Opening
      <4> QED BY <4>1 DEF Opening, Returned
    <3> QED BY <1>1, <3>1, <3>2, Zenon
  <2>0. UNCHANGED direct
    BY <1>1, Zenon DEF normalizeConfig, acquireEnvironmentRootLock, openControlStore,
       bindInternalPlatformState, openExternalPackagePipeline, openPluginDataStore,
       claimForHost, newRuntimeManagerFromCapability, Assemble, StartJobs,
       RecoverIntervalClaims, Unwind
  <2>2. \A g \in Hosts : g # h => host'[g] = host[g]
    <3>1. host \in [Hosts -> HostRecords]
      BY Zenon DEF RootInv, Shape
    <3>2. CASE normalizeConfig(h) \/ acquireEnvironmentRootLock(h)
      BY <3>1, <3>2, Zenon DEF normalizeConfig, acquireEnvironmentRootLock
    <3>3. CASE openControlStore(h) \/ bindInternalPlatformState(h)
                 \/ openExternalPackagePipeline(h) \/ openPluginDataStore(h)
      BY <3>1, <3>3, Zenon DEF openControlStore, bindInternalPlatformState,
         openExternalPackagePipeline, openPluginDataStore
    <3>4. CASE claimForHost(h) \/ newRuntimeManagerFromCapability(h)
      BY <3>1, <3>4, Zenon DEF claimForHost, newRuntimeManagerFromCapability
    <3>5. CASE Assemble(h) \/ StartJobs(h) \/ RecoverIntervalClaims(h)
      BY <3>1, <3>5, Zenon DEF Assemble, StartJobs, RecoverIntervalClaims
    <3>6. CASE Unwind(h)
      BY <3>1, <3>6, Zenon DEF Unwind
    <3> QED BY <1>1, <3>2, <3>3, <3>4, <3>5, <3>6, Zenon
  <2> QED BY <2>0, <2>1, <2>2, DirectStay, Zenon
<1>2. ASSUME NEW h \in Hosts, Close(h) \/ Drain(h) PROVE DirectInv'
  <2>1. /\ host'[h].at \in Returned /\ host'[h].told = host[h].told
        /\ host'[h].held = host[h].held /\ UNCHANGED direct
        /\ \A g \in Hosts : g # h => host'[g] = host[g]
    BY <1>2 DEF Close, Drain, Goes, Returned, RootInv, Shape, HostRecords
  <2> QED BY <2>1, DirectStay, Zenon
<1>3. ASSUME NEW h \in Hosts, CloseNext(h) PROVE DirectInv'
  <2>1. host \in [Hosts -> HostRecords] /\ host[h].at = "closing" /\ UNCHANGED direct
    BY <1>3, Zenon DEF CloseNext, RootInv, Shape
  <2>2. CASE host[h].held = {}
    <3>1. Goes(h, IF host[h].told = Nil THEN "closed" ELSE "unwind")
      BY <1>3, <2>2 DEF CloseNext
    <3>2. \A g \in Hosts : g # h => host'[g] = host[g]
      BY <2>1, <3>1, Zenon DEF Goes
    <3>3. host[h].told = Nil => host'[h].at \in Returned /\ host'[h].told = host[h].told
      BY <2>1, <3>1 DEF Goes, Returned, HostRecords
    <3> QED BY <2>1, <2>2, <3>2, <3>3, DirectStay, Zenon
  <2>3. CASE host[h].held # {}
    <3> DEFINE next == Next1(CloseOrder, host[h].held)
    <3>1. NotUsed(h, next) /\ host' = [host EXCEPT ![h].held = @ \ {next}]
      BY <1>3, <2>3 DEF CloseNext
    <3> HIDE DEF next
    <3>2. \A g \in Hosts : g # h => host'[g] = host[g]
      BY <2>1, <3>1, Zenon
    <3>3. /\ host'[h].at \in Returned /\ host'[h].told = host[h].told
          /\ host'[h].held = host[h].held \ {next}
      BY <2>1, <3>1 DEF Returned, HostRecords
    <3>4. \A d \in Direct :
            direct[d].host = h /\ direct[d].using \in {"data", "assets"}
              => direct[d].using # next
      BY <3>1, Zenon DEF NotUsed
    <3> QED BY <2>1, <3>2, <3>3, <3>4, DirectStay, Zenon
  <2> QED BY <2>2, <2>3, Zenon
<1>4. ASSUME NEW d \in Direct, NEW x \in [host : Hosts \cup {Nil}, using : {Nil} \cup Worked],
             direct' = [direct EXCEPT ![d] = x], UNCHANGED host,
             x.host = Nil => x.using = Nil,
             x.host # Nil =>
               /\ host[x.host].at \in Returned /\ host[x.host].told = Nil
               /\ x.using \in {"data", "assets"} => x.using \in host[x.host].held
      PROVE  DirectInv'
  <2>1. /\ direct'[d] = x
        /\ \A e \in Direct : e # d => direct'[e] = direct[e]
        /\ direct' \in [Direct -> [host : Hosts \cup {Nil}, using : {Nil} \cup Worked]]
    BY <1>4, Zenon DEF DirectInv
  <2>2. Nil \notin Hosts
    BY Zenon DEF LifecycleConstants
  <2>3. ASSUME NEW e \in Direct PROVE DirectInside(e)'
    BY <1>4, <2>1, <2>2, Zenon DEF DirectInv, DirectInside
  <2> QED BY <1>4, <2>1, <2>3, Zenon DEF DirectInv
<1>5. ASSUME NEW d \in Direct, NEW h \in Hosts, authorizeManagement(d, h) PROVE DirectInv'
  <2> DEFINE x == [direct[d] EXCEPT !.host = h]
  <2>1. /\ x \in [host : Hosts \cup {Nil}, using : {Nil} \cup Worked]
        /\ x.host = h /\ x.using = Nil /\ direct' = [direct EXCEPT ![d] = x]
    BY <1>5, Zenon DEF authorizeManagement, DirectInv
  <2> HIDE DEF x
  <2>2. Nil \notin {"data", "assets"}
    BY Zenon DEF LifecycleConstants, Worked
  <2> QED BY <1>4, <1>5, <2>1, <2>2, Zenon DEF authorizeManagement
<1>6. ASSUME NEW d \in Direct, NEW store \in Worked, BeginOperation(d, store) PROVE DirectInv'
  <2> DEFINE x == [direct[d] EXCEPT !.using = store]
  <2>1. /\ x \in [host : Hosts \cup {Nil}, using : {Nil} \cup Worked]
        /\ x.host = direct[d].host /\ x.using = store /\ direct' = [direct EXCEPT ![d] = x]
        /\ direct[d].host \in Hosts
    BY <1>6, Zenon DEF BeginOperation, DirectInv
  <2> HIDE DEF x
  <2>2. DirectInside(d)
    BY Zenon DEF DirectInv
  <2> QED BY <1>4, <1>6, <2>1, <2>2, Zenon DEF BeginOperation, DirectInside
<1>7. ASSUME NEW d \in Direct, EndOperation(d) PROVE DirectInv'
  <2> DEFINE x == [direct[d] EXCEPT !.using = Nil]
  <2>1. /\ x \in [host : Hosts \cup {Nil}, using : {Nil} \cup Worked]
        /\ x.host = direct[d].host /\ x.using = Nil /\ direct' = [direct EXCEPT ![d] = x]
        /\ direct[d].host \in Hosts \cup {Nil}
    BY <1>7, Zenon DEF EndOperation, DirectInv
  <2> HIDE DEF x
  <2>2. DirectInside(d) /\ Nil \notin {"data", "assets"}
    BY Zenon DEF DirectInv, LifecycleConstants, Worked
  <2>3. direct[d].host # Nil
    BY <1>7, Zenon DEF EndOperation, DirectInv
  <2>4. direct[d].host \in Hosts
    BY <2>1, <2>3, Zenon
  <2>5. UNCHANGED host /\ x.using \notin {"data", "assets"}
    BY <1>7, <2>1, <2>2, Zenon DEF EndOperation
  <2>6. host[x.host].at \in Returned /\ host[x.host].told = Nil
    BY <2>1, <2>2, <2>4, Zenon DEF DirectInside
  <2> QED BY <1>4, <2>1, <2>5, <2>6, Zenon
<1>8. ASSUME NEW d \in Direct, ReturnDirect(d) PROVE DirectInv'
  <2>1. /\ Outside \in [host : Hosts \cup {Nil}, using : {Nil} \cup Worked]
        /\ Outside.host = Nil /\ Outside.using = Nil
    BY DEF Outside
  <2> QED BY <1>4, <1>8, <2>1, Zenon DEF ReturnDirect
<1>9. CASE UNCHANGED <<host, direct>>
  BY <1>9, Zenon DEF DirectInv, DirectInside
<1>10. CASE Crash
  <2>1. /\ Outside \in [host : Hosts \cup {Nil}, using : {Nil} \cup Worked]
        /\ Outside.host = Nil /\ Outside.using = Nil /\ Nil \notin Hosts
    BY DEF Outside, LifecycleConstants
  <2> QED BY <1>10, <2>1 DEF Crash, DirectInv, DirectInside
<1>11. ASSUME \/ \E h \in Hosts, j \in Lifecycle \cup Maintenance : JobEnds(h, j)
              \/ \E c \in Calls, h \in Hosts : ensureOpen(c, h)
              \/ \E c \in Calls : Return(c)
              \/ \E r \in Resets :
                   \/ LockForReset(r) \/ Unlock(r)
                   \/ removeEnvironmentResetEntry(r) \/ initializeResetEnvironmentCore(r)
              \/ CloseModule
       PROVE  DirectInv'
  BY <1>9, <1>11, ZenonT(40) DEF JobEnds, ensureOpen, Return, LockForReset, Unlock,
     removeEnvironmentResetEntry, initializeResetEnvironmentCore, CloseModule
<1> QED BY <1>1, <1>2, <1>3, <1>5, <1>6, <1>7, <1>8, <1>10, <1>11, ZenonT(40) DEF Next

(* The inductive invariant holds in every reachable state, for any number   *)
(* of Hosts, calls and resets and any manifest.                             *)
THEOREM LifecycleInvariant == LifecycleConstants /\ Spec => []LifecycleInv
<1> SUFFICES ASSUME LifecycleConstants PROVE Spec => []LifecycleInv
  OBVIOUS
<1>1. Init => LifecycleInv
  <2> SUFFICES ASSUME Init PROVE LifecycleInv
    OBVIOUS
  <2>1. files \in FileStates
    BY DEF Init, FileStates
  <2>2. DirectInv
    BY DEF Init, Outside, DirectInv, DirectInside, LifecycleConstants
  <2> QED BY <2>1, <2>2, StartsInside DEF Init, LifecycleInv
<1>2. LifecycleInv /\ [Next]_vars => LifecycleInv'
  <2> SUFFICES ASSUME LifecycleInv, [Next]_vars PROVE LifecycleInv'
    OBVIOUS
  <2>1. CASE Next
    <3>0. RootInv
      BY DEF LifecycleInv
    <3>1. RootInv'
      <4>1. CASE \E h \in Hosts :
                   \/ normalizeConfig(h) \/ acquireEnvironmentRootLock(h)
                   \/ openControlStore(h) \/ bindInternalPlatformState(h)
                   \/ openExternalPackagePipeline(h) \/ openPluginDataStore(h)
                   \/ claimForHost(h) \/ newRuntimeManagerFromCapability(h)
                   \/ Assemble(h) \/ StartJobs(h) \/ RecoverIntervalClaims(h)
                   \/ Unwind(h) \/ Close(h) \/ Drain(h) \/ CloseNext(h)
        BY <3>0, <4>1, OpeningKeeps, normalizeConfigKeeps, acquireEnvironmentRootLockKeeps,
           claimForHostKeeps,
           newRuntimeManagerFromCapabilityKeeps, StartJobsKeeps, RecoverIntervalClaimsKeeps,
           UnwindKeeps, CloseKeeps, DrainKeeps, CloseNextKeeps, ZenonT(40)
      <4>2. CASE \/ \E h \in Hosts, j \in Lifecycle \cup Maintenance : JobEnds(h, j)
                 \/ \E c \in Calls, h \in Hosts : ensureOpen(c, h)
                 \/ \E c \in Calls : Return(c)
                 \/ \E d \in Direct :
                      \/ \E h \in Hosts : authorizeManagement(d, h)
                      \/ \E store \in Worked : BeginOperation(d, store)
                      \/ EndOperation(d) \/ ReturnDirect(d)
                 \/ CloseModule
        BY <3>0, <4>2, WorkKeeps
      <4>3. CASE \E r \in Resets :
                   \/ LockForReset(r) \/ Unlock(r)
                   \/ removeEnvironmentResetEntry(r) \/ initializeResetEnvironmentCore(r)
        BY <3>0, <4>3, ResetKeeps
      <4>4. CASE Crash
        BY <3>0, <4>4, CrashKeeps
      <4> QED BY <2>1, <4>1, <4>2, <4>3, <4>4, ZenonT(40) DEF Next
    <3> QED BY <2>1, <3>1, DirectKeeps DEF LifecycleInv
  <2>2. CASE UNCHANGED vars
    <3>1. RootInv'
      BY <2>2, RootStutters DEF vars, LifecycleInv
    <3>2. DirectInv'
      BY <2>2, Zenon DEF vars, LifecycleInv, DirectInv, DirectInside
    <3> QED BY <3>1, <3>2 DEF LifecycleInv
  <2> QED BY <2>1, <2>2
<1> QED BY <1>1, <1>2, PTL DEF Spec

(* Whoever has anything of the root open, or is removing files, owns it; a  *)
(* goroutine and a call that entered through ensureOpen have their stores,  *)
(* and any other call finishes its operation of the plugin data or of the   *)
(* assets before they close; a failed Open and a finished Close leave       *)
(* nothing open; a reset that answers success left none of the data it was  *)
(* to remove (Open, Close, ResetEnvironment).                               *)
THEOREM StoresOutliveTheWork == LifecycleConstants /\ Spec => []StoresOutliveWork
<1>1. RootInv => RootHasOneOwner
  BY SMTT(30) DEF RootInv, RootHasOneOwner, HostInv, HoldsAt, LockHeld, ResetInv
<1>2. LifecycleConstants /\ LifecycleInv => WorkHasStores
  <2> SUFFICES ASSUME LifecycleConstants, LifecycleInv PROVE WorkHasStores
    OBVIOUS
  <2>1. ASSUME NEW h \in Hosts, jobs[h] # {} \/ \E c \in Calls : call[c] = h
        PROVE  {"lock", "control", "data"} \subseteq host[h].held
    BY <2>1, SMTT(30) DEF LifecycleInv, RootInv, HostInv, HoldsAt, WorkInside, Stores
  <2>2. ASSUME NEW d \in Direct, direct[d].using \in {"data", "assets"}
        PROVE  direct[d].using \in host[direct[d].host].held /\ lock = direct[d].host
    <3>1. direct[d].host \in Hosts /\ direct[d].using \in host[direct[d].host].held
      BY <2>2, Zenon DEF LifecycleInv, DirectInv, DirectInside, LifecycleConstants, Worked
    <3>2. lock = direct[d].host
      BY <1>1, <3>1, Zenon DEF LifecycleInv, RootHasOneOwner
    <3> QED BY <3>1, <3>2, Zenon
  <2> QED BY <2>1, <2>2, Zenon DEF WorkHasStores
<1>3. LifecycleConstants /\ RootInv => NothingLeftOpen
  <2> SUFFICES ASSUME LifecycleConstants, RootInv, NEW h \in Hosts,
                 host[h].at \in {"failed", "closed"}
               PROVE  /\ host[h].held = {} /\ lock # h /\ jobs[h] = {}
                      /\ module.by = h => module.state = "closed"
                      /\ host[h].told \in {"already_closed", "consumed_and_closed"}
                           => module.state # "owned" \/ ~module.journalled
    BY DEF NothingLeftOpen
  <2>1. HostInv(h) /\ h # Nil /\ module.state \in {"owned", "transferred", "closed"}
    BY SMTT(30) DEF RootInv, LifecycleConstants, Shape, Modules
  <2>2. host[h].held = {} /\ lock # h /\ jobs[h] = {}
    BY <2>1, SMTT(30) DEF HostInv, HoldsAt, LockHeld, WorkInside
  <2> QED BY <2>1, <2>2, SMTT(30) DEF HostInv, ModuleOwned, RootInv
<1>4. RootInv => ResetIsComplete
  BY DEF RootInv, ResetIsComplete, ResetInv
<1>5. LifecycleConstants /\ LifecycleInv => StoresOutliveWork
  BY <1>1, <1>2, <1>3, <1>4, Zenon DEF StoresOutliveWork, LifecycleInv
<1> SUFFICES ASSUME LifecycleConstants PROVE Spec => []StoresOutliveWork
  OBVIOUS
<1> QED BY <1>5, LifecycleInvariant, PTL
=============================================================================
