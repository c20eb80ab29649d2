--------------------------- MODULE BackgroundManager ---------------------------
(***************************************************************************)
(* The manager of background workers and the Host's runner behind it, for  *)
(* one owner and worker: Start calls that share an attempt, the goroutine   *)
(* of every invocation, the watcher that forgets a completed session,       *)
(* StopPluginEnvironment and Shutdown.                                      *)
(*                                                                          *)
(* A handle is a hash of owner and worker, so the session values of two     *)
(* invocations of one worker are equal: the manager's entry is a Boolean,   *)
(* and who forgets the session of one invocation may forget that of its     *)
(* successor.  orphaned is a history variable: it holds the invocations     *)
(* whose session went that way, which no Stop and no Shutdown finds.        *)
(***************************************************************************)
EXTENDS Naturals, FiniteSets

CONSTANTS
    Starters,       \* Start calls
    Stoppers,       \* StopPluginEnvironment calls
    MaxEntries,     \* bound on the invocations
    NoOne

VARIABLES
    session,        \* manager.sessions holds the key
    starting,       \* the starter whose attempt manager.starting holds
    closed,         \* manager.closed
    entry,          \* the invocation runner.sessions holds, 0 for none
    state,          \* the state of every invocation
    watch,          \* watchers waiting per invocation, 0 for a closed channel
    pc, held,       \* the calls; the invocation a Stop took from the runner
    attempt,        \* the attempt a Start waits for
    result,         \* result of every Start attempt
    down,           \* the Shutdown call
    orphaned        \* the invocations whose session was taken for another's

vars == <<session, starting, closed, entry, state, watch, pc, held, attempt, result, down,
          orphaned>>

Entries == 1..MaxEntries
Calls == Starters \union Stoppers

Init ==
    /\ session = FALSE /\ starting = NoOne /\ closed = FALSE /\ entry = 0
    /\ state = [e \in Entries |-> "none"]
    /\ watch = [e \in 0..MaxEntries |-> 0]
    /\ pc = [c \in Calls |-> "idle"] /\ held = [c \in Calls |-> 0]
    /\ attempt = [s \in Starters |-> NoOne]
    /\ result = [s \in Starters |-> "open"]
    /\ down = [pc |-> "idle", attempt |-> NoOne, session |-> FALSE, held |-> 0]
    /\ orphaned = {}

Manager == <<session, starting, closed>>
Runner == <<entry, state>>

-----------------------------------------------------------------------------
StartUnshared(s) ==
    /\ pc[s] = "idle"
    /\ \/ closed /\ pc' = [pc EXCEPT ![s] = "err"] /\ UNCHANGED starting
       \/ ~closed /\ session /\ pc' = [pc EXCEPT ![s] = "ok"] /\ UNCHANGED starting
       \/ ~closed /\ ~session /\ starting' = s /\ pc' = [pc EXCEPT ![s] = "run"]
    /\ UNCHANGED <<session, closed, Runner, watch, held, result, down, attempt, orphaned>>

(* Manager.Start under mu: refused, shared or a new attempt *)
Start(s) ==
    /\ pc[s] = "idle"
    /\ \/ closed /\ pc' = [pc EXCEPT ![s] = "err"] /\ UNCHANGED <<starting, attempt>>
       \/ /\ ~closed /\ session
          /\ pc' = [pc EXCEPT ![s] = "ok"] /\ UNCHANGED <<starting, attempt>>
       \/ /\ ~closed /\ ~session /\ starting # NoOne
          /\ pc' = [pc EXCEPT ![s] = "wait"] /\ attempt' = [attempt EXCEPT ![s] = starting]
          /\ UNCHANGED starting
       \/ /\ ~closed /\ ~session /\ starting = NoOne
          /\ starting' = s /\ pc' = [pc EXCEPT ![s] = "run"] /\ UNCHANGED attempt
    /\ UNCHANGED <<session, closed, Runner, watch, held, result, down, orphaned>>

(* the shared attempt is over *)
Join(s) ==
    /\ pc[s] = "wait" /\ result[attempt[s]] # "open"
    /\ pc' = [pc EXCEPT ![s] = result[attempt[s]]]
    /\ UNCHANGED <<Manager, Runner, watch, held, result, down, attempt, orphaned>>

(* backgroundWorkerRunner.Start: refused, or the registered invocation, or  *)
(* a new one with its goroutine                                             *)
RunnerStart(s) ==
    /\ pc[s] = "run"
    /\ \/ pc' = [pc EXCEPT ![s] = "failed"] /\ UNCHANGED Runner
       \/ entry # 0 /\ pc' = [pc EXCEPT ![s] = "started"] /\ UNCHANGED Runner
       \/ \E e \in Entries :
            /\ entry = 0 /\ state[e] = "none" /\ \A f \in 1..(e - 1) : state[f] # "none"
            /\ entry' = e /\ state' = [state EXCEPT ![e] = "running"]
            /\ pc' = [pc EXCEPT ![s] = "started"]
    /\ UNCHANGED <<Manager, watch, held, result, down, attempt, orphaned>>

FinishUnclosed(s) ==
    /\ pc[s] \in {"failed", "started"}
    /\ starting' = NoOne
    /\ IF pc[s] = "failed"
       THEN UNCHANGED session /\ result' = [result EXCEPT ![s] = "err"]
            /\ pc' = [pc EXCEPT ![s] = "err"]
       ELSE session' = TRUE /\ result' = [result EXCEPT ![s] = "ok"]
            /\ pc' = [pc EXCEPT ![s] = "watch"]
    /\ UNCHANGED <<closed, Runner, watch, held, down, attempt, orphaned>>

(* the end of Start under mu; a session that came after the close is        *)
(* stopped once mu is released and the attempt is announced                 *)
Finish(s) ==
    /\ pc[s] \in {"failed", "started"}
    /\ starting' = NoOne
    /\ IF pc[s] = "failed" \/ closed
       THEN /\ result' = [result EXCEPT ![s] = "err"] /\ UNCHANGED session
            /\ pc' = [pc EXCEPT ![s] = IF pc[s] = "failed" THEN "err" ELSE "take"]
       ELSE /\ session' = TRUE /\ result' = [result EXCEPT ![s] = "ok"]
            /\ pc' = [pc EXCEPT ![s] = "watch"]
    /\ UNCHANGED <<closed, Runner, watch, held, down, attempt, orphaned>>

(* go watchCompletion(..., runner.Done(session)): of the invocation the     *)
(* runner holds now                                                         *)
Watch(s) ==
    /\ pc[s] = "watch"
    /\ watch' = [watch EXCEPT ![entry] = @ + 1]
    /\ pc' = [pc EXCEPT ![s] = "ok"]
    /\ UNCHANGED <<Manager, Runner, held, result, down, attempt, orphaned>>

Over(e) == IF e = 0 THEN TRUE ELSE state[e] = "done"

(* The key is deleted, whichever invocation it stands for by now.            *)
Forget ==
    /\ session' = FALSE
    /\ orphaned' = IF session /\ entry # 0 THEN orphaned \union {entry} ELSE orphaned

(* watchCompletion: the comparison of sessions cannot tell invocations apart *)
WatchCompletion(e) ==
    /\ watch[e] > 0 /\ Over(e)
    /\ watch' = [watch EXCEPT ![e] = @ - 1]
    /\ Forget
    /\ UNCHANGED <<starting, closed, Runner, pc, held, result, down, attempt>>

(* the invocation returns: by itself, or because its context is cancelled *)
Complete(e) ==
    /\ state[e] \in {"running", "canceled"}
    /\ state' = [state EXCEPT ![e] = "done"]
    /\ entry' = IF entry = e THEN 0 ELSE entry
    /\ UNCHANGED <<Manager, watch, pc, held, result, down, attempt, orphaned>>

-----------------------------------------------------------------------------
(* StopPluginEnvironment: collect under mu, stop each in the runner, delete *)
StopPluginEnvironment(t) ==
    /\ pc[t] = "idle"
    /\ pc' = [pc EXCEPT ![t] = IF session THEN "take" ELSE "ok"]
    /\ UNCHANGED <<Manager, Runner, watch, held, result, down, attempt, orphaned>>

(* backgroundWorkerRunner.Stop: forget the invocation, cancel it, wait.  A  *)
(* late start stops its own session and does not touch the manager.         *)
StopTake(c) ==
    /\ pc[c] = "take"
    /\ entry' = 0 /\ held' = [held EXCEPT ![c] = entry]
    /\ pc' = [pc EXCEPT ![c] = IF entry = 0 THEN "stopped" ELSE "cancel"]
    /\ UNCHANGED <<Manager, state, watch, result, down, attempt, orphaned>>

Canceled(e) == [state EXCEPT ![e] = IF @ = "running" THEN "canceled" ELSE @]

StopCancel(c) ==
    /\ pc[c] = "cancel"
    /\ state' = Canceled(held[c])
    /\ pc' = [pc EXCEPT ![c] = "join"]
    /\ UNCHANGED <<Manager, entry, watch, held, result, down, attempt, orphaned>>

StopJoin(c) ==
    /\ pc[c] = "join" /\ Over(held[c])
    /\ pc' = [pc EXCEPT ![c] = "stopped"]
    /\ UNCHANGED <<Manager, Runner, watch, held, result, down, attempt, orphaned>>

(* the context of a waiting caller ends *)
GiveUp(c) ==
    /\ pc[c] \in {"wait", "join"}
    /\ pc' = [pc EXCEPT ![c] = "err"]
    /\ UNCHANGED <<Manager, Runner, watch, held, result, down, attempt, orphaned>>

(* the session is forgotten after the wait, not with the collection *)
StopForget(c) ==
    /\ pc[c] = "stopped"
    /\ IF c \in Stoppers THEN Forget ELSE UNCHANGED <<session, orphaned>>
    /\ pc' = [pc EXCEPT ![c] = IF c \in Stoppers THEN "ok" ELSE "err"]
    /\ UNCHANGED <<starting, closed, Runner, watch, held, result, down, attempt>>

-----------------------------------------------------------------------------
(* Manager.Shutdown with a context that does not end *)
Shutdown ==
    /\ down.pc = "idle"
    /\ closed' = TRUE
    /\ down' = [pc |-> "await", attempt |-> starting, session |-> session, held |-> 0]
    /\ UNCHANGED <<session, starting, Runner, watch, pc, held, result, attempt, orphaned>>

ShutdownAwait ==
    /\ down.pc = "await"
    /\ down.attempt # NoOne => result[down.attempt] # "open"
    /\ down' = [down EXCEPT !.pc = IF down.session THEN "take" ELSE "clear"]
    /\ UNCHANGED <<Manager, Runner, watch, pc, held, result, attempt, orphaned>>

ShutdownTake ==
    /\ down.pc = "take"
    /\ entry' = 0
    /\ down' = [down EXCEPT !.held = entry, !.pc = IF entry = 0 THEN "clear" ELSE "cancel"]
    /\ UNCHANGED <<Manager, state, watch, pc, held, result, attempt, orphaned>>

ShutdownCancel ==
    /\ down.pc = "cancel"
    /\ state' = Canceled(down.held)
    /\ down' = [down EXCEPT !.pc = "join"]
    /\ UNCHANGED <<Manager, entry, watch, pc, held, result, attempt, orphaned>>

ShutdownJoin ==
    /\ down.pc = "join" /\ Over(down.held)
    /\ down' = [down EXCEPT !.pc = "clear"]
    /\ UNCHANGED <<Manager, Runner, watch, pc, held, result, attempt, orphaned>>

ShutdownClear ==
    /\ down.pc = "clear"
    /\ session' = FALSE
    /\ down' = [down EXCEPT !.pc = "returned"]
    /\ UNCHANGED <<starting, closed, Runner, watch, pc, held, result, attempt, orphaned>>

-----------------------------------------------------------------------------
StartStep(s) ==
    Start(s) \/ Join(s) \/ RunnerStart(s) \/ Finish(s) \/ Watch(s)

StopStep(c) == StopTake(c) \/ StopCancel(c) \/ StopJoin(c) \/ StopForget(c)

ShutdownStep ==
    ShutdownAwait \/ ShutdownTake \/ ShutdownCancel \/ ShutdownJoin \/ ShutdownClear

Next ==
    \/ \E s \in Starters : StartStep(s)
    \/ \E t \in Stoppers : StopPluginEnvironment(t)
    \/ \E c \in Calls : StopStep(c) \/ GiveUp(c)
    \/ Shutdown \/ ShutdownStep
    \/ \E e \in Entries : Complete(e)
    \/ \E e \in 0..MaxEntries : WatchCompletion(e)

Spec == Init /\ [][Next]_vars

(* goroutines run, and a cancelled invocation returns *)
FairSpec ==
    /\ Spec
    /\ \A s \in Starters : WF_vars(pc[s] # "idle" /\ StartStep(s))
    /\ \A c \in Calls : WF_vars(StopStep(c))
    /\ WF_vars(ShutdownStep)
    /\ \A e \in Entries : WF_vars(state[e] = "canceled" /\ Complete(e))
    /\ \A e \in 0..MaxEntries : WF_vars(WatchCompletion(e))

-----------------------------------------------------------------------------
(* The state of the manager, the runner, the invocations and the calls. *)
TypeOK ==
    /\ session \in BOOLEAN /\ closed \in BOOLEAN
    /\ starting \in Starters \union {NoOne}
    /\ entry \in 0..MaxEntries
    /\ state \in [Entries -> {"none", "running", "canceled", "done"}]
    /\ watch \in [0..MaxEntries -> Nat]
    /\ pc \in [Calls -> {"idle", "wait", "run", "failed", "started", "watch", "take",
                         "cancel", "join", "stopped", "ok", "err"}]
    /\ held \in [Calls -> 0..MaxEntries] /\ attempt \in [Starters -> Starters \union {NoOne}]
    /\ result \in [Starters -> {"open", "ok", "err"}]
    /\ down \in [pc : {"idle", "await", "take", "cancel", "join", "clear", "returned"},
                 attempt : Starters \union {NoOne}, session : BOOLEAN, held : 0..MaxEntries]
    /\ orphaned \subseteq Entries

(* An invocation nobody has cancelled is the one the runner holds, or       *)
(* somebody has taken it from the runner and is about to cancel it: the     *)
(* runner never loses a running invocation.                                 *)
InRunner ==
    \A e \in Entries : state[e] = "running" =>
        \/ entry = e
        \/ \E c \in Calls : pc[c] = "cancel" /\ held[c] = e
        \/ down.pc = "cancel" /\ down.held = e

(* A Stop and Shutdown look in manager.sessions only.  The running          *)
(* invocation of the runner has its session there, or its Start has not     *)
(* published it yet, or a Start that came after the close or the Shutdown   *)
(* under way is about to stop it; the one exception is an invocation whose  *)
(* session was forgotten in place of its predecessor's.                     *)
InManager ==
    \A e \in Entries : entry = e /\ state[e] = "running" =>
        \/ session \/ e \in orphaned
        \/ \E s \in Starters : pc[s] \in {"started", "take"}
        \/ down.session /\ down.pc \in {"await", "take"}

(* The exception takes a Stop: as long as there was none, every watcher     *)
(* that removes a session removes that of its own invocation.               *)
OrphansNeedStop == orphaned # {} => \E t \in Stoppers : pc[t] # "idle"

(* A running background worker can be stopped: the three together.          *)
Stoppable == InRunner /\ InManager /\ OrphansNeedStop

(* At most one Start of a worker is in the runner at a time. *)
OneAttempt ==
    \A s, t \in Starters :
        pc[s] \in {"run", "failed", "started"} /\ pc[t] \in {"run", "failed", "started"} => s = t

(* Once Shutdown has returned the manager holds no session, and no Start    *)
(* that was in flight adds one.                                             *)
ShutdownForgets == down.pc = "returned" => ~session

(* Every invocation of a manager that is shut down comes to an end, but for *)
(* the one whose session was forgotten in place of its predecessor's.       *)
ShutdownEndsAll ==
    closed ~> \A e \in Entries : state[e] \in {"none", "done"} \/ e \in orphaned

-----------------------------------------------------------------------------
(* The inductive invariant of Stoppable, OneAttempt and ShutdownForgets.    *)

(* A call is a Start or a Stop, and no attempt is everybody's name for the  *)
(* absent one.                                                              *)
ManagerConstants ==
    MaxEntries \in Nat /\ Starters \cap Stoppers = {} /\ NoOne \notin Starters

(* Where a call is, and how far an invocation has come.                     *)
CallSteps == {"idle", "wait", "run", "failed", "started", "watch", "take", "cancel", "join",
              "stopped", "ok", "err"}
EntryStates == {"none", "running", "canceled", "done"}

(* The Shutdown call.                                                       *)
Downs == [pc : {"idle", "await", "take", "cancel", "join", "clear", "returned"},
          attempt : Starters \union {NoOne}, session : BOOLEAN, held : 0..MaxEntries]

(* The part of TypeOK that a step of a call needs of the others.            *)
Shape ==
    /\ entry \in 0..MaxEntries
    /\ state \in [Entries -> EntryStates]
    /\ watch \in [0..MaxEntries -> Nat]
    /\ orphaned \subseteq Entries
    /\ pc \in [Calls -> CallSteps]
    /\ held \in [Calls -> 0..MaxEntries]
    /\ result \in [Starters -> {"open", "ok", "err"}]
    /\ attempt \in [Starters -> Starters \union {NoOne}]
    /\ down \in Downs

(* Whoever is in the runner is the attempt the manager has registered, and  *)
(* whoever waits knows whom it waits for (Manager.starting).                *)
OneStarting ==
    /\ starting \in Starters \union {NoOne}
    /\ \A s \in Starters :
         /\ pc[s] \in {"run", "failed", "started"} => starting = s
         /\ pc[s] = "wait" => attempt[s] \in Starters
    /\ starting # NoOne =>
         ~session /\ pc[starting] \in {"run", "failed", "started"}

(* Shutdown closes the manager before it does anything else, so a Start     *)
(* that finishes later adds no session; and a session Shutdown collected    *)
(* was published, so that no Start follows its invocation.                  *)
ClosedFirst ==
    /\ session \in BOOLEAN /\ closed \in BOOLEAN
    /\ down.pc # "idle" =>
         /\ closed
         /\ session => down.session
         /\ down.session => /\ starting = NoOne
                            /\ down.pc \in {"await", "take"} \/ entry = 0

(* The runner forgets an invocation when it ends.                           *)
EntryLives == \A e \in Entries : entry = e => state[e] \in {"running", "canceled"}

(* Until the first Stop a session has one watcher, or a Start that is about *)
(* to add it; the watcher is of the invocation the runner holds; and        *)
(* without a session there is none, or no Start follows.                    *)
Unstopped == \A t \in Stoppers : pc[t] = "idle"
WatchersOwn ==
    /\ \A f \in 0..MaxEntries :
         /\ watch[f] \in {0, 1}
         /\ watch[f] = 1 =>
              /\ session \/ closed
              /\ session => entry \in {0, f}
              /\ \A g \in 0..MaxEntries : watch[g] = 1 => g = f
              /\ \A s \in Starters : pc[s] # "watch"
    /\ \A s \in Starters : pc[s] = "watch" =>
         /\ session \/ closed
         /\ \A r \in Starters : pc[r] = "watch" => r = s
    /\ orphaned = {}

ManagerInv ==
    /\ Shape /\ OneStarting /\ ClosedFirst /\ EntryLives
    /\ InRunner /\ InManager /\ ShutdownForgets
    /\ Unstopped => WatchersOwn
=============================================================================
