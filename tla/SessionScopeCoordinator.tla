---------------------- MODULE SessionScopeCoordinator ----------------------
(***************************************************************************)
(* The admission gate of one session scope and its durable fence record    *)
(* (pkg/sessionscope: Coordinator, scopeGate, the Store transitions; the   *)
(* SessionView of internal/controlstore keeps the record).                 *)
(*                                                                         *)
(* Goroutines reserve the scope before they mutate anything; a teardown    *)
(* closes the gate, waits for the reservations to leave and only then      *)
(* writes the fence.  A gate object exists only while somebody uses it, so *)
(* goroutines hold pointers to objects the map may drop.  Every critical   *)
(* section of Coordinator.mu and every store call is one action.  Scopes   *)
(* are independent but for MaxScopes, whose exhaustion is one of the ways  *)
(* a store call fails.                                                     *)
(***************************************************************************)
EXTENDS Naturals, FiniteSets

CONSTANTS Proc,     \* goroutines
          Gate,     \* addresses of scopeGate objects
          NoGate    \* the nil pointer

ASSUME ProcFinite == IsFiniteSet(Proc)
ASSUME NoGateIsNoGate == NoGate \notin Gate

VARIABLES pc,        \* where each goroutine is
          my,        \* the gate each goroutine holds a pointer to
          notified,  \* the changed channel the goroutine waits on is closed
          gates,     \* gates[scope] of the Coordinator
          active, teardown, fenced, waiters,   \* the fields of each scopeGate
          fence      \* durable: the state of the fence record, or "none"

gateVars == <<gates, active, teardown, fenced, waiters>>
vars == <<pc, my, notified, gates, active, teardown, fenced, waiters, fence>>

FenceState == {"none", "draining", "incomplete", "complete"}

(***************************************************************************)
(* reserving     at the top of the loop of Reserve                         *)
(* reserveWait   in waitForGateChange of Reserve                           *)
(* checking      counted active, about to read the store                   *)
(* holding       Reserve has returned a Reservation                        *)
(* acquiring     at the top of the loop of acquireTeardown, owned = false  *)
(* acquireWait   waiting there for another teardown to release             *)
(* drainWait     owner, waiting for active reservations to leave           *)
(* draining      owner, back at the top of the loop                        *)
(* owned         acquireTeardown has returned, the store call is next      *)
(* fencing       store.BeginTeardown has committed, the gate is not marked *)
(* tearing       BeginTeardown has returned a Teardown handle              *)
(* releasing     store.Finalize has returned, releaseTeardown is deferred  *)
(***************************************************************************)
Admitted == {"checking", "holding"}
Waiting == {"reserveWait", "acquireWait", "drainWait"}
Drained == {"owned", "fencing", "tearing", "releasing"}
Owner == Drained \cup {"drainWait", "draining"}
PC == {"idle", "reserving", "acquiring"} \cup Admitted \cup Waiting \cup Owner

TypeOK ==
  /\ pc \in [Proc -> PC]
  /\ my \in [Proc -> Gate \cup {NoGate}]
  /\ notified \in [Proc -> BOOLEAN]
  /\ gates \in Gate \cup {NoGate}
  /\ active \in [Gate -> Nat]
  /\ teardown \in [Gate -> BOOLEAN]
  /\ fenced \in [Gate -> BOOLEAN]
  /\ waiters \in [Gate -> Nat]
  /\ fence \in FenceState

\* The first start of the process: no gates and no fence.
Init ==
  /\ pc = [p \in Proc |-> "idle"]
  /\ my = [p \in Proc |-> NoGate]
  /\ notified = [p \in Proc |-> FALSE]
  /\ gates = NoGate
  /\ active = [g \in Gate |-> 0]
  /\ teardown = [g \in Gate |-> FALSE]
  /\ fenced = [g \in Gate |-> FALSE]
  /\ waiters = [g \in Gate |-> 0]
  /\ fence = "none"

-----------------------------------------------------------------------------
\* gateLocked: the scope's gate, or a newly allocated one.
gateLocked(g) ==
  IF gates = NoGate THEN \A p \in Proc : my[p] # g ELSE g = gates

\* The fields gateLocked leaves in the gate it returns.
ActiveOf(g) == IF gates = NoGate THEN 0 ELSE active[g]
TeardownOf(g) == gates # NoGate /\ teardown[g]
FencedOf(g) == gates # NoGate /\ fenced[g]
WaitersOf(g) == IF gates = NoGate THEN 0 ELSE waiters[g]

\* Store gate g in the map with these fields.
SetGate(g, a, t, f, w) ==
  /\ gates' = g
  /\ active' = [active EXCEPT ![g] = a]
  /\ teardown' = [teardown EXCEPT ![g] = t]
  /\ fenced' = [fenced EXCEPT ![g] = f]
  /\ waiters' = [waiters EXCEPT ![g] = w]

\* Write the fields of gate g, then cleanupGateLocked.
SetAndCleanup(g, a, t, w) ==
  /\ active' = [active EXCEPT ![g] = a]
  /\ teardown' = [teardown EXCEPT ![g] = t]
  /\ waiters' = [waiters EXCEPT ![g] = w]
  /\ gates' = IF gates = g /\ a = 0 /\ ~t /\ w = 0 THEN NoGate ELSE gates
  /\ UNCHANGED fenced

\* signalGateLocked: whoever waits on the gate's changed channel, but p
\* itself, can run.
signalGateLocked(g, p) ==
  notified' = [q \in Proc |-> notified[q] \/ (q # p /\ my[q] = g /\ pc[q] \in Waiting)]

Goto(p, where, g) ==
  /\ pc' = [pc EXCEPT ![p] = where]
  /\ my' = [my EXCEPT ![p] = g]

\* Start to wait on the gate's changed channel.
StartWait(p, where, g) ==
  /\ Goto(p, where, g)
  /\ notified' = [notified EXCEPT ![p] = FALSE]

-----------------------------------------------------------------------------
\* Reserve is called.
ReserveCall(p) ==
  /\ pc[p] = "idle"
  /\ Goto(p, "reserving", NoGate)
  /\ UNCHANGED <<notified, gateVars, fence>>

\* A fenced teardown is under way: ErrSessionRevoked.
ReserveRefused(p) ==
  /\ pc[p] = "reserving"
  /\ \E g \in Gate : gateLocked(g) /\ TeardownOf(g) /\ FencedOf(g)
  /\ Goto(p, "idle", NoGate)
  /\ UNCHANGED <<notified, gateVars, fence>>

\* A teardown that has not committed its fence: wait for it to decide.
ReserveWait(p) ==
  /\ pc[p] = "reserving"
  /\ \E g \in Gate :
       /\ gateLocked(g) /\ TeardownOf(g) /\ ~FencedOf(g)
       /\ SetGate(g, ActiveOf(g), TRUE, FALSE, WaitersOf(g) + 1)
       /\ StartWait(p, "reserveWait", g)
  /\ UNCHANGED fence

ReserveCount(p) ==
  /\ pc[p] = "reserving"
  /\ \E g \in Gate :
       /\ gateLocked(g) /\ ~TeardownOf(g)
       /\ SetGate(g, ActiveOf(g) + 1, FALSE, FencedOf(g), WaitersOf(g))
       /\ Goto(p, "checking", g)
  /\ UNCHANGED <<notified, fence>>

\* The wait ended: back to the loop, or out when the context ended.
WaitEnds(p, from, again) ==
  /\ pc[p] = from
  /\ \/ notified[p] /\ Goto(p, again, NoGate)
     \/ Goto(p, "idle", NoGate)
  /\ SetAndCleanup(my[p], active[my[p]], teardown[my[p]], waiters[my[p]] - 1)
  /\ UNCHANGED <<notified, fence>>

ReserveWake(p) == WaitEnds(p, "reserveWait", "reserving")

\* Mutation: the change is not signalled.
releaseReservationSilently(p) ==
  /\ IF gates = my[p] /\ active[my[p]] > 0
       THEN SetAndCleanup(my[p], active[my[p]] - 1, teardown[my[p]], waiters[my[p]])
       ELSE UNCHANGED gateVars
  /\ Goto(p, "idle", NoGate)
  /\ UNCHANGED notified

\* releaseReservation, by Reserve itself or by the holder of the Reservation.
releaseReservation(p) ==
  /\ IF gates = my[p] /\ active[my[p]] > 0
       THEN /\ SetAndCleanup(my[p], active[my[p]] - 1, teardown[my[p]], waiters[my[p]])
            /\ signalGateLocked(my[p], p)
       ELSE UNCHANGED <<gateVars, notified>>
  /\ Goto(p, "idle", NoGate)

\* Mutation: the gate alone admits, the store is not asked.
ReserveGrantedUnchecked(p) ==
  /\ pc[p] = "checking"
  /\ Goto(p, "holding", my[p])
  /\ UNCHANGED <<notified, gateVars, fence>>

\* store.Get finds no fence.
ReserveGranted(p) ==
  /\ pc[p] = "checking" /\ fence = "none"
  /\ Goto(p, "holding", my[p])
  /\ UNCHANGED <<notified, gateVars, fence>>

\* store.Get finds a fence, or fails: the reservation is given back.
ReserveDenied(p) ==
  /\ pc[p] = "checking"
  /\ releaseReservation(p)
  /\ UNCHANGED fence

ReservationRelease(p) ==
  /\ pc[p] = "holding"
  /\ releaseReservation(p)
  /\ UNCHANGED fence

-----------------------------------------------------------------------------
\* BeginTeardown or Finalize is called; which of the two it is shows at the
\* store call only.
TeardownCall(p) ==
  /\ pc[p] = "idle"
  /\ Goto(p, "acquiring", NoGate)
  /\ UNCHANGED <<notified, gateVars, fence>>

\* acquireTeardown: another teardown owns the gate.
AcquireWait(p) ==
  /\ pc[p] = "acquiring"
  /\ \E g \in Gate :
       /\ gateLocked(g) /\ TeardownOf(g)
       /\ SetGate(g, ActiveOf(g), TRUE, FencedOf(g), WaitersOf(g) + 1)
       /\ StartWait(p, "acquireWait", g)
  /\ UNCHANGED fence

AcquireWake(p) == WaitEnds(p, "acquireWait", "acquiring")

\* acquireTeardown: the gate is closed to new reservations; the ones already
\* counted must leave first.
AcquireTeardown(p) ==
  /\ pc[p] = "acquiring"
  /\ \E g \in Gate :
       /\ gateLocked(g) /\ ~TeardownOf(g)
       /\ IF ActiveOf(g) = 0
            THEN /\ SetGate(g, 0, TRUE, FencedOf(g), WaitersOf(g))
                 /\ Goto(p, "owned", g) /\ UNCHANGED notified
            ELSE /\ SetGate(g, ActiveOf(g), TRUE, FencedOf(g), WaitersOf(g) + 1)
                 /\ StartWait(p, "drainWait", g)
  /\ UNCHANGED fence

\* The gate changed while the owner waited for it to drain.
DrainWake(p) ==
  /\ pc[p] = "drainWait" /\ notified[p]
  /\ Goto(p, "draining", my[p])
  /\ waiters' = [waiters EXCEPT ![my[p]] = @ - 1]
  /\ UNCHANGED <<notified, gates, active, teardown, fenced, fence>>

DrainAgain(p) ==
  /\ pc[p] = "draining"
  /\ IF active[my[p]] = 0
       THEN Goto(p, "owned", my[p]) /\ UNCHANGED <<waiters, notified>>
       ELSE /\ waiters' = [waiters EXCEPT ![my[p]] = @ + 1]
            /\ StartWait(p, "drainWait", my[p])
  /\ UNCHANGED <<gates, active, teardown, fenced, fence>>

\* The context ended while the owner waited: the gate opens again.
DrainCanceled(p) ==
  /\ pc[p] = "drainWait"
  /\ SetAndCleanup(my[p], active[my[p]], FALSE, waiters[my[p]] - 1)
  /\ signalGateLocked(my[p], p)
  /\ Goto(p, "idle", NoGate)
  /\ UNCHANGED fence

releaseTeardown(p) ==
  /\ IF gates = my[p] /\ teardown[my[p]]
       THEN /\ SetAndCleanup(my[p], active[my[p]], FALSE, waiters[my[p]])
            /\ signalGateLocked(my[p], p)
       ELSE UNCHANGED <<gateVars, notified>>
  /\ Goto(p, "idle", NoGate)

\* Mutation: a completed teardown is started over.
StoreBeginTeardownAnew(p) ==
  /\ pc[p] = "owned"
  /\ fence' = "draining"
  /\ Goto(p, "fencing", my[p])
  /\ UNCHANGED <<notified, gateVars>>

\* store.BeginTeardown: insert the fence, or take an unfinished one up again.
StoreBeginTeardown(p) ==
  /\ pc[p] = "owned"
  /\ fence' = IF fence = "complete" THEN fence ELSE "draining"
  /\ Goto(p, "fencing", my[p])
  /\ UNCHANGED <<notified, gateVars>>

\* store.BeginTeardown or store.Finalize fails (capacity, identity, proof,
\* context, database): the deferred release runs and nothing was written.
StoreFails(p) ==
  /\ pc[p] = "owned"
  /\ releaseTeardown(p)
  /\ UNCHANGED fence

markGateFenced(p) ==
  /\ pc[p] = "fencing"
  /\ IF gates = my[p] /\ teardown[my[p]]
       THEN /\ fenced' = [fenced EXCEPT ![my[p]] = TRUE]
            /\ signalGateLocked(my[p], p)
       ELSE UNCHANGED <<fenced, notified>>
  /\ Goto(p, "tearing", my[p])
  /\ UNCHANGED <<gates, active, teardown, waiters, fence>>

\* The Teardown handle settles the record; a replayed mark is accepted.
MarkIncomplete(p) ==
  /\ pc[p] = "tearing" /\ fence \in {"draining", "incomplete"}
  /\ fence' = "incomplete"
  /\ UNCHANGED <<pc, my, notified, gateVars>>

MarkComplete(p) ==
  /\ pc[p] = "tearing" /\ fence \in {"draining", "complete"}
  /\ fence' = "complete"
  /\ UNCHANGED <<pc, my, notified, gateVars>>

TeardownRelease(p) ==
  /\ pc[p] = "tearing"
  /\ releaseTeardown(p)
  /\ UNCHANGED fence

\* store.Finalize deletes a complete record whose proof matches.
StoreFinalize(p) ==
  /\ pc[p] = "owned" /\ fence = "complete"
  /\ fence' = "none"
  /\ Goto(p, "releasing", my[p])
  /\ UNCHANGED <<notified, gateVars>>

FinalizeReturns(p) ==
  /\ pc[p] = "releasing"
  /\ releaseTeardown(p)
  /\ UNCHANGED fence

\* The process dies and starts again: only the fence record survives.
Crash ==
  /\ pc' = [p \in Proc |-> "idle"]
  /\ my' = [p \in Proc |-> NoGate]
  /\ notified' = [p \in Proc |-> FALSE]
  /\ gates' = NoGate
  /\ active' = [g \in Gate |-> 0]
  /\ teardown' = [g \in Gate |-> FALSE]
  /\ fenced' = [g \in Gate |-> FALSE]
  /\ waiters' = [g \in Gate |-> 0]
  /\ UNCHANGED fence

ReserveStep(p) == ReserveRefused(p) \/ ReserveWait(p) \/ ReserveCount(p)
                  \/ ReserveGranted(p) \/ ReserveDenied(p)
TeardownStep(p) == \/ AcquireWait(p) \/ AcquireTeardown(p) \/ DrainAgain(p)
                   \/ StoreBeginTeardown(p) \/ StoreFails(p) \/ markGateFenced(p)
                   \/ StoreFinalize(p) \/ FinalizeReturns(p)
Wake(p) == ReserveWake(p) \/ AcquireWake(p) \/ DrainWake(p) \/ DrainCanceled(p)
Step(p) == \/ ReserveCall(p) \/ TeardownCall(p)
           \/ ReserveStep(p) \/ TeardownStep(p) \/ Wake(p)
           \/ ReservationRelease(p) \/ TeardownRelease(p)
           \/ MarkIncomplete(p) \/ MarkComplete(p)

Next == Crash \/ \E p \in Proc : Step(p)

Spec == Init /\ [][Next]_vars

(***************************************************************************)
(* Goroutines inside the coordinator run on, a closed channel wakes its    *)
(* waiter, and callers release what they got: Host defers both Release     *)
(* functions.  A context need not end and a process need not crash.        *)
(***************************************************************************)
Fairness ==
  \A p \in Proc :
    /\ WF_vars(ReserveStep(p)) /\ WF_vars(TeardownStep(p))
    /\ WF_vars(notified[p] /\ Wake(p))
    /\ WF_vars(ReservationRelease(p)) /\ WF_vars(TeardownRelease(p))

FairSpec == Spec /\ Fairness

-----------------------------------------------------------------------------
\* Nothing is admitted past a fence: while the fence record exists, in any
\* state and across restarts, no goroutine holds a reservation.
NoAdmissionPastFence ==
  fence # "none" => \A p \in Proc : pc[p] # "holding"

\* A gate pointer never goes stale: whoever holds one holds the gate that is
\* in the map, so no release or mark is dropped by the identity checks of
\* releaseReservation, releaseTeardown and markGateFenced.
GatePointersCurrent ==
  \A p \in Proc :
    /\ my[p] # NoGate => my[p] = gates
    /\ my[p] = NoGate <=> pc[p] \in {"idle", "reserving", "acquiring"}

\* How many goroutines are at one of the places S.
Users(S) == Cardinality({p \in Proc : pc[p] \in S})

\* The gate in the map counts its users exactly, has one teardown owner at
\* most, and is dropped when the last user leaves: an idle session keeps
\* no gate alive.
GateCountsUsers ==
  IF gates = NoGate THEN \A p \in Proc : my[p] = NoGate
  ELSE /\ active[gates] = Users(Admitted)
       /\ waiters[gates] = Users(Waiting)
       /\ teardown[gates] <=> \E p \in Proc : pc[p] \in Owner
       /\ \A p, q \in Proc : pc[p] \in Owner /\ pc[q] \in Owner => p = q
       /\ \E p \in Proc : my[p] # NoGate

\* A teardown that got past its drain runs alone: nobody is even between
\* being counted and reading the store.
DrainedGateIsEmpty ==
  (\E p \in Proc : pc[p] \in Drained) => \A q \in Proc : pc[q] \notin Admitted

\* Only a completed teardown removes the fence, and an unfinished one never
\* turns complete without going through draining again.
FenceProgress ==
  [][/\ fence # "none" /\ fence' = "none" => fence = "complete"
     /\ fence # "complete" /\ fence' = "complete" => fence = "draining"
     /\ fence = "complete" => fence' \in {"complete", "none"}]_fence

\* The coordinator implements the abstract fence.
Abstract == INSTANCE SessionFence WITH
              admitted <- {p \in Proc : pc[p] = "holding"}
ImplementsFence == Abstract!Spec

=============================================================================
