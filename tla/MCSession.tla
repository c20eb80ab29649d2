----------------------------- MODULE MCSession -----------------------------
(***************************************************************************)
(* The gate of one session scope on two small instances.  A behaviour      *)
(* exercises one of them:                                                  *)
(*   gate      SessionScopeCoordinator, three goroutines and two gate      *)
(*             objects;                                                    *)
(*   waits     the same with one gate object, for the liveness.            *)
(***************************************************************************)
EXTENDS SessionScopeCoordinator

CONSTANTS g1

VARIABLE focus

W == INSTANCE SessionScopeCoordinator WITH Gate <- {g1}

MCInit ==
  /\ focus \in {"gate", "waits"}
  /\ IF focus = "waits" THEN W!Init ELSE Init

MCNext ==
  /\ UNCHANGED focus
  /\ \/ focus = "gate" /\ Next
     \/ focus = "waits" /\ W!Next

\* The goroutines at a gate run, and callers release what they hold (Fairness).
WaitFair ==
  \A p \in Proc :
    /\ WF_vars(focus = "waits" /\ W!ReserveStep(p)) /\ WF_vars(focus = "waits" /\ W!TeardownStep(p))
    /\ WF_vars(focus = "waits" /\ notified[p] /\ W!Wake(p))
    /\ WF_vars(focus = "waits" /\ W!ReservationRelease(p))
    /\ WF_vars(focus = "waits" /\ W!TeardownRelease(p))

MCSpec == MCInit /\ [][MCNext]_<<focus, vars>> /\ WaitFair

\* Every wait at a gate ends and a draining teardown reaches the store, when the
\* callers release what they hold (waitForGateChange, acquireTeardown).  All
\* along nobody holds a gate that has left the map, the gate counts exactly the
\* goroutines at it, and a drained gate is empty.
WaitsAndDrainsEnd ==
  /\ [](/\ IF focus = "gate" THEN TypeOK ELSE W!TypeOK
        /\ GatePointersCurrent /\ GateCountsUsers /\ DrainedGateIsEmpty)
  /\ \A p \in Proc :
       (focus = "waits" /\ pc[p] \in Waiting \cup {"draining"}) ~> (pc[p] \notin Waiting \cup {"draining"})
=============================================================================
