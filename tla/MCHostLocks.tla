---------------------------- MODULE MCHostLocks ----------------------------
(***************************************************************************)
(* The lock registries of the Host on small instances.  They share no      *)
(* state, so a behaviour exercises one of them while the others stay as    *)
(* they start:                                                             *)
(*   lifecycle    PluginLifecycleLock, three goroutines, two plugins;      *)
(*   keyed        KeyedLock as pkg/plugindata uses it, requests of one or  *)
(*                two keys in either mode;                                 *)
(*   maintenance  KeyedLock as the session maintenance locks use it, one   *)
(*                key, writers whose wait may be abandoned.                *)
(***************************************************************************)
EXTENDS PluginLifecycleLock

CONSTANTS p1, p2, p3, o1, o2, o3

VARIABLES focus,
          at, mode, want, got, ref, locks, refs, w, holders, blocked

keyed == <<at, mode, want, got, ref, locks, refs, w, holders, blocked>>

K == INSTANCE KeyedLock WITH
       Proc <- {p1, p2}, Key <- {1, 2}, Obj <- {o1, o2, o3},
       Mode <- {"read", "write"}, Cancelable <- FALSE,
       pc <- at, readers <- holders

M == INSTANCE KeyedLock WITH
       Proc <- {p1, p2, p3}, Key <- {1}, Obj <- {o1, o2},
       Mode <- {"write"}, Cancelable <- TRUE,
       pc <- at, readers <- holders

MCInit ==
  /\ Init
  /\ \/ focus \in {"lifecycle", "keyed"} /\ K!Init
     \/ focus = "maintenance" /\ M!Init

MCNext ==
  /\ UNCHANGED focus
  /\ \/ focus = "lifecycle" /\ Next /\ UNCHANGED keyed
     \/ focus = "keyed" /\ K!Next /\ UNCHANGED vars
     \/ focus = "maintenance" /\ M!Next /\ UNCHANGED vars

MCFairness ==
  /\ Fairness
  /\ \A p \in {p1, p2} : /\ WF_keyed(focus = "keyed" /\ K!Step(p))
                         /\ SF_keyed(focus = "keyed" /\ K!Lock(p))
  /\ \A p \in {p1, p2, p3} : /\ WF_keyed(focus = "maintenance" /\ M!Step(p))
                             /\ SF_keyed(focus = "maintenance" /\ M!Lock(p))

MCSpec == MCInit /\ [][MCNext]_<<focus, vars, keyed>> /\ MCFairness

\* Two goroutines that have locked a key are both readers, whichever lock
\* objects have stood for the key in the table, and the table holds an object for
\* a key exactly while somebody references it (keyedLocks, lockMaintenance); the
\* entries of the lifecycle lock count its grants, every one of which has a
\* goroutine that releases it, and its queue is in order.  The invariants that
\* exclusion is proved from hold.
KeyExclusion ==
  /\ IF focus = "maintenance" THEN M!KeyExclusion /\ M!TableCurrent /\ M!LocksInv
     ELSE K!KeyExclusion /\ K!TableCurrent /\ K!LocksInv
  /\ TypeOK /\ NoOrphan /\ EntriesMatchGrants /\ Ordered(waiters, ahead)

\* Every queued lifecycle request is eventually granted or abandoned, and a
\* request for any set of table keys is granted in the end, the keys being taken
\* in increasing order, or its context has ended (dispatchLocked, lockManyMode,
\* sessionScopeMaintenanceLockRegistry.acquire).
EveryLockGranted ==
  /\ NoStarvation
  /\ \A p \in {p1, p2, p3} :
       (p \in DOMAIN at /\ at[p] = "ref") ~> (p \in DOMAIN at => at[p] \in {"held", "idle"})
=============================================================================
