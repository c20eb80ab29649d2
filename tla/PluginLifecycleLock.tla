------------------------ MODULE PluginLifecycleLock ------------------------
(***************************************************************************)
(* The per-plugin lifecycle lock registry of the Host                      *)
(* (pkg/host/plugin_lifecycle_lock.go).                                    *)
(*                                                                         *)
(* A client asks for a read lock on one plugin instance, or for a write    *)
(* lock on one or several at once.  Requests queue in arrival order;       *)
(* dispatchLocked scans the queue, grants what it can, and lets a writer   *)
(* that must wait reserve its keys against everything queued behind it.    *)
(* A request is abandoned when its context ends, which races the grant.    *)
(*                                                                         *)
(* Every critical section of the registry mutex is one action.  A client   *)
(* stands for one goroutine that acquires and releases repeatedly; a       *)
(* context may end at any moment.  The waiter slice is kept as the set of  *)
(* queued clients with, for each, the set of clients queued ahead of it.   *)
(***************************************************************************)
EXTENDS Naturals, FiniteSets

CONSTANTS Client,   \* goroutines that take lifecycle locks
          Key       \* plugin instance identifiers

ASSUME ClientFinite == IsFiniteSet(Client)

VARIABLES pc,        \* pc[c]: where goroutine c is in acquire
          keys,      \* keys[c]: the normalised keys of c's waiter
          write,     \* write[c]: whether c's waiter wants write locks
          granted,   \* granted[c]: the granted flag of c's waiter
          waiters,   \* the clients whose waiter is queued
          ahead,     \* ahead[c]: the clients queued before c
          readers,   \* readers[k]: entry.readers (0 when k has no entry)
          writer     \* writer[k]: entry.writer (FALSE when k has no entry)

vars == <<pc, keys, write, granted, waiters, ahead, readers, writer>>

(***************************************************************************)
(* idle        outside acquire, holding nothing                            *)
(* requesting  in acquire, waiter built, not yet in the critical section   *)
(* waiting     in acquire, queued or just granted                          *)
(* canceling   in acquire, past ctx.Done, about to take the mutex          *)
(* holding     acquire has returned the release function                   *)
(***************************************************************************)
PC == {"idle", "requesting", "waiting", "canceling", "holding"}

TypeOK ==
  /\ pc \in [Client -> PC]
  /\ keys \in [Client -> SUBSET Key]
  /\ write \in [Client -> BOOLEAN]
  /\ granted \in [Client -> BOOLEAN]
  /\ waiters \in SUBSET Client
  /\ ahead \in [Client -> SUBSET Client]
  /\ readers \in [Key -> Nat]
  /\ writer \in [Key -> BOOLEAN]

Init ==
  /\ pc = [c \in Client |-> "idle"]
  /\ keys = [c \in Client |-> {}]
  /\ write = [c \in Client |-> FALSE]
  /\ granted = [c \in Client |-> FALSE]
  /\ waiters = {}
  /\ ahead = [c \in Client |-> {}]
  /\ readers = [k \in Key |-> 0]
  /\ writer = [k \in Key |-> FALSE]

Overlap(c, d) == keys[c] \cap keys[d] # {}

\* Two requests that must not be held together.
Conflict(c, d) == Overlap(c, d) /\ (write[c] \/ write[d])

\* Mutated CanGrant: a writer does not look at the readers.
CanGrantIgnoringReaders(c, rd, wr) == \A k \in keys[c] : ~wr[k]

\* canGrantLocked: no entry of the waiter's keys stands in its way.
CanGrant(c, rd, wr) ==
  \A k \in keys[c] : ~wr[k] /\ (write[c] => rd[k] = 0)

\* Mutated Grants: a writer left waiting reserves nothing.
GrantsWithoutReservations(G, q, ah, rd, wr) ==
  \A c \in q :
    c \in G <=> CanGrant(c, rd, wr) /\ \A d \in ah[c] \cap G : ~Conflict(d, c)

(***************************************************************************)
(* One scan of dispatchLocked over the queue q, whose members grants are   *)
(* moved into the entries: G is the set of waiters it grants.  A waiter is *)
(* granted when the entries allow it, no waiter granted earlier in the     *)
(* scan conflicts with it, and no writer left waiting ahead of it has      *)
(* reserved one of its keys.                                               *)
(***************************************************************************)
Grants(G, q, ah, rd, wr) ==
  \A c \in q :
    c \in G <=> /\ CanGrant(c, rd, wr)
                /\ \A d \in ah[c] \cap G : ~Conflict(d, c)
                /\ \A d \in ah[c] \ G : ~(write[d] /\ Overlap(d, c))

dispatchLocked(q, ah, rd, wr, gr) ==
  \E G \in SUBSET q :
    /\ Grants(G, q, ah, rd, wr)
    /\ granted' = [c \in Client |-> gr[c] \/ c \in G]
    /\ waiters' = q \ G
    /\ ahead' = [c \in Client |-> IF c \in q \ G THEN ah[c] \ G ELSE {}]
    /\ readers' = [k \in Key |->
         rd[k] + Cardinality({c \in G : k \in keys[c] /\ ~write[c]})]
    /\ writer' = [k \in Key |->
         wr[k] \/ \E c \in G : k \in keys[c] /\ write[c]]

-----------------------------------------------------------------------------
\* acquire, up to the critical section: keys are normalised to a non-empty
\* set, a read request names exactly one, and the waiter is built.
Request(c) ==
  /\ pc[c] = "idle"
  /\ \E K \in (SUBSET Key) \ {{}}, w \in BOOLEAN :
       /\ ~w => \E k \in Key : K = {k}
       /\ keys' = [keys EXCEPT ![c] = K]
       /\ write' = [write EXCEPT ![c] = w]
  /\ pc' = [pc EXCEPT ![c] = "requesting"]
  /\ UNCHANGED <<granted, waiters, ahead, readers, writer>>

\* The context ended before the waiter was queued.
Abandon(c) ==
  /\ pc[c] = "requesting"
  /\ pc' = [pc EXCEPT ![c] = "idle"]
  /\ UNCHANGED <<keys, write, granted, waiters, ahead, readers, writer>>

Enqueue(c) ==
  /\ pc[c] = "requesting"
  /\ pc' = [pc EXCEPT ![c] = "waiting"]
  /\ dispatchLocked(waiters \cup {c}, [ahead EXCEPT ![c] = waiters],
                    readers, writer, granted)
  /\ UNCHANGED <<keys, write>>

\* finishAcquisition with a live context: the release function is returned.
Finish(c) ==
  /\ pc[c] = "waiting" /\ granted[c]
  /\ pc' = [pc EXCEPT ![c] = "holding"]
  /\ UNCHANGED <<keys, write, granted, waiters, ahead, readers, writer>>

\* The select of acquire takes the ctx.Done branch.
CtxDone(c) ==
  /\ pc[c] = "waiting"
  /\ pc' = [pc EXCEPT ![c] = "canceling"]
  /\ UNCHANGED <<keys, write, granted, waiters, ahead, readers, writer>>

\* Mutated CancelQueued: the queue is not dispatched again.
CancelQueuedWithoutDispatch(c) ==
  /\ pc[c] = "canceling" /\ ~granted[c]
  /\ pc' = [pc EXCEPT ![c] = "idle"]
  /\ waiters' = waiters \ {c}
  /\ ahead' = [d \in Client |-> IF d = c THEN {} ELSE ahead[d] \ {c}]
  /\ UNCHANGED <<keys, write, granted, readers, writer>>

\* The context ended after all and the waiter was not granted in between.
CancelQueued(c) ==
  /\ pc[c] = "canceling" /\ ~granted[c]
  /\ pc' = [pc EXCEPT ![c] = "idle"]
  /\ dispatchLocked(waiters \ {c}, [d \in Client |-> ahead[d] \ {c}],
                    readers, writer, granted)
  /\ UNCHANGED <<keys, write>>

HasEntry(k) == writer[k] \/ readers[k] > 0

\* release: undo the waiter's marks on its entries, then dispatch.
release(c) ==
  /\ pc' = [pc EXCEPT ![c] = "idle"]
  /\ dispatchLocked(waiters, ahead,
       [k \in Key |-> IF k \in keys[c] /\ HasEntry(k) /\ ~write[c]
                        THEN readers[k] - 1 ELSE readers[k]],
       [k \in Key |-> writer[k] /\ ~(k \in keys[c] /\ write[c])],
       [granted EXCEPT ![c] = FALSE])
  /\ UNCHANGED <<keys, write>>

\* A granted request whose context has ended, seen by finishAcquisition or
\* by the ctx.Done branch of acquire.
ReleaseCanceled(c) ==
  /\ pc[c] \in {"waiting", "canceling"} /\ granted[c]
  /\ release(c)

\* The holder calls its release function (sync.Once: at most once).
Release(c) ==
  /\ pc[c] = "holding"
  /\ release(c)

Step(c) == \/ Request(c) \/ Abandon(c) \/ Enqueue(c) \/ Finish(c) \/ CtxDone(c)
           \/ CancelQueued(c) \/ ReleaseCanceled(c) \/ Release(c)

Next == \E c \in Client : Step(c)

Spec == Init /\ [][Next]_vars

(***************************************************************************)
(* Goroutines inside acquire run on, and every caller releases what it     *)
(* acquired (all of them defer the release function).  Nothing forces a    *)
(* client to ask, nor a context to end.                                    *)
(***************************************************************************)
Fairness ==
  \A c \in Client :
    /\ WF_vars(Enqueue(c) \/ Abandon(c))
    /\ WF_vars(Finish(c) \/ ReleaseCanceled(c))
    /\ WF_vars(CancelQueued(c))
    /\ WF_vars(Release(c))

FairSpec == Spec /\ Fairness

-----------------------------------------------------------------------------
\* No two granted requests conflict: a plugin has one writer and no reader,
\* or readers only, whatever the cancellations and multi-key writers do.
MutualExclusion ==
  \A c, d \in Client : c # d /\ granted[c] /\ granted[d] => ~Conflict(c, d)

\* The lock entries count exactly the granted requests: no release is lost
\* to a cancellation, none is applied twice, no entry outlives its holders.
EntriesMatchGrants ==
  \A k \in Key :
    /\ readers[k] = Cardinality({c \in Client :
                       granted[c] /\ ~write[c] /\ k \in keys[c]})
    /\ writer[k] <=> \E c \in Client : granted[c] /\ write[c] /\ k \in keys[c]

\* No lost wakeup: whoever is still queued after a critical section is kept
\* waiting by a conflicting holder or by a writer queued ahead of it.
NoLostWakeup ==
  \A c \in waiters :
    \/ \E d \in Client : granted[d] /\ Conflict(c, d)
    \/ \E d \in ahead[c] : write[d] /\ Overlap(c, d)

\* A granted request has a goroutine that will release it: a cancellation
\* racing the grant in acquire never walks away from a granted waiter, and a
\* queued waiter always has a goroutine still inside acquire.
NoOrphan ==
  \A c \in Client :
    /\ granted[c] => pc[c] \in {"waiting", "canceling", "holding"}
    /\ pc[c] = "holding" => granted[c]
    /\ c \in waiters <=> pc[c] \in {"waiting", "canceling"} /\ ~granted[c]

\* Any two waiters of the queue q stand in an order, and what ah records ahead
\* of a waiter is still queued (waiters is one slice, scanned front to back).
Ordered(q, ah) ==
  /\ \A c \in q : ah[c] \subseteq q \ {c}
  /\ \A c, d \in q : c # d => c \in ah[d] \/ d \in ah[c]

\* A request is never granted past a writer queued ahead of it on one of its
\* keys, unless that writer gave up in the same step (writer reservations).
NoOvertaking ==
  [][\A c \in Client, d \in waiters :
       /\ ~granted[c] /\ granted'[c]
       /\ c \in waiters => d \in ahead[c]
       /\ c # d /\ write[d] /\ Overlap(c, d)
       => d \notin waiters' /\ ~granted'[d]]_vars

\* Every queued request is eventually granted or abandoned: neither a writer
\* among a stream of readers nor a multi-key writer starves.
NoStarvation ==
  \A c \in Client : c \in waiters ~> c \notin waiters
=============================================================================
