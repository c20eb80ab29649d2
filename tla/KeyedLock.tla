----------------------------- MODULE KeyedLock -----------------------------
(***************************************************************************)
(* The reference-counted lock tables of the platform: keyedLocks of        *)
(* pkg/plugindata, the per-plugin execution gates (lockPlugin) and the     *)
(* session maintenance locks of pkg/host.  A table maps a key to a lock    *)
(* object that exists only while somebody references it; a goroutine       *)
(* references the object under the table's mutex and then waits for the    *)
(* object itself.  A request may take several keys, in increasing order,   *)
(* and releases them in decreasing order.                                  *)
(*                                                                         *)
(* The object is a Go sync.RWMutex: a writer first takes the internal      *)
(* mutex w, from then on arriving readers block, and it holds the lock     *)
(* when the readers that were there have left; its unlock lets every       *)
(* blocked reader in.  The one-token channel of the maintenance locks is   *)
(* the case of writers only, whose wait may be abandoned.                  *)
(***************************************************************************)
EXTENDS Integers, FiniteSets

CONSTANTS Proc,        \* goroutines
          Key,         \* keys, ordered as the code sorts them
          Obj,         \* lock objects
          Mode,        \* the modes requests use
          Cancelable   \* whether a wait ends with its context

None == "none"

VARIABLES
  pc,       \* where each goroutine is
  mode,     \* the mode of its request
  want,     \* the keys of its request
  got,      \* the keys it has locked
  ref,      \* ref[p][k]: the object p references for k, or None
  locks,    \* the table: key to object, or None
  refs,     \* references counted on each object
  w,        \* RWMutex: the writer that holds or waits for the lock
  readers,  \* RWMutex: the readers that hold it
  blocked   \* RWMutex: readers blocked behind a writer

vars == <<pc, mode, want, got, ref, locks, refs, w, readers, blocked>>
mutex == <<w, readers, blocked>>
table == <<ref, locks, refs>>

PC == {"idle", "ref", "lock", "drain", "blocked", "held", "unlock", "unref"}

TypeOK ==
  /\ pc \in [Proc -> PC] /\ mode \in [Proc -> {"read", "write"}]
  /\ want \in [Proc -> SUBSET Key] /\ got \in [Proc -> SUBSET Key]
  /\ ref \in [Proc -> [Key -> Obj \cup {None}]]
  /\ locks \in [Key -> Obj \cup {None}] /\ refs \in [Obj -> Nat]
  /\ w \in [Obj -> Proc \cup {None}]
  /\ readers \in [Obj -> SUBSET Proc] /\ blocked \in [Obj -> SUBSET Proc]

Init ==
  /\ pc = [p \in Proc |-> "idle"] /\ mode = [p \in Proc |-> "read"]
  /\ want = [p \in Proc |-> {}] /\ got = [p \in Proc |-> {}]
  /\ ref = [p \in Proc |-> [k \in Key |-> None]]
  /\ locks = [k \in Key |-> None] /\ refs = [o \in Obj |-> 0]
  /\ w = [o \in Obj |-> None]
  /\ readers = [o \in Obj |-> {}] /\ blocked = [o \in Obj |-> {}]

Referenced(p) == {k \in Key : ref[p][k] # None}
\* The key p has referenced and not locked, or unlocked and not yet released.
Pending(p) == CHOOSE k \in Referenced(p) : k \notin got[p]
Target(p) == ref[p][Pending(p)]

-----------------------------------------------------------------------------
Request(p) ==
  /\ pc[p] = "idle"
  /\ \E m \in Mode, s \in (SUBSET Key) \ {{}} :
        mode' = [mode EXCEPT ![p] = m] /\ want' = [want EXCEPT ![p] = s]
  /\ pc' = [pc EXCEPT ![p] = "ref"]
  /\ UNCHANGED <<got, table, mutex>>

NextKey(p) == CHOOSE k \in want[p] \ got[p] : \A j \in want[p] \ got[p] : k =< j

CountRef(o) == refs' = [refs EXCEPT ![o] = @ + 1]

\* Under the table's mutex: find the object of the next key or make one, and
\* count the reference.
Reference(p) ==
  /\ pc[p] = "ref"
  /\ LET k == NextKey(p) IN
     \E o \in Obj :
       /\ IF locks[k] # None
          THEN o = locks[k] /\ UNCHANGED locks
          ELSE /\ \A q \in Proc, j \in Key : ref[q][j] # o
               /\ locks' = [locks EXCEPT ![k] = o]
       /\ CountRef(o)
       /\ ref' = [ref EXCEPT ![p][k] = o]
  /\ pc' = [pc EXCEPT ![p] = "lock"]
  /\ UNCHANGED <<mode, want, got, mutex>>

\* The lock of the pending key is taken: go on to the next key, or return.
Taken(s) ==
  /\ got' = [p \in Proc |-> IF p \in s THEN got[p] \cup {Pending(p)} ELSE got[p]]
  /\ pc' = [p \in Proc |-> IF p \notin s THEN pc[p]
                           ELSE IF got'[p] = want[p] THEN "held" ELSE "ref"]

RLock(p) ==
  /\ pc[p] = "lock" /\ mode[p] = "read"
  /\ \/ /\ w[Target(p)] = None
        /\ readers' = [readers EXCEPT ![Target(p)] = @ \cup {p}]
        /\ Taken({p}) /\ UNCHANGED blocked
     \/ /\ w[Target(p)] # None
        /\ blocked' = [blocked EXCEPT ![Target(p)] = @ \cup {p}]
        /\ pc' = [pc EXCEPT ![p] = "blocked"] /\ UNCHANGED <<got, readers>>
  /\ UNCHANGED <<mode, want, table, w>>

Lock(p) ==
  /\ pc[p] = "lock" /\ mode[p] = "write" /\ w[Target(p)] = None
  /\ w' = [w EXCEPT ![Target(p)] = p]
  /\ pc' = [pc EXCEPT ![p] = "drain"]
  /\ UNCHANGED <<mode, want, got, table, readers, blocked>>

Drain(p) ==
  /\ pc[p] = "drain" /\ readers[Target(p)] = {}
  /\ Taken({p})
  /\ UNCHANGED <<mode, want, table, mutex>>

\* The context of a waiting maintenance call ends.
Cancel(p) ==
  /\ Cancelable /\ pc[p] = "lock"
  /\ pc' = [pc EXCEPT ![p] = "unref"]
  /\ UNCHANGED <<mode, want, got, table, mutex>>

Release(p) ==
  /\ pc[p] = "held"
  /\ pc' = [pc EXCEPT ![p] = "unlock"]
  /\ UNCHANGED <<mode, want, got, table, mutex>>

\* Unlock the greatest locked key.
UnlockKey(p) == CHOOSE k \in got[p] : \A j \in got[p] : k >= j

RUnlock(p) ==
  /\ pc[p] = "unlock" /\ mode[p] = "read"
  /\ readers' = [readers EXCEPT ![ref[p][UnlockKey(p)]] = @ \ {p}]
  /\ got' = [got EXCEPT ![p] = @ \ {UnlockKey(p)}]
  /\ pc' = [pc EXCEPT ![p] = "unref"]
  /\ UNCHANGED <<mode, want, table, w, blocked>>

FreeWriter(o) == w' = [w EXCEPT ![o] = None]

Woken(o) == blocked[o]

\* The unlock counts every blocked reader as a holder at once.
Unlock(p) ==
  /\ pc[p] = "unlock" /\ mode[p] = "write"
  /\ LET o == ref[p][UnlockKey(p)]  woken == Woken(o) IN
     /\ FreeWriter(o)
     /\ readers' = [readers EXCEPT ![o] = @ \cup woken]
     /\ blocked' = [blocked EXCEPT ![o] = {}]
     /\ got' = [q \in Proc |-> IF q = p THEN got[p] \ {UnlockKey(p)}
                               ELSE IF q \in woken THEN got[q] \cup {Pending(q)}
                               ELSE got[q]]
     /\ pc' = [q \in Proc |-> IF q = p THEN "unref"
                              ELSE IF q \notin woken THEN pc[q]
                              ELSE IF got'[q] = want[q] THEN "held" ELSE "ref"]
  /\ UNCHANGED <<mode, want, table>>

\* Mutant: the first release drops the object.
DropRefFirst(p, k, o) ==
  /\ refs' = [refs EXCEPT ![o] = @ - 1]
  /\ locks' = [locks EXCEPT ![k] = None]
  /\ ref' = [ref EXCEPT ![p][k] = None]

\* Drop the object from the table with its last reference.
DropRef(p, k, o) ==
  /\ refs' = [refs EXCEPT ![o] = @ - 1]
  /\ locks' = IF refs[o] = 1 THEN [locks EXCEPT ![k] = None] ELSE locks
  /\ ref' = [ref EXCEPT ![p][k] = None]

Dereference(p) ==
  /\ pc[p] = "unref"
  /\ DropRef(p, Pending(p), Target(p))
  /\ IF got[p] = {}
     THEN pc' = [pc EXCEPT ![p] = "idle"] /\ want' = [want EXCEPT ![p] = {}]
     ELSE pc' = [pc EXCEPT ![p] = "unlock"] /\ UNCHANGED want
  /\ UNCHANGED <<mode, got, mutex>>

Step(p) ==
  \/ Reference(p) \/ RLock(p) \/ Lock(p) \/ Drain(p) \/ Release(p)
  \/ RUnlock(p) \/ Unlock(p) \/ Dereference(p)

Next == \E p \in Proc : Request(p) \/ Step(p) \/ Cancel(p)

Spec == Init /\ [][Next]_vars

\* Goroutines run on and holders release; sync.Mutex hands itself to a waiter
\* that has waited too long, so a writer's turn at w comes.
FairSpec == Spec /\ \A p \in Proc : WF_vars(Step(p)) /\ SF_vars(Lock(p))

-----------------------------------------------------------------------------
(* Properties.                                                             *)

\* The lock of a key excludes across every object that ever stood for it: two
\* goroutines that have locked the same key are both readers.
KeyExclusion ==
  \A p, q \in Proc : \A k \in got[p] \cap got[q] :
     p # q => mode[p] = "read" /\ mode[q] = "read"

\* Whoever references an object for a key finds it in the table: refs keeps the
\* object alive, and its count is the number of those goroutines.
TableCurrent ==
  /\ \A p \in Proc : \A k \in Referenced(p) : ref[p][k] = locks[k]
  /\ \A k \in Key : locks[k] # None =>
        refs[locks[k]] = Cardinality({p \in Proc : ref[p][k] = locks[k]})

-----------------------------------------------------------------------------
(* The inductive invariant.                                                *)

\* What the constants stand for: goroutines and the sorted keys of requests are
\* finitely many, and no goroutine or object is mistaken for its absence.
LockConstants ==
  /\ IsFiniteSet(Proc) /\ IsFiniteSet(Key) /\ Key \subseteq Int
  /\ Mode \subseteq {"read", "write"}
  /\ None \notin Proc /\ None \notin Obj

\* At these places a goroutine references one key more than it has locked.
Between == {"lock", "drain", "blocked", "unref"}

\* How far p's request is: which of its keys are referenced and which locked.
Progress(p) ==
  /\ got[p] \subseteq want[p]
  /\ pc[p] = "idle" => got[p] = {}
  /\ pc[p] = "ref" => got[p] # want[p]
  /\ pc[p] = "held" => got[p] # {}
  /\ pc[p] = "unlock" => got[p] # {}
  /\ pc[p] = "drain" => mode[p] = "write"
  /\ pc[p] = "blocked" => mode[p] = "read"
  /\ IF pc[p] \in Between
     THEN \E k \in want[p] \ got[p] : Referenced(p) = got[p] \cup {k}
     ELSE Referenced(p) = got[p]

UsersOf(o) == {p \in Proc : \E k \in Key : ref[p][k] = o}

\* The table: a referenced object is the one in the table, the table keeps no other,
\* one object stands for one key, and refs counts its users.
TableOK ==
  /\ \A p \in Proc, k \in Key : ref[p][k] # None => ref[p][k] = locks[k]
  /\ \A k \in Key : locks[k] # None => \E p \in Proc : ref[p][k] = locks[k]
  /\ \A j, k \in Key : locks[j] # None /\ locks[j] = locks[k] => j = k
  /\ \A o \in Obj : refs[o] = Cardinality(UsersOf(o))

Holds(p, o) == \E k \in got[p] : ref[p][k] = o

\* The object's fields say who holds it, who waits in it, and that a writer which
\* holds it is alone.
ObjectOK(o, p) ==
  /\ p \in readers[o] <=> mode[p] = "read" /\ Holds(p, o)
  /\ p \in blocked[o] <=> pc[p] = "blocked" /\ \E k \in Key \ got[p] : ref[p][k] = o
  /\ w[o] = p <=> /\ mode[p] = "write"
                  /\ \/ Holds(p, o)
                     \/ pc[p] = "drain" /\ \E k \in Key \ got[p] : ref[p][k] = o
  /\ mode[p] = "write" /\ Holds(p, o) => readers[o] = {}

LocksInv ==
  /\ LockConstants /\ TypeOK /\ TableOK
  /\ \A p \in Proc : Progress(p)
  /\ \A o \in Obj, p \in Proc : ObjectOK(o, p)
=============================================================================
