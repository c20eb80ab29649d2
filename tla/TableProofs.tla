----------------------------- MODULE TableProofs -----------------------------
(***************************************************************************)
(* Proofs about two tables whose entries several callers share, for every  *)
(* value of their constants.  ModuleCache: the callers of one flight get   *)
(* what its one compilation returned, and the flight table is exact.       *)
(* KeyedLock (here K): what the reference-counted lock tables hand out is  *)
(* exclusive, for every finite set of goroutines, every finite set of      *)
(* ordered keys and any set of lock objects.                               *)
(***************************************************************************)
EXTENDS ModuleCache, Integers, FiniteSets, TLAPS
-----------------------------------------------------------------------------
(* The module cache.                                                       *)

USE DEF cacheVars, callerVars, Result, Failure

\* Whatever the eviction removes, an insertion adds one key to the cached ones
\* (finish_flight, evict_locked).
LEMMA InsertsOne ==
  ASSUME NEW k, Insert(k) PROVE DOMAIN lastUsed' \subseteq DOMAIN lastUsed \cup {k}
BY Zenon DEF Insert

\* The end of a flight keeps the invariant of the module cache: it leaves the flight
\* table, its result is set once and the waiters are woken (finish_flight).
LEMMA FinishKeeps ==
  ASSUME CacheConstants, CacheInv, NEW f \in Caller, joined[f] = f, outcome[f] = "none",
         NEW r \in Result, NEW p \in [Caller -> CallerSteps],
         \A c \in Caller \ {f} : p[c] = pc[c],
         p[f] = pc[f] \/ (pc[f] \in {"register", "spawn"} /\ p[f] = "wait"),
         thread' = thread \/ (thread[f] = "running"
           /\ thread' = [thread EXCEPT ![f] = "ended"]),
         thread[f] = "running" => thread'[f] = "ended",
         pc[f] \in {"register", "spawn"} => p[f] = "wait",
         FinishFlight(f, r, p), UNCHANGED <<joined, answer, canceled, notify>>
  PROVE CacheInv'
<1> DEFINE k == KeyOf[f]
<1>1. DOMAIN lastUsed' \subseteq DOMAIN lastUsed \cup {k}
  BY InsertsOne, Zenon DEF FinishFlight
<1>2. /\ outcome' = [outcome EXCEPT ![f] = r] /\ pc' = Wake(f, p)
      /\ flights' = IF flights[k] = f THEN [flights EXCEPT ![k] = NoFlight] ELSE flights
  BY Zenon DEF FinishFlight
<1>3. flights[k] = f /\ k \in Key
  BY Zenon DEF CacheInv, CacheConstants, OneFlight
<1>4. Shape'
  BY <1>2, <1>3, SMTT(30) DEF CacheInv, Shape, Wake, CallerSteps
<1>5. CallersInStep' /\ TableKeyed'
  <2>1. \A c \in Caller : pc'[c] = p[c] \/ (p[c] = "blocked" /\ pc'[c] = "wait")
    BY <1>2, Zenon DEF Wake
  <2>2. \A c \in Caller : thread'[c] = "running" => c # f /\ thread[c] = "running"
    BY Zenon DEF CacheInv, Shape
  <2>3. \A c \in Caller \ {f} : outcome'[c] = outcome[c] /\ thread'[c] = thread[c]
    BY <1>2, Zenon DEF CacheInv, Shape
  <2>4. pc'[f] \in {"wait", "blocked", "done"}
    BY <2>1, SMTT(30) DEF CacheInv, Shape, CallersInStep, CacheConstants, CallerSteps
  <2>5. CallersInStep'
    BY <2>1, <2>2, <2>3, <2>4, SMTT(30) DEF CacheInv, CallersInStep
  <2> QED BY <1>2, <1>3, <2>5, Zenon DEF CacheInv, TableKeyed, Shape
<1>6. OneFlight'
  <2>1. outcome'[f] # "none" /\ \A c \in Caller \ {f} : outcome'[c] = outcome[c]
    BY <1>2, ZenonT(40) DEF CacheInv, Shape
  <2>2. flights'[k] = NoFlight /\ \A x \in Key \ {k} : flights'[x] = flights[x]
    BY <1>2, <1>3, ZenonT(40) DEF CacheInv, Shape
  <2>3. \A x \in Key : flights'[x] # f
    BY <1>3, <2>2, SMTT(30) DEF CacheInv, TableKeyed, CacheConstants
  <2> QED BY <1>1, <1>3, <2>1, <2>2, <2>3, SMTT(30) DEF CacheInv, CacheConstants, OneFlight
<1>7. OwnCancellation' /\ FlightAnswers'
  BY <1>2 DEF CacheInv, Shape, OwnCancellation, FlightAnswers
<1> QED BY <1>4, <1>5, <1>6, <1>7 DEF CacheInv

\* Every step of a call keeps it: hit, join, lead, register, spawn, wait, cancellation
\* and the compile thread (get_or_compile_with_hooks).
LEMMA CallerKeeps ==
  ASSUME CacheConstants, CacheInv, NEW c \in Caller,
         CallerStep(c) \/ Compile(c) \/ Cancel(c) \/ NotifyCanceled(c)
  PROVE CacheInv'
<1>1. CASE CallCanceled(c)
  <2>1. Shape'
    BY <1>1, ZenonT(40)
       DEF CallCanceled, Return, Wake, CacheInv, Shape, CallersInStep,
           CacheConstants, CallerSteps
  <2>2. CallersInStep' /\ TableKeyed'
    BY <1>1, SMTT(30)
       DEF CallCanceled, Return, Wake, CacheInv, Shape, CallersInStep,
           TableKeyed, CacheConstants, OneFlight
  <2>3. OneFlight'
    BY <1>1
       DEF CallCanceled, Return, Wake, CacheInv, Shape, CallersInStep,
           CacheConstants, OneFlight
  <2>4. OwnCancellation'
    BY <1>1, SMTT(30)
       DEF CallCanceled, Return, CacheInv, Shape, CallersInStep,
           OwnCancellation
  <2>5. FlightAnswers'
    BY <1>1, SMTT(30)
       DEF CallCanceled, Return, CacheInv, Shape, CallersInStep, FlightAnswers
  <2> QED BY <2>1, <2>2, <2>3, <2>4, <2>5, ZenonT(40) DEF CacheInv
<1>2. CASE Hit(c)
  <2>1. Shape'
    BY <1>2, ZenonT(40)
       DEF Hit, Return, Wake, CacheInv, Shape, CallersInStep,
           CacheConstants, CallerSteps
  <2>2. CallersInStep' /\ TableKeyed'
    BY <1>2, SMTT(30)
       DEF Hit, Return, Wake, CacheInv, Shape, CallersInStep, TableKeyed,
           CacheConstants, OneFlight
  <2>3. OneFlight'
    BY <1>2, SMTT(30)
       DEF Hit, Return, Wake, CacheInv, Shape, CallersInStep,
           CacheConstants, OneFlight
  <2>4. OwnCancellation'
    BY <1>2, SMTT(30)
       DEF Hit, Return, CacheInv, Shape, CallersInStep, OwnCancellation
  <2>5. FlightAnswers'
    BY <1>2, SMTT(30)
       DEF Hit, Return, CacheInv, Shape, CallersInStep, FlightAnswers
  <2> QED BY <2>1, <2>2, <2>3, <2>4, <2>5, Zenon DEF CacheInv
<1>3. CASE Join(c)
  <2>1. Shape'
    BY <1>3, SMTT(30)
       DEF Join, Return, Wake, CacheInv, Shape, CallersInStep,
           CacheConstants, CallerSteps
  <2>2. CallersInStep' /\ TableKeyed'
    BY <1>3, SMTT(30)
       DEF Join, Return, Wake, CacheInv, Shape, CallersInStep, TableKeyed,
           CacheConstants, OneFlight
  <2>3. OneFlight'
    BY <1>3, SMTT(30)
       DEF Join, Return, Wake, CacheInv, Shape, CallersInStep,
           CacheConstants, OneFlight
  <2>4. OwnCancellation'
    BY <1>3, Zenon
       DEF Join, Return, CacheInv, Shape, CallersInStep, OwnCancellation
  <2>5. FlightAnswers'
    BY <1>3, SMTT(30)
       DEF Join, Return, CacheInv, Shape, CallersInStep, FlightAnswers
  <2> QED BY <2>1, <2>2, <2>3, <2>4, <2>5, Zenon DEF CacheInv
<1>4. CASE Lead(c)
  <2>1. Shape'
    BY <1>4, ZenonT(40)
       DEF Lead, Return, Wake, CacheInv, Shape, CallersInStep,
           CacheConstants, CallerSteps
  <2>2. CallersInStep' /\ TableKeyed'
    BY <1>4, SMTT(30)
       DEF Lead, Return, Wake, CacheInv, Shape, CallersInStep, TableKeyed,
           CacheConstants, OneFlight
  <2>3. OneFlight'
    BY <1>4, SMTT(30)
       DEF Lead, Return, Wake, CacheInv, Shape, CallersInStep,
           CacheConstants, OneFlight
  <2>4. OwnCancellation'
    BY <1>4, ZenonT(40)
       DEF Lead, Return, CacheInv, Shape, CallersInStep, OwnCancellation
  <2>5. FlightAnswers'
    BY <1>4, SMTT(30) DEF Lead, Return, CacheInv, Shape, CallersInStep, FlightAnswers
  <2> QED BY <2>1, <2>2, <2>3, <2>4, <2>5, Zenon DEF CacheInv
<1>5. CASE Register(c)
  <2>1. Shape'
    BY <1>5, ZenonT(40)
       DEF Register, Return, Wake, CacheInv, Shape, CallersInStep,
           CacheConstants, CallerSteps
  <2>2. CallersInStep' /\ TableKeyed'
    BY <1>5, SMTT(30)
       DEF Register, Return, Wake, CacheInv, Shape, CallersInStep,
           TableKeyed, CacheConstants, OneFlight
  <2>3. OneFlight'
    BY <1>5, SMTT(30)
       DEF Register, Return, Wake, CacheInv, Shape, CallersInStep,
           CacheConstants, OneFlight
  <2>4. OwnCancellation'
    BY <1>5, ZenonT(40)
       DEF Register, Return, CacheInv, Shape, CallersInStep, OwnCancellation
  <2>5. FlightAnswers'
    BY <1>5, SMTT(30)
       DEF Register, Return, CacheInv, Shape, CallersInStep, FlightAnswers
  <2> QED BY <2>1, <2>2, <2>3, <2>4, <2>5, Zenon DEF CacheInv
<1>6. CASE Spawn(c)
  <2>1. Shape'
    BY <1>6, ZenonT(40)
       DEF Spawn, Return, Wake, CacheInv, Shape, CallersInStep,
           CacheConstants, CallerSteps
  <2>2. CallersInStep' /\ TableKeyed'
    BY <1>6, SMTT(30)
       DEF Spawn, Return, Wake, CacheInv, Shape, CallersInStep, TableKeyed,
           CacheConstants, OneFlight
  <2>3. OneFlight'
    BY <1>6, SMTT(30)
       DEF Spawn, Return, Wake, CacheInv, Shape, CallersInStep,
           CacheConstants, OneFlight
  <2>4. OwnCancellation'
    BY <1>6, ZenonT(40) DEF Spawn, Return, CacheInv, Shape, CallersInStep, OwnCancellation
  <2>5. FlightAnswers'
    BY <1>6, ZenonT(40)
       DEF Spawn, Return, CacheInv, Shape, CallersInStep, FlightAnswers
  <2> QED BY <2>1, <2>2, <2>3, <2>4, <2>5, Zenon DEF CacheInv
<1>7. CASE Wait(c)
  <2>1. Shape'
    BY <1>7, SMTT(30)
       DEF Wait, Return, Wake, CacheInv, Shape, CallersInStep,
           CacheConstants, CallerSteps
  <2>2. CallersInStep' /\ TableKeyed'
    BY <1>7, SMTT(30)
       DEF Wait, Return, Wake, CacheInv, Shape, CallersInStep, TableKeyed,
           CacheConstants, OneFlight
  <2>3. OneFlight'
    BY <1>7, SMTT(30)
       DEF Wait, Return, Wake, CacheInv, Shape, CallersInStep,
           CacheConstants, OneFlight
  <2>4. OwnCancellation'
    BY <1>7, SMTT(30)
       DEF Wait, Return, CacheInv, Shape, CallersInStep, OwnCancellation
  <2>5. FlightAnswers'
    BY <1>7, SMTT(30)
       DEF Wait, Return, CacheInv, Shape, CallersInStep, FlightAnswers
  <2> QED BY <2>1, <2>2, <2>3, <2>4, <2>5, Zenon DEF CacheInv
<1>8. CASE Cancel(c)
  <2>1. Shape'
    BY <1>8, ZenonT(40)
       DEF Cancel, Return, Wake, CacheInv, Shape, CallersInStep,
           CacheConstants, CallerSteps
  <2>2. CallersInStep' /\ TableKeyed'
    BY <1>8, SMTT(30)
       DEF Cancel, Return, Wake, CacheInv, Shape, CallersInStep, TableKeyed,
           CacheConstants, OneFlight
  <2>3. OneFlight'
    BY <1>8, SMTT(30)
       DEF Cancel, Return, Wake, CacheInv, Shape, CallersInStep,
           CacheConstants, OneFlight
  <2>4. OwnCancellation'
    BY <1>8, SMTT(30)
       DEF Cancel, Return, CacheInv, Shape, CallersInStep, OwnCancellation
  <2>5. FlightAnswers'
    BY <1>8, ZenonT(40) DEF Cancel, Return, CacheInv, Shape, CallersInStep, FlightAnswers
  <2> QED BY <2>1, <2>2, <2>3, <2>4, <2>5, Zenon DEF CacheInv
<1>9. CASE NotifyCanceled(c)
  <2>1. Shape'
    BY <1>9, SMTT(30)
       DEF NotifyCanceled, Return, Wake, CacheInv, Shape, CallersInStep,
           CacheConstants, CallerSteps
  <2>2. CallersInStep' /\ TableKeyed'
    BY <1>9, SMTT(30)
       DEF NotifyCanceled, Return, Wake, CacheInv, Shape, CallersInStep,
           TableKeyed, CacheConstants, OneFlight
  <2>3. OneFlight'
    BY <1>9, SMTT(30)
       DEF NotifyCanceled, Return, Wake, CacheInv, Shape, CallersInStep,
           CacheConstants, OneFlight
  <2>4. OwnCancellation'
    BY <1>9, Zenon
       DEF NotifyCanceled, Return, CacheInv, Shape, CallersInStep,
           OwnCancellation
  <2>5. FlightAnswers'
    BY <1>9
       DEF NotifyCanceled, Return, CacheInv, Shape, CallersInStep,
           FlightAnswers
  <2> QED BY <2>1, <2>2, <2>3, <2>4, <2>5, Zenon DEF CacheInv
<1>10. CASE RegisterFails(c)
  <2>1. FinishFlight(c, "load", [pc EXCEPT ![c] = "wait"])
    BY <1>10, Zenon DEF RegisterFails
  <2>2. UNCHANGED <<joined, answer, canceled, notify, thread>>
    BY <1>10, Zenon DEF RegisterFails
  <2> QED BY <1>10, <2>1, <2>2, FinishKeeps, ZenonT(40)
             DEF RegisterFails, CacheInv, CallersInStep, Shape, CallerSteps
<1>11. CASE SpawnFails(c)
  <2>1. PICK r \in Result : FinishFlight(c, r, [pc EXCEPT ![c] = "wait"])
    BY <1>11, Zenon DEF SpawnFails, FinishRegistered
  <2>2. UNCHANGED <<joined, answer, canceled, notify, thread>>
    BY <1>11 DEF SpawnFails
  <2> QED BY <1>11, <2>1, <2>2, FinishKeeps, ZenonT(40)
             DEF SpawnFails, CacheInv, CallersInStep, Shape, CallerSteps
<1>12. CASE Compile(c)
  <2>1. PICK r \in Result : FinishFlight(c, r, pc)
    BY <1>12, ZenonT(40) DEF Compile, FinishRegistered, Compiled
  <2>2. UNCHANGED <<joined, answer, canceled, notify>> /\ thread[c] = "running"
        /\ thread' = [thread EXCEPT ![c] = "ended"]
    BY <1>12 DEF Compile
  <2> QED BY <2>1, <2>2, FinishKeeps, ZenonT(40)
             DEF CacheInv, CallersInStep, Shape, CallerSteps
<1> QED BY <1>1, <1>2, <1>3, <1>4, <1>5, <1>6, <1>7, <1>8, <1>9, <1>10, <1>11, <1>12,
           Zenon
        DEF CallerStep

\* The inductive invariant of the module cache, for any number of callers and modules
\* and any limits.
THEOREM CacheInvariant == CacheConstants /\ Spec => []CacheInv
<1> SUFFICES ASSUME CacheConstants PROVE Spec => []CacheInv
  BY Zenon
<1>1. Init => CacheInv
  BY SMTT(30)
     DEF Init, CacheConstants, CacheInv, Shape, CallerSteps, CallersInStep,
         TableKeyed, OneFlight, OwnCancellation, FlightAnswers
<1>2. ASSUME CacheInv, UNCHANGED vars PROVE CacheInv'
  BY <1>2, SMTT(30)
     DEF vars, CacheInv, Shape, CallersInStep, TableKeyed, OneFlight,
         OwnCancellation, FlightAnswers
<1>3. CacheInv /\ [Next]_vars => CacheInv'
  BY <1>2, CallerKeeps, ZenonT(40) DEF Next
<1> QED BY <1>1, <1>3, PTL DEF Spec

\* A module is never compiled by two flights at a time nor while it is cached, and a
\* caller gets the result of the flight it joined or its own cancellation
\* (get_or_compile_with_hooks).
THEOREM ModuleCompiledOnce == CacheConstants /\ Spec => []CompiledOnce
<1>1. CacheInv => CompiledOnce
  BY Zenon DEF CacheInv, OwnCancellation, FlightAnswers, AnswerIsOwn, CompiledOnce
<1> QED BY <1>1, CacheInvariant, PTL

HIDE DEF cacheVars, callerVars, Result, Failure

-----------------------------------------------------------------------------
(* The lock tables.                                                        *)

CONSTANTS Proc, TableKey, Obj, Mode, MayAbandon
VARIABLES at, mode, want, got, ref, locks, refs, w, readers, blocked

K == INSTANCE KeyedLock WITH Key <- TableKey, Cancelable <- MayAbandon, pc <- at

-----------------------------------------------------------------------------
(* Facts about the operators.                                              *)

\* What the proofs need to know of finite sets.  The lemmas about steps that count
\* or order take it as a hypothesis; the library that proves it joins at the end.
Counting ==
  /\ \A S, T : K!IsFiniteSet(S) /\ T \subseteq S => K!IsFiniteSet(T)
  /\ K!Cardinality({}) = 0
  /\ \A S : K!IsFiniteSet(S) => K!Cardinality(S) \in Nat
  /\ \A S, x : K!IsFiniteSet(S) /\ x \notin S => K!Cardinality(S \cup {x}) = K!Cardinality(S) + 1
  /\ \A S, x : K!IsFiniteSet(S) /\ x \in S =>
       /\ K!Cardinality(S \ {x}) = K!Cardinality(S) - 1
       /\ K!Cardinality(S) = 1 <=> S = {x}
  /\ \A S : K!IsFiniteSet(S) /\ S \subseteq Int /\ S # {} =>
       /\ \E m \in S : \A y \in S : m =< y
       /\ \E m \in S : \A y \in S : m >= y

\* Between two keys, Pending is the one key that is referenced and not locked, and
\* Target the object it has in the table.
LEMMA PendingKey ==
  ASSUME K!LocksInv, NEW p \in Proc, at[p] \in K!Between
  PROVE  /\ K!Pending(p) \in TableKey /\ K!Pending(p) \in want[p] /\ K!Pending(p) \notin got[p]
         /\ \A k \in TableKey : ref[p][k] # K!None <=> k \in got[p] \/ k = K!Pending(p)
         /\ K!Target(p) = ref[p][K!Pending(p)] /\ K!Target(p) \in Obj
         /\ K!Target(p) = locks[K!Pending(p)]
<1>1. PICK k \in want[p] \ got[p] : K!Referenced(p) = got[p] \cup {k}
  BY Zenon DEF K!LocksInv, K!Progress
<1>2. K!Pending(p) = k
  BY <1>1, Zenon DEF K!Pending
<1>3. k \in TableKey /\ got[p] \subseteq TableKey /\ ref[p] \in [TableKey -> Obj \cup {K!None}]
  BY <1>1, Zenon DEF K!LocksInv, K!TypeOK
<1>4. \A j \in TableKey : ref[p][j] # K!None <=> j \in got[p] \/ j = k
  BY <1>1, <1>3, Zenon DEF K!Referenced
<1>5. ref[p][k] \in Obj /\ ref[p][k] = locks[k]
  BY <1>3, <1>4 DEF K!LocksInv, K!TableOK
<1> QED BY <1>1, <1>2, <1>3, <1>4, <1>5, Zenon DEF K!Target

\* Outside them exactly the locked keys are referenced.
LEMMA LockedKeys ==
  ASSUME K!LocksInv, NEW p \in Proc, at[p] \notin K!Between
  PROVE  /\ got[p] \subseteq TableKey
         /\ \A k \in TableKey : ref[p][k] # K!None <=> k \in got[p]
         /\ \A k \in got[p] : ref[p][k] \in Obj /\ ref[p][k] = locks[k]
BY DEF K!LocksInv, K!Progress, K!TypeOK, K!Referenced, K!TableOK

-----------------------------------------------------------------------------
(* Every step preserves the invariant.                                     *)

\* The steps that only move a goroutine on: a new request, the end of a waiting
\* context, the start of the release.
LEMMA LockMoves ==
  ASSUME K!LocksInv, NEW p \in Proc, K!Request(p) \/ K!Cancel(p) \/ K!Release(p)
  PROVE  K!LocksInv'
<1>1. /\ got' = got /\ ref' = ref /\ locks' = locks /\ refs' = refs
      /\ w' = w /\ readers' = readers /\ blocked' = blocked
  BY Zenon DEF K!Request, K!Cancel, K!Release, K!table, K!mutex
<1>2. \A q \in Proc \ {p} : at'[q] = at[q] /\ mode'[q] = mode[q] /\ want'[q] = want[q]
  BY Zenon DEF K!LocksInv, K!TypeOK, K!Request, K!Cancel, K!Release
<1>3. K!TypeOK'
  <2>1. at' \in [Proc -> K!PC]
    <3>1. PICK x \in K!PC : at' = [at EXCEPT ![p] = x]
      BY Zenon DEF K!PC, K!Request, K!Cancel, K!Release
    <3> QED BY <3>1, Zenon DEF K!LocksInv, K!TypeOK
  <2>2. mode' \in [Proc -> {"read", "write"}] /\ want' \in [Proc -> SUBSET TableKey]
    <3>1. CASE K!Request(p)
      <4>1. PICK m \in Mode, s \in SUBSET TableKey : /\ mode' = [mode EXCEPT ![p] = m]
                                               /\ want' = [want EXCEPT ![p] = s]
        BY <3>1, Zenon DEF K!Request
      <4>2. m \in {"read", "write"}
        BY Zenon DEF K!LocksInv, K!LockConstants
      <4> QED BY <4>1, <4>2, Zenon DEF K!LocksInv, K!TypeOK
    <3>2. CASE K!Cancel(p) \/ K!Release(p)
      BY <3>2, Zenon DEF K!LocksInv, K!TypeOK, K!Cancel, K!Release
    <3> QED BY <3>1, <3>2, Zenon
  <2> QED BY <1>1, <2>1, <2>2, Zenon DEF K!LocksInv, K!TypeOK
<1>4. K!TableOK'
  BY <1>1, Zenon DEF K!LocksInv, K!TableOK, K!UsersOf
<1>5. ASSUME NEW q \in Proc PROVE K!Progress(q)'
  <2>1. K!Progress(q) /\ K!Progress(p)
    BY Zenon DEF K!LocksInv
  <2>2. CASE q # p
    BY <1>1, <1>2, <2>1, <2>2, Zenon DEF K!Progress, K!Referenced, K!Between
  <2>3. CASE q = p
    BY <1>1, <2>1, <2>3 DEF K!LocksInv, K!TypeOK, K!Progress, K!Referenced, K!Between, K!Request, K!Cancel, K!Release
  <2> QED BY <2>2, <2>3, Zenon
<1>6. ASSUME NEW o \in Obj, NEW q \in Proc PROVE K!ObjectOK(o, q)'
  <2>1. K!ObjectOK(o, q)
    BY Zenon DEF K!LocksInv
  <2>2. CASE q # p
    BY <1>1, <1>2, <2>1, <2>2, Zenon DEF K!ObjectOK, K!Holds
  <2>3. CASE q = p /\ K!Request(p)
    <3>1. \A k \in TableKey : ref[p][k] = K!None
      BY <2>3, LockedKeys, Zenon DEF K!LocksInv, K!Progress, K!Request, K!Between
    <3>2. got[p] = {} /\ o # K!None
      BY <2>3, Zenon DEF K!LocksInv, K!Progress, K!Request, K!LockConstants
    <3>3. at[p] = "idle" /\ at'[p] = "ref"
      BY <2>3, Zenon DEF K!LocksInv, K!TypeOK, K!Request
    <3> QED BY <1>1, <2>1, <2>3, <3>1, <3>2, <3>3, Zenon DEF K!ObjectOK, K!Holds
  <2>4. CASE q = p /\ (K!Cancel(p) \/ K!Release(p))
    <3>1. mode' = mode /\ at[p] \in {"lock", "held"} /\ at'[p] \in {"unref", "unlock"}
      BY <2>4, Zenon DEF K!LocksInv, K!TypeOK, K!Cancel, K!Release
    <3> QED BY <1>1, <2>1, <2>4, <3>1, Zenon DEF K!ObjectOK, K!Holds
  <2> QED BY <2>2, <2>3, <2>4, Zenon
<1> QED BY <1>3, <1>4, <1>5, <1>6, Zenon DEF K!LocksInv, K!LockConstants

\* A reference taken under the table's mutex: the object of the key, or a new one
\* that nobody references, with one user more.
LEMMA ReferenceInv ==
  ASSUME Counting, K!LocksInv, NEW p \in Proc, K!Reference(p)
  PROVE  K!LocksInv'
<1> DEFINE k == K!NextKey(p)
<1>1. /\ at[p] = "ref" /\ mode' = mode /\ want' = want /\ got' = got
      /\ w' = w /\ readers' = readers /\ blocked' = blocked
  BY Zenon DEF K!Reference, K!mutex
<1>2. k \in TableKey /\ k \in want[p] /\ k \notin got[p]
  <2>1. want[p] \ got[p] # {} /\ want[p] \ got[p] \subseteq TableKey
    BY <1>1, Zenon DEF K!LocksInv, K!Progress, K!TypeOK
  <2>2. want[p] \ got[p] \subseteq Int
    BY <2>1, Zenon DEF K!LocksInv, K!LockConstants
  <2>3. K!IsFiniteSet(want[p] \ got[p])
    <3>1. K!IsFiniteSet(TableKey)
      BY Zenon DEF K!LocksInv, K!LockConstants
    <3> QED BY <2>1, <3>1, Zenon DEF Counting
  <2> QED BY <2>1, <2>2, <2>3, ZenonT(40) DEF Counting, K!NextKey
<1> HIDE DEF k
<1>3. PICK o \in Obj :
        /\ IF locks[k] # K!None
           THEN o = locks[k] /\ locks' = locks
           ELSE /\ \A q \in Proc, j \in TableKey : ref[q][j] # o
                /\ locks' = [locks EXCEPT ![k] = o]
        /\ refs' = [refs EXCEPT ![o] = @ + 1]
        /\ ref' = [ref EXCEPT ![p][k] = o]
        /\ at' = [at EXCEPT ![p] = "lock"]
  BY Zenon DEF K!Reference, K!CountRef, k
<1>4. /\ \A j \in TableKey : ref[p][j] # K!None <=> j \in got[p]
      /\ o # K!None
  BY <1>1, LockedKeys, Zenon DEF K!Between, K!LocksInv, K!LockConstants
<1>5. /\ \A q \in Proc, j \in TableKey : ref'[q][j] = IF q = p /\ j = k THEN o ELSE ref[q][j]
      /\ locks'[k] = o /\ \A j \in TableKey \ {k} : locks'[j] = locks[j]
  BY <1>2, <1>3, Zenon DEF K!LocksInv, K!TypeOK
<1>6. \A j \in TableKey \ {k} : locks[j] # o
  BY <1>2, <1>3, <1>4 DEF K!LocksInv, K!TableOK
<1>7. K!TypeOK'
  <2>1. ref' \in [Proc -> [TableKey -> Obj \cup {K!None}]]
    BY <1>2, <1>3, Zenon DEF K!LocksInv, K!TypeOK
  <2>2. locks' \in [TableKey -> Obj \cup {K!None}]
    BY <1>2, <1>3, Zenon DEF K!LocksInv, K!TypeOK
  <2>3. refs' \in [Obj -> Nat] /\ at' \in [Proc -> K!PC]
    BY <1>3 DEF K!LocksInv, K!TypeOK, K!PC
  <2> QED BY <1>1, <2>1, <2>2, <2>3, Zenon DEF K!LocksInv, K!TypeOK
<1>8. K!TableOK'
  <2>1. \A q \in Proc, j \in TableKey : ref'[q][j] # K!None => ref'[q][j] = locks'[j]
    <3> SUFFICES ASSUME NEW q \in Proc, NEW j \in TableKey, ref'[q][j] # K!None
                 PROVE  ref'[q][j] = locks'[j]
      BY Zenon
    <3>1. CASE j # k
      BY <3>1, <1>5 DEF K!LocksInv, K!TableOK
    <3>2. CASE j = k
      BY <3>2, <1>2, <1>3, <1>5 DEF K!LocksInv, K!TableOK
    <3> QED BY <3>1, <3>2, Zenon
  <2>2. \A j \in TableKey : locks'[j] # K!None => \E q \in Proc : ref'[q][j] = locks'[j]
    BY <1>2, <1>5 DEF K!LocksInv, K!TableOK
  <2>3. \A i, j \in TableKey : locks'[i] # K!None /\ locks'[i] = locks'[j] => i = j
    BY <1>5, <1>6 DEF K!LocksInv, K!TableOK
  <2>4. ASSUME NEW x \in Obj PROVE refs'[x] = K!Cardinality(K!UsersOf(x)')
    <3>1. refs[x] = K!Cardinality(K!UsersOf(x)) /\ K!IsFiniteSet(K!UsersOf(x))
      BY Zenon DEF Counting, K!LocksInv, K!TableOK, K!UsersOf, K!LockConstants
    <3>2. CASE x # o
      <4>1. K!UsersOf(x)' = K!UsersOf(x)
        <5>1. x # K!None
          BY Zenon DEF K!LocksInv, K!LockConstants
        <5>2. \A q \in Proc, j \in TableKey : ref'[q][j] = x <=> ref[q][j] = x
          BY <1>2, <1>4, <1>5, <3>2, <5>1
        <5> QED BY <5>2, Zenon DEF K!UsersOf
      <4> QED BY <3>1, <3>2, <4>1, <1>3, Zenon DEF K!LocksInv, K!TypeOK
    <3>3. CASE x = o
      <4>1. p \notin K!UsersOf(o)
        BY <1>2, <1>3, <1>4, <1>6 DEF K!UsersOf, K!LocksInv, K!TableOK
      <4>2. K!UsersOf(o)' = K!UsersOf(o) \cup {p}
        BY <1>2, <1>5 DEF K!UsersOf
      <4>3. K!Cardinality(K!UsersOf(o) \cup {p}) = K!Cardinality(K!UsersOf(o)) + 1
        BY <3>1, <3>3, <4>1, Zenon DEF Counting
      <4> QED BY <1>3, <3>1, <3>3, <4>2, <4>3, Zenon DEF K!LocksInv, K!TypeOK
    <3> QED BY <3>2, <3>3, Zenon
  <2> QED BY <2>1, <2>2, <2>3, <2>4, Zenon DEF K!TableOK
<1>9. ASSUME NEW q \in Proc PROVE K!Progress(q)'
  <2>1. K!Progress(q)
    BY Zenon DEF K!LocksInv
  <2>2. CASE q # p
    <3>1. at'[q] = at[q] /\ K!Referenced(q)' = K!Referenced(q)
      BY <1>3, <1>5, <2>2, ZenonT(40) DEF K!LocksInv, K!TypeOK, K!Referenced
    <3> QED BY <1>1, <2>1, <3>1, Zenon DEF K!Progress
  <2>3. CASE q = p
    <3>1. at'[p] = "lock" /\ K!Referenced(p)' = got[p] \cup {k}
      BY <1>2, <1>3, <1>4, <1>5 DEF K!LocksInv, K!TypeOK, K!Referenced
    <3> QED BY <1>1, <1>2, <2>1, <2>3, <3>1, Zenon DEF K!Progress, K!Between
  <2> QED BY <2>2, <2>3, Zenon
<1>10. ASSUME NEW x \in Obj, NEW q \in Proc PROVE K!ObjectOK(x, q)'
  <2>1. K!ObjectOK(x, q) /\ got[q] \subseteq TableKey
    BY Zenon DEF K!LocksInv, K!TypeOK
  <2>2. K!Holds(q, x)' <=> K!Holds(q, x)
    BY <1>1, <1>2, <1>5, <2>1, Zenon DEF K!Holds
  <2>3. CASE q # p
    BY <1>1, <1>3, <1>5, <2>1, <2>2, <2>3, SMTT(30) DEF K!ObjectOK, K!LocksInv, K!TypeOK
  <2>4. CASE q = p
    <3>1. at[p] = "ref" /\ at'[p] = "lock"
      BY <1>1, <1>3, Zenon DEF K!LocksInv, K!TypeOK
    <3> QED BY <1>1, <2>1, <2>2, <2>4, <3>1, Zenon DEF K!ObjectOK
  <2> QED BY <2>3, <2>4, Zenon
<1> QED BY <1>7, <1>8, <1>9, <1>10, Zenon DEF K!LocksInv, K!LockConstants

\* A lock taken or waited for, an object whose writer must drain its readers: RLock,
\* Lock and Drain leave the table alone.
LEMMA AcquireInv ==
  ASSUME K!LocksInv, NEW p \in Proc, K!RLock(p) \/ K!Lock(p) \/ K!Drain(p)
  PROVE  K!LocksInv'
<1> DEFINE k == K!Pending(p)  o == K!Target(p)
<1>1. /\ mode' = mode /\ want' = want /\ ref' = ref /\ locks' = locks /\ refs' = refs
      /\ at[p] \in {"lock", "drain"}
  BY Zenon DEF K!RLock, K!Lock, K!Drain, K!table
<1>2. /\ k \in TableKey /\ k \in want[p] /\ k \notin got[p]
      /\ \A j \in TableKey : ref[p][j] # K!None <=> j \in got[p] \/ j = k
      /\ ref[p][k] = o /\ o \in Obj /\ o = locks[k]
  BY <1>1, PendingKey, Zenon DEF K!Between
<1>3. \A j \in TableKey \ {k} : ref[p][j] # o
  <2> SUFFICES ASSUME NEW j \in TableKey, ref[p][j] = o PROVE j = k
    BY Zenon
  <2>1. o # K!None /\ locks[j] = o
    BY <1>2, Zenon DEF K!LocksInv, K!TableOK, K!LockConstants
  <2> QED BY <1>2, <2>1 DEF K!LocksInv, K!TableOK
<1>4. \A q \in Proc : q # K!None
  BY Zenon DEF K!LocksInv, K!LockConstants
<1>5. \/ /\ mode[p] = "read" /\ at[p] = "lock" /\ w[o] = K!None
         /\ readers' = [readers EXCEPT ![o] = @ \cup {p}]
         /\ blocked' = blocked /\ w' = w /\ K!Taken({p})
      \/ /\ mode[p] = "read" /\ at[p] = "lock"
         /\ blocked' = [blocked EXCEPT ![o] = @ \cup {p}]
         /\ at' = [at EXCEPT ![p] = "blocked"] /\ got' = got /\ readers' = readers /\ w' = w
      \/ /\ mode[p] = "write" /\ at[p] = "lock" /\ w[o] = K!None
         /\ w' = [w EXCEPT ![o] = p]
         /\ at' = [at EXCEPT ![p] = "drain"]
         /\ got' = got /\ readers' = readers /\ blocked' = blocked
      \/ /\ mode[p] = "write" /\ at[p] = "drain" /\ readers[o] = {}
         /\ readers' = readers /\ blocked' = blocked /\ w' = w /\ K!Taken({p})
  BY Zenon DEF K!RLock, K!Lock, K!Drain, K!mutex, K!LocksInv, K!Progress
<1> HIDE DEF k, o
<1>6. ASSUME K!Taken({p})
      PROVE  /\ got' \in [Proc -> SUBSET TableKey] /\ at' \in [Proc -> K!PC]
             /\ got'[p] = got[p] \cup {k}
             /\ at'[p] = IF got'[p] = want[p] THEN "held" ELSE "ref"
             /\ \A q \in Proc \ {p} : got'[q] = got[q] /\ at'[q] = at[q]
  <2>1. got' = [q \in Proc |-> IF q \in {p} THEN got[q] \cup {K!Pending(q)} ELSE got[q]]
    BY <1>6, Zenon DEF K!Taken
  <2>2. at' = [q \in Proc |-> IF q \notin {p} THEN at[q]
                              ELSE IF got'[q] = want[q] THEN "held" ELSE "ref"]
    BY <1>6, Zenon DEF K!Taken
  <2>3. got'[p] = got[p] \cup {k} /\ \A q \in Proc \ {p} : got'[q] = got[q]
    BY <2>1, Zenon DEF k
  <2>4. got' \in [Proc -> SUBSET TableKey]
    BY <1>2, <2>1, <2>3, SMTT(30) DEF K!LocksInv, K!TypeOK
  <2>5. at' \in [Proc -> K!PC]
    BY <2>2, Zenon DEF K!LocksInv, K!TypeOK, K!PC
  <2> QED BY <2>2, <2>3, <2>4, <2>5, Zenon
<1>7. K!TypeOK'
  <2>1. [readers EXCEPT ![o] = @ \cup {p}] \in [Obj -> SUBSET Proc]
    BY <1>2, Zenon DEF K!LocksInv, K!TypeOK
  <2>2. [blocked EXCEPT ![o] = @ \cup {p}] \in [Obj -> SUBSET Proc]
    BY <1>2, Zenon DEF K!LocksInv, K!TypeOK
  <2>3. [w EXCEPT ![o] = p] \in [Obj -> Proc \cup {K!None}]
    BY <1>2, Zenon DEF K!LocksInv, K!TypeOK
  <2>4. /\ [at EXCEPT ![p] = "blocked"] \in [Proc -> K!PC]
        /\ [at EXCEPT ![p] = "drain"] \in [Proc -> K!PC]
    BY Zenon DEF K!LocksInv, K!TypeOK, K!PC
  <2>5. /\ readers' \in [Obj -> SUBSET Proc] /\ blocked' \in [Obj -> SUBSET Proc]
        /\ w' \in [Obj -> Proc \cup {K!None}]
        /\ got' \in [Proc -> SUBSET TableKey] /\ at' \in [Proc -> K!PC]
    BY <1>5, <1>6, <2>1, <2>2, <2>3, <2>4, ZenonT(40) DEF K!LocksInv, K!TypeOK
  <2> QED BY <1>1, <2>5, Zenon DEF K!LocksInv, K!TypeOK
<1>8. K!TableOK'
  BY <1>1 DEF K!LocksInv, K!TableOK, K!UsersOf
<1>9. ASSUME NEW q \in Proc PROVE K!Progress(q)'
  <2>1. K!Progress(q) /\ K!Referenced(q)' = K!Referenced(q)
    BY <1>1, Zenon DEF K!LocksInv, K!Referenced
  <2>2. CASE q # p
    <3>1. at'[q] = at[q] /\ got'[q] = got[q]
      BY <1>5, <1>6, <2>2, Zenon DEF K!LocksInv, K!TypeOK
    <3> QED BY <1>1, <2>1, <3>1, Zenon DEF K!Progress
  <2>3. CASE q = p
    <3>1. K!Referenced(p) = got[p] \cup {k}
      BY <1>2, Zenon DEF K!Referenced, K!LocksInv, K!TypeOK
    <3>2. CASE K!Taken({p})
      <4>1. /\ got'[p] = got[p] \cup {k}
            /\ at'[p] = IF got'[p] = want[p] THEN "held" ELSE "ref"
        BY <1>6, <3>2, Zenon DEF K!LocksInv, K!TypeOK
      <4>2. got'[p] \subseteq want[p] /\ got'[p] # {} /\ K!Referenced(p)' = got'[p]
        BY <1>2, <2>1, <2>3, <3>1, <4>1, Zenon DEF K!Progress
      <4>3. at'[p] \in {"held", "ref"} /\ at'[p] \notin K!Between
        BY <4>1, Zenon DEF K!Between
      <4> QED BY <1>1, <2>3, <4>1, <4>2, <4>3, Zenon DEF K!Progress
    <3>3. CASE ~K!Taken({p})
      <4>1. /\ got' = got
            /\ \/ at'[p] = "blocked" /\ mode'[p] = "read"
               \/ at'[p] = "drain" /\ mode'[p] = "write"
        BY <1>1, <1>5, <3>3, Zenon DEF K!LocksInv, K!TypeOK
      <4>2. got'[p] \subseteq want'[p] /\ at'[p] \in K!Between
        BY <1>1, <2>1, <2>3, <4>1, Zenon DEF K!Progress, K!Between
      <4>3. \E j \in want'[p] \ got'[p] : K!Referenced(p)' = got'[p] \cup {j}
        BY <1>1, <1>2, <2>1, <2>3, <3>1, <4>1, Zenon
      <4> QED BY <2>3, <4>1, <4>2, <4>3, Zenon DEF K!Progress
    <3> QED BY <3>2, <3>3, Zenon
  <2> QED BY <2>2, <2>3, Zenon
<1>10. ASSUME NEW x \in Obj, NEW q \in Proc PROVE K!ObjectOK(x, q)'
  <2>1. K!ObjectOK(x, q) /\ got[q] \subseteq TableKey /\ x # K!None
    BY Zenon DEF K!LocksInv, K!TypeOK, K!LockConstants
  <2>2. q # p => at'[q] = at[q] /\ got'[q] = got[q]
    BY <1>5, <1>6, Zenon DEF K!LocksInv, K!TypeOK
  <2>3. q # p => (K!Holds(q, x)' <=> K!Holds(q, x))
    BY <1>1, <2>2, Zenon DEF K!Holds
  <2>4. K!Taken({p}) => /\ got'[p] = got[p] \cup {k} /\ at'[p] \in {"held", "ref"}
                      /\ (K!Holds(p, x)' <=> K!Holds(p, x) \/ x = o)
    BY <1>1, <1>2, <1>6, SMTT(30) DEF K!Holds, K!LocksInv, K!TypeOK
  <2>5. (\E j \in TableKey \ got[p] : ref[p][j] = x) <=> x = o
    BY <1>2, <2>1, Zenon
  <2>6. CASE /\ mode[p] = "read" /\ at[p] = "lock" /\ w[o] = K!None
             /\ readers' = [readers EXCEPT ![o] = @ \cup {p}]
             /\ blocked' = blocked /\ w' = w /\ K!Taken({p})
    <3>1. readers'[x] = IF x = o THEN readers[x] \cup {p} ELSE readers[x]
      BY <2>6, Zenon DEF K!LocksInv, K!TypeOK
    <3>2. CASE q = p
      <4>1. mode'[p] = "read" /\ at'[p] # "blocked" /\ (K!Holds(p, x)' <=> K!Holds(p, x) \/ x = o)
        BY <1>1, <2>4, <2>6, Zenon
      <4>2. /\ p \in readers[x] <=> K!Holds(p, x)
            /\ p \notin blocked[x] /\ w[x] # p
        BY <2>1, <2>6, <3>2, Zenon DEF K!ObjectOK
      <4>3. p \in readers'[x] <=> K!Holds(p, x)'
        BY <3>1, <4>1, <4>2, Zenon
      <4> QED BY <2>6, <3>2, <4>1, <4>2, <4>3, Zenon DEF K!ObjectOK
    <3>3. CASE q # p
      <4>1. ~(mode[q] = "write" /\ K!Holds(q, o))
        BY <1>2, <1>4, <2>6, Zenon DEF K!LocksInv, K!ObjectOK
      <4> QED BY <1>1, <2>1, <2>2, <2>3, <2>6, <3>1, <3>3, <4>1, SMTT(30) DEF K!ObjectOK
    <3> QED BY <3>2, <3>3, Zenon
  <2>7. CASE /\ mode[p] = "read" /\ at[p] = "lock"
             /\ blocked' = [blocked EXCEPT ![o] = @ \cup {p}]
             /\ at' = [at EXCEPT ![p] = "blocked"] /\ got' = got /\ readers' = readers /\ w' = w
    <3>1. blocked'[x] = IF x = o THEN blocked[x] \cup {p} ELSE blocked[x]
      BY <2>7, Zenon DEF K!LocksInv, K!TypeOK
    <3>2. (K!Holds(q, x)' <=> K!Holds(q, x)) /\ at'[p] = "blocked"
      BY <1>1, <2>7, Zenon DEF K!Holds, K!LocksInv, K!TypeOK
    <3> QED BY <1>1, <2>1, <2>2, <2>5, <2>7, <3>1, <3>2, SMTT(30) DEF K!ObjectOK
  <2>8. CASE /\ mode[p] = "write" /\ at[p] = "lock" /\ w[o] = K!None
             /\ w' = [w EXCEPT ![o] = p]
             /\ at' = [at EXCEPT ![p] = "drain"]
             /\ got' = got /\ readers' = readers /\ blocked' = blocked
    <3>1. w'[x] = IF x = o THEN p ELSE w[x]
      BY <2>8, Zenon DEF K!LocksInv, K!TypeOK
    <3>2. (K!Holds(q, x)' <=> K!Holds(q, x)) /\ at'[p] = "drain"
      BY <1>1, <2>8, Zenon DEF K!Holds, K!LocksInv, K!TypeOK
    <3>3. ~K!Holds(p, o)
      BY <1>3, <1>2, Zenon DEF K!Holds, K!LocksInv, K!TypeOK
    <3> QED BY <1>1, <1>4, <2>1, <2>2, <2>5, <2>8, <3>1, <3>2, <3>3 DEF K!ObjectOK
  <2>9. CASE /\ mode[p] = "write" /\ at[p] = "drain" /\ readers[o] = {}
             /\ readers' = readers /\ blocked' = blocked /\ w' = w /\ K!Taken({p})
    <3>1. CASE q = p
      BY <1>1, <2>1, <2>4, <2>5, <2>9, <3>1, ZenonT(40) DEF K!ObjectOK
    <3>2. CASE q # p
      BY <1>1, <2>1, <2>2, <2>3, <2>9, <3>2, ZenonT(40) DEF K!ObjectOK
    <3> QED BY <3>1, <3>2, Zenon
  <2> QED BY <1>5, <2>6, <2>7, <2>8, <2>9, Zenon
<1> QED BY <1>7, <1>8, <1>9, <1>10, Zenon DEF K!LocksInv, K!LockConstants

\* The object of the key that is unlocked has no other key of the goroutine.
LEMMA UnlockedKey ==
  ASSUME Counting, K!LocksInv, NEW p \in Proc, at[p] = "unlock"
  PROVE  /\ K!UnlockKey(p) \in got[p] /\ K!UnlockKey(p) \in TableKey
         /\ ref[p][K!UnlockKey(p)] \in Obj
         /\ \A j \in TableKey : ref[p][j] = ref[p][K!UnlockKey(p)] => j = K!UnlockKey(p)
<1> DEFINE k == K!UnlockKey(p)
<1>1. got[p] # {} /\ got[p] \subseteq TableKey
  BY Zenon DEF K!LocksInv, K!Progress, K!TypeOK
<1>2. K!IsFiniteSet(got[p]) /\ got[p] \subseteq Int
  BY <1>1, Zenon DEF Counting, K!LocksInv, K!LockConstants
<1>3. k \in got[p]
  BY <1>1, <1>2, Zenon DEF Counting, K!UnlockKey
<1> HIDE DEF k
<1>4. ref[p][k] \in Obj /\ ref[p][k] = locks[k] /\ ref[p][k] # K!None
  BY <1>1, <1>3, LockedKeys, Zenon DEF K!Between, K!LocksInv, K!LockConstants
<1>5. ASSUME NEW j \in TableKey, ref[p][j] = ref[p][k] PROVE j = k
  <2>1. locks[j] = ref[p][k]
    BY <1>4, <1>5, Zenon DEF K!LocksInv, K!TableOK
  <2> QED BY <1>1, <1>3, <1>4, <2>1, Zenon DEF K!LocksInv, K!TableOK
<1> QED BY <1>1, <1>3, <1>4, <1>5, Zenon DEF k

\* A reader leaves the object of its greatest key.
LEMMA RUnlockInv ==
  ASSUME Counting, K!LocksInv, NEW p \in Proc, K!RUnlock(p)
  PROVE  K!LocksInv'
<1> DEFINE k == K!UnlockKey(p)  o == ref[p][k]
<1>1. /\ at[p] = "unlock" /\ mode[p] = "read"
      /\ readers' = [readers EXCEPT ![o] = @ \ {p}]
      /\ got' = [got EXCEPT ![p] = @ \ {k}]
      /\ at' = [at EXCEPT ![p] = "unref"]
      /\ mode' = mode /\ want' = want /\ ref' = ref /\ locks' = locks /\ refs' = refs
      /\ w' = w /\ blocked' = blocked
  BY Zenon DEF K!RUnlock, K!table
<1>2. k \in got[p] /\ k \in TableKey /\ o \in Obj /\ \A j \in TableKey : ref[p][j] = o => j = k
  BY <1>1, UnlockedKey, Zenon
<1> HIDE DEF k, o
<1>3. o = ref[p][k]
  BY Zenon DEF o
<1>4. K!TypeOK'
  <2>1. readers' \in [Obj -> SUBSET Proc]
    BY <1>1, <1>2, Zenon DEF K!LocksInv, K!TypeOK
  <2>2. got' \in [Proc -> SUBSET TableKey] /\ at' \in [Proc -> K!PC]
    BY <1>1, Zenon DEF K!LocksInv, K!TypeOK, K!PC
  <2> QED BY <1>1, <2>1, <2>2, Zenon DEF K!LocksInv, K!TypeOK
<1>5. K!TableOK'
  BY <1>1 DEF K!LocksInv, K!TableOK, K!UsersOf
<1>6. /\ got'[p] = got[p] \ {k} /\ at'[p] = "unref"
      /\ \A q \in Proc \ {p} : got'[q] = got[q] /\ at'[q] = at[q]
  BY <1>1, Zenon DEF K!LocksInv, K!TypeOK
<1>7. ASSUME NEW q \in Proc PROVE K!Progress(q)'
  <2>1. K!Progress(q) /\ K!Referenced(q)' = K!Referenced(q)
    BY <1>1, Zenon DEF K!LocksInv, K!Referenced
  <2>2. CASE q # p
    BY <1>1, <1>6, <2>1, <2>2, ZenonT(40) DEF K!Progress
  <2>3. CASE q = p
    <3>1. got[p] \subseteq want[p] /\ K!Referenced(p) = got[p]
      BY <1>1, <2>1, <2>3, Zenon DEF K!Progress, K!Between
    <3>2. /\ k \in want'[p] \ got'[p] /\ K!Referenced(p)' = got'[p] \cup {k}
          /\ got'[p] \subseteq want'[p]
      BY <1>1, <1>2, <1>6, <2>1, <2>3, <3>1
    <3>3. at'[p] \in K!Between
      BY <1>6, Zenon DEF K!Between
    <3> QED BY <1>6, <2>3, <3>2, <3>3, Zenon DEF K!Progress
  <2> QED BY <2>2, <2>3, Zenon
<1>8. ASSUME NEW x \in Obj, NEW q \in Proc PROVE K!ObjectOK(x, q)'
  <2>1. K!ObjectOK(x, q) /\ got[q] \subseteq TableKey
    BY Zenon DEF K!LocksInv, K!TypeOK
  <2>2. readers'[x] = IF x = o THEN readers[x] \ {p} ELSE readers[x]
    BY <1>1, ZenonT(40) DEF K!LocksInv, K!TypeOK
  <2>3. CASE q # p
    <3>1. K!Holds(q, x)' <=> K!Holds(q, x)
      BY <1>1, <1>6, <2>3, Zenon DEF K!Holds
    <3> QED BY <1>1, <1>6, <2>1, <2>2, <2>3, <3>1, SMTT(30) DEF K!ObjectOK
  <2>4. CASE q = p
    <3>1. K!Holds(p, x)' <=> K!Holds(p, x) /\ x # o
      BY <1>1, <1>2, <1>3, <1>6, <2>1, <2>4, Zenon DEF K!Holds
    <3> QED BY <1>1, <1>6, <2>1, <2>2, <2>4, <3>1, SMTT(30) DEF K!ObjectOK
  <2> QED BY <2>3, <2>4, Zenon
<1> QED BY <1>4, <1>5, <1>7, <1>8, Zenon DEF K!LocksInv, K!LockConstants

\* A writer leaves the object of its greatest key and every reader blocked in that
\* object holds it at once.
LEMMA UnlockInv ==
  ASSUME Counting, K!LocksInv, NEW p \in Proc, K!Unlock(p)
  PROVE  K!LocksInv'
<1> DEFINE k == K!UnlockKey(p)  o == ref[p][k]  woken == blocked[o]
<1>1. /\ at[p] = "unlock" /\ mode[p] = "write"
      /\ mode' = mode /\ want' = want /\ ref' = ref /\ locks' = locks /\ refs' = refs
  BY Zenon DEF K!Unlock, K!table
<1>0. /\ w' = [w EXCEPT ![o] = K!None]
      /\ readers' = [readers EXCEPT ![o] = @ \cup woken]
      /\ blocked' = [blocked EXCEPT ![o] = {}]
      /\ got' = [q \in Proc |-> IF q = p THEN got[p] \ {k}
                                ELSE IF q \in woken THEN got[q] \cup {K!Pending(q)}
                                ELSE got[q]]
      /\ at' = [q \in Proc |-> IF q = p THEN "unref"
                               ELSE IF q \notin woken THEN at[q]
                               ELSE IF got'[q] = want[q] THEN "held" ELSE "ref"]
  BY Zenon DEF K!Unlock, K!FreeWriter, K!Woken, K!table
<1>2. k \in got[p] /\ k \in TableKey /\ o \in Obj /\ \A j \in TableKey : ref[p][j] = o => j = k
  BY <1>1, UnlockedKey, Zenon
<1> HIDE DEF k, o
<1>3. o = ref[p][k] /\ o # K!None /\ p \notin woken /\ woken \subseteq Proc
  BY <1>1, <1>2, SMTT(30) DEF o, K!LocksInv, K!LockConstants, K!ObjectOK, K!TypeOK
<1>4. ASSUME NEW q \in woken
      PROVE  /\ q \in Proc /\ q # p /\ at[q] = "blocked" /\ mode[q] = "read"
             /\ K!Pending(q) \in TableKey /\ K!Pending(q) \in want[q] /\ K!Pending(q) \notin got[q]
             /\ ref[q][K!Pending(q)] = o
             /\ \A j \in TableKey : ref[q][j] # K!None <=> j \in got[q] \/ j = K!Pending(q)
  <2>1. q \in Proc /\ q # p
    BY <1>3, Zenon
  <2>2. at[q] = "blocked" /\ \E j \in TableKey \ got[q] : ref[q][j] = o
    <3>1. K!ObjectOK(o, q)
      BY <1>2, <2>1, Zenon DEF K!LocksInv
    <3> QED BY <3>1, Zenon DEF K!ObjectOK
  <2>3. mode[q] = "read" /\ at[q] \in K!Between
    BY <2>1, <2>2, Zenon DEF K!LocksInv, K!Progress, K!Between
  <2> QED BY <1>3, <2>1, <2>2, <2>3, PendingKey, Zenon
<1> HIDE DEF woken
<1>5. /\ got'[p] = got[p] \ {k} /\ at'[p] = "unref"
      /\ \A q \in woken : /\ got'[q] = got[q] \cup {K!Pending(q)}
                           /\ at'[q] = IF got'[q] = want[q] THEN "held" ELSE "ref"
      /\ \A q \in Proc \ (woken \cup {p}) : got'[q] = got[q] /\ at'[q] = at[q]
  BY <1>0, <1>3, <1>4, Zenon
<1>6. K!TypeOK'
  <2>1. readers' \in [Obj -> SUBSET Proc] /\ blocked' \in [Obj -> SUBSET Proc]
    BY <1>0, <1>2, <1>3 DEF K!LocksInv, K!TypeOK
  <2>2. w' \in [Obj -> Proc \cup {K!None}]
    BY <1>0, Zenon DEF K!LocksInv, K!TypeOK
  <2>3. got' \in [Proc -> SUBSET TableKey]
    BY <1>0, <1>4, SMTT(30) DEF K!LocksInv, K!TypeOK
  <2>4. at' \in [Proc -> K!PC]
    BY <1>0, Zenon DEF K!LocksInv, K!TypeOK, K!PC
  <2> QED BY <1>1, <2>1, <2>2, <2>3, <2>4, ZenonT(40) DEF K!LocksInv, K!TypeOK
<1>7. K!TableOK'
  BY <1>1, ZenonT(40) DEF K!LocksInv, K!TableOK, K!UsersOf
<1>8. ASSUME NEW q \in Proc PROVE K!Progress(q)'
  <2>1. K!Progress(q) /\ K!Referenced(q)' = K!Referenced(q)
    BY <1>1, Zenon DEF K!LocksInv, K!Referenced
  <2>2. CASE q \notin woken \cup {p}
    BY <1>1, <1>5, <2>1, <2>2, ZenonT(40) DEF K!Progress
  <2>3. CASE q = p
    <3>1. got[p] \subseteq want[p] /\ K!Referenced(p) = got[p]
      BY <1>1, <2>1, <2>3, ZenonT(40) DEF K!Progress, K!Between
    <3>2. /\ k \in want'[p] \ got'[p] /\ K!Referenced(p)' = got'[p] \cup {k}
          /\ got'[p] \subseteq want'[p]
      BY <1>1, <1>2, <1>5, <2>1, <2>3, <3>1, SMTT(30)
    <3>3. at'[p] \in K!Between
      BY <1>5, Zenon DEF K!Between
    <3> QED BY <1>5, <2>3, <3>2, <3>3, Zenon DEF K!Progress
  <2>4. CASE q \in woken
    <3>1. K!Referenced(q) = got[q] \cup {K!Pending(q)}
      BY <1>4, <2>4, SMTT(30) DEF K!Referenced, K!LocksInv, K!TypeOK
    <3>2. got'[q] \subseteq want'[q] /\ got'[q] # {} /\ K!Referenced(q)' = got'[q]
      BY <1>1, <1>4, <1>5, <2>1, <2>4, <3>1, SMTT(30) DEF K!Progress
    <3>3. at'[q] = (IF got'[q] = want'[q] THEN "held" ELSE "ref") /\ at'[q] \notin K!Between
      BY <1>1, <1>5, <2>4, Zenon DEF K!Between
    <3> QED BY <3>2, <3>3, Zenon DEF K!Progress
  <2> QED BY <2>2, <2>3, <2>4, Zenon
<1>9. ASSUME NEW x \in Obj, NEW q \in Proc PROVE K!ObjectOK(x, q)'
  <2>1. K!ObjectOK(x, q) /\ K!ObjectOK(x, p) /\ got[q] \subseteq TableKey /\ q # K!None /\ x # K!None
    BY Zenon DEF K!LocksInv, K!TypeOK, K!LockConstants
  <2>2. /\ readers'[x] = IF x = o THEN readers[x] \cup woken ELSE readers[x]
        /\ blocked'[x] = IF x = o THEN {} ELSE blocked[x]
        /\ w'[x] = IF x = o THEN K!None ELSE w[x]
    BY <1>0, Zenon DEF K!LocksInv, K!TypeOK
  <2>3. w[o] = p
    <3>1. K!ObjectOK(o, p) /\ K!Holds(p, o)
      BY <1>2, <1>3, Zenon DEF K!LocksInv, K!Holds
    <3> QED BY <1>1, <3>1, Zenon DEF K!ObjectOK
  <2>4. CASE q = p
    <3>1. K!Holds(p, x)' <=> K!Holds(p, x) /\ x # o
      BY <1>1, <1>2, <1>3, <1>5, <2>1, <2>4, Zenon DEF K!Holds
    <3>2. mode'[p] = "write" /\ at'[p] = "unref" /\ p \notin woken
      BY <1>1, <1>3, <1>5, Zenon
    <3> QED BY <1>1, <2>1, <2>2, <2>4, <3>1, <3>2, ZenonT(40) DEF K!ObjectOK
  <2>5. CASE q \in woken
    <3>1. K!Holds(q, x)' <=> K!Holds(q, x) \/ x = o
      BY <1>1, <1>4, <1>5, <2>1, <2>5, SMTT(30) DEF K!Holds
    <3>2. mode'[q] = "read" /\ at'[q] \in {"held", "ref"} /\ at[q] = "blocked"
      BY <1>1, <1>4, <1>5, <2>5, Zenon
    <3>3. x # o => ~\E j \in TableKey \ got[q] : ref[q][j] = x
      BY <1>4, <2>1, <2>5, Zenon
    <3> QED BY <1>1, <2>1, <2>2, <2>5, <3>1, <3>2, <3>3, ZenonT(40) DEF K!ObjectOK
  <2>6. CASE q \notin woken \cup {p}
    <3>1. (K!Holds(q, x)' <=> K!Holds(q, x)) /\ at'[q] = at[q] /\ got'[q] = got[q]
      BY <1>1, <1>5, <2>6 DEF K!Holds
    <3>2. q \notin blocked[o]
      BY <2>6, Zenon DEF woken
    <3>3. mode[q] = "write" /\ K!Holds(q, o) => FALSE
      BY <1>2, <2>3, <2>6, ZenonT(40) DEF K!LocksInv, K!ObjectOK
    <3> QED BY <1>1, <2>1, <2>2, <2>3, <2>6, <3>1, <3>2, <3>3, SMTT(30) DEF K!ObjectOK
  <2> QED BY <2>4, <2>5, <2>6, ZenonT(40)
<1> QED BY <1>6, <1>7, <1>8, <1>9, Zenon DEF K!LocksInv, K!LockConstants

\* A reference given back: the object leaves the table with its last user.
LEMMA DereferenceInv ==
  ASSUME Counting, K!LocksInv, NEW p \in Proc, K!Dereference(p)
  PROVE  K!LocksInv'
<1> DEFINE k == K!Pending(p)  o == K!Target(p)
<1>1. /\ at[p] = "unref" /\ mode' = mode /\ got' = got
      /\ w' = w /\ readers' = readers /\ blocked' = blocked
      /\ refs' = [refs EXCEPT ![o] = @ - 1]
      /\ locks' = IF refs[o] = 1 THEN [locks EXCEPT ![k] = K!None] ELSE locks
      /\ ref' = [ref EXCEPT ![p][k] = K!None]
      /\ IF got[p] = {}
         THEN at' = [at EXCEPT ![p] = "idle"] /\ want' = [want EXCEPT ![p] = {}]
         ELSE at' = [at EXCEPT ![p] = "unlock"] /\ UNCHANGED want
  BY Zenon DEF K!Dereference, K!DropRef, K!mutex
<1>2. /\ k \in TableKey /\ k \in want[p] /\ k \notin got[p]
      /\ \A j \in TableKey : ref[p][j] # K!None <=> j \in got[p] \/ j = k
      /\ ref[p][k] = o /\ o \in Obj /\ o = locks[k]
  BY <1>1, PendingKey, Zenon DEF K!Between
<1> HIDE DEF k, o
<1>3. o # K!None
  BY <1>2, Zenon DEF K!LocksInv, K!LockConstants
<1>4. ASSUME NEW q \in Proc, NEW j \in TableKey, ref[q][j] = o PROVE j = k
  <2>1. locks[j] = o
    BY <1>3, <1>4, Zenon DEF K!LocksInv, K!TableOK
  <2> QED BY <1>2, <1>3, <2>1, SMTT(30) DEF K!LocksInv, K!TableOK
<1>5. \A q \in Proc, j \in TableKey : ref'[q][j] = IF q = p /\ j = k THEN K!None ELSE ref[q][j]
  BY <1>1, <1>2, Zenon DEF K!LocksInv, K!TypeOK
<1>6. refs[o] = K!Cardinality(K!UsersOf(o)) /\ K!IsFiniteSet(K!UsersOf(o)) /\ p \in K!UsersOf(o)
  BY <1>2, Zenon DEF Counting, K!LocksInv, K!TableOK, K!UsersOf, K!LockConstants
<1>7. refs[o] = 1 <=> K!UsersOf(o) = {p}
  BY <1>6, Zenon DEF Counting
<1>8. /\ K!Cardinality(K!UsersOf(o) \ {p}) = refs[o] - 1
      /\ refs[o] - 1 \in Nat
  <2>1. K!Cardinality(K!UsersOf(o) \ {p}) = K!Cardinality(K!UsersOf(o)) - 1 /\ K!IsFiniteSet(K!UsersOf(o) \ {p})
    BY <1>6, Zenon DEF Counting
  <2>2. K!Cardinality(K!UsersOf(o) \ {p}) \in Nat
    BY <2>1, Zenon DEF Counting
  <2> QED BY <1>6, <2>1, <2>2, Zenon
<1>9. K!TypeOK'
  <2>1. ref' \in [Proc -> [TableKey -> Obj \cup {K!None}]]
    BY <1>1, <1>2, Zenon DEF K!LocksInv, K!TypeOK
  <2>2. locks' \in [TableKey -> Obj \cup {K!None}] /\ refs' \in [Obj -> Nat]
    BY <1>1, <1>2, <1>8, Zenon DEF K!LocksInv, K!TypeOK
  <2>3. want' \in [Proc -> SUBSET TableKey] /\ at' \in [Proc -> K!PC]
    BY <1>1, ZenonT(40) DEF K!LocksInv, K!TypeOK, K!PC
  <2> QED BY <1>1, <2>1, <2>2, <2>3, Zenon DEF K!LocksInv, K!TypeOK
<1>10. K!TableOK'
  <2>1. ASSUME NEW q \in Proc, NEW j \in TableKey, ref'[q][j] # K!None
        PROVE  ref'[q][j] = locks'[j]
    <3>1. ref'[q][j] = ref[q][j] /\ ref[q][j] = locks[j] /\ ~(q = p /\ j = k)
      BY <1>5, <2>1, SMTT(30) DEF K!LocksInv, K!TableOK
    <3>2. CASE j # k
      BY <1>1, <1>2, <3>1, <3>2, Zenon DEF K!LocksInv, K!TypeOK
    <3>3. CASE j = k
      <4>1. q \in K!UsersOf(o) /\ q # p
        BY <1>2, <3>1, <3>3, Zenon DEF K!UsersOf
      <4> QED BY <1>1, <1>7, <3>1, <4>1, Zenon
    <3> QED BY <3>2, <3>3, Zenon
  <2>2. ASSUME NEW j \in TableKey, locks'[j] # K!None
        PROVE  \E q \in Proc : ref'[q][j] = locks'[j]
    <3>1. CASE j # k
      <4>1. locks'[j] = locks[j]
        BY <1>1, <3>1, Zenon DEF K!LocksInv, K!TypeOK
      <4>2. PICK q \in Proc : ref[q][j] = locks[j]
        BY <2>2, <4>1, Zenon DEF K!LocksInv, K!TableOK
      <4> QED BY <1>5, <3>1, <4>1, <4>2, ZenonT(40)
    <3>2. CASE j = k
      <4>1. refs[o] # 1 /\ locks' = locks
        BY <1>1, <1>2, <2>2, <3>2 DEF K!LocksInv, K!TypeOK
      <4>2. PICK q \in K!UsersOf(o) : q # p
        BY <1>6, <1>7, <4>1, Zenon
      <4>3. q \in Proc /\ ref[q][k] = o
        BY <1>4, <4>2, Zenon DEF K!UsersOf
      <4> QED BY <1>2, <1>5, <3>2, <4>1, <4>2, <4>3, ZenonT(40)
    <3> QED BY <3>1, <3>2, Zenon
  <2>3. \A i, j \in TableKey : locks'[i] # K!None /\ locks'[i] = locks'[j] => i = j
    BY <1>1, <1>2 DEF K!LocksInv, K!TableOK, K!TypeOK
  <2>4. ASSUME NEW x \in Obj PROVE refs'[x] = K!Cardinality(K!UsersOf(x)')
    <3>1. CASE x # o
      <4>1. x # K!None
        BY Zenon DEF K!LocksInv, K!LockConstants
      <4>2. \A q \in Proc, j \in TableKey : ref'[q][j] = x <=> ref[q][j] = x
        BY <1>2, <1>5, <3>1, <4>1, SMTT(30)
      <4>3. K!UsersOf(x)' = K!UsersOf(x)
        BY <4>2, Zenon DEF K!UsersOf
      <4> QED BY <1>1, <3>1, <4>3, Zenon DEF K!LocksInv, K!TableOK, K!TypeOK
    <3>2. CASE x = o
      <4>1. \A q \in Proc, j \in TableKey : ref'[q][j] = x <=> ref[q][j] = o /\ q # p
        BY <1>3, <1>4, <1>5, <3>2, SMTT(30)
      <4>2. K!UsersOf(x)' = K!UsersOf(o) \ {p}
        BY <4>1, Zenon DEF K!UsersOf
      <4>3. refs'[x] = refs[o] - 1
        BY <1>1, <1>2, <3>2, Zenon DEF K!LocksInv, K!TypeOK
      <4> QED BY <1>8, <4>2, <4>3, Zenon
    <3> QED BY <3>1, <3>2, Zenon
  <2> QED BY <2>1, <2>2, <2>3, <2>4, Zenon DEF K!TableOK
<1>11. ASSUME NEW q \in Proc PROVE K!Progress(q)'
  <2>1. K!Progress(q)
    BY Zenon DEF K!LocksInv
  <2>2. CASE q # p
    <3>1. at'[q] = at[q] /\ want'[q] = want[q] /\ K!Referenced(q)' = K!Referenced(q)
      BY <1>1, <1>5, <2>2 DEF K!LocksInv, K!TypeOK, K!Referenced
    <3> QED BY <1>1, <2>1, <3>1, Zenon DEF K!Progress
  <2>3. CASE q = p
    <3>1. K!Referenced(p)' = got'[p]
      BY <1>1, <1>2, <1>5, SMTT(30) DEF K!Referenced, K!LocksInv, K!TypeOK
    <3>2. /\ at'[p] \notin K!Between /\ got'[p] = got[p] /\ got'[p] \subseteq want'[p]
          /\ \/ at'[p] = "idle" /\ got[p] = {}
             \/ at'[p] = "unlock" /\ got[p] # {}
      BY <1>1, <2>1, <2>3, SMTT(30) DEF K!LocksInv, K!TypeOK, K!Between, K!Progress
    <3> QED BY <2>3, <3>1, <3>2, Zenon DEF K!Progress
  <2> QED BY <2>2, <2>3, Zenon
<1>12. ASSUME NEW x \in Obj, NEW q \in Proc PROVE K!ObjectOK(x, q)'
  <2>1. K!ObjectOK(x, q) /\ got[q] \subseteq TableKey
    BY Zenon DEF K!LocksInv, K!TypeOK
  <2>2. K!Holds(q, x)' <=> K!Holds(q, x)
    BY <1>1, <1>2, <1>5, <2>1, SMTT(30) DEF K!Holds
  <2>3. CASE q # p
    <3>1. at'[q] = at[q] /\ \A j \in TableKey : ref'[q][j] = ref[q][j]
      BY <1>1, <1>5, <2>3, SMTT(30) DEF K!LocksInv, K!TypeOK
    <3> QED BY <1>1, <2>1, <2>2, <3>1, ZenonT(40) DEF K!ObjectOK
  <2>4. CASE q = p
    <3>1. at[p] = "unref" /\ at'[p] \in {"idle", "unlock"}
      BY <1>1 DEF K!LocksInv, K!TypeOK
    <3> QED BY <1>1, <2>1, <2>2, <2>4, <3>1, Zenon DEF K!ObjectOK
  <2> QED BY <2>3, <2>4, Zenon
<1> QED BY <1>9, <1>10, <1>11, <1>12, Zenon DEF K!LocksInv, K!LockConstants

-----------------------------------------------------------------------------
(* The theorems.                                                           *)

\* A step that leaves the tables and the requests alone keeps the invariant.
LEMMA LocksStay ==
  ASSUME K!LocksInv, UNCHANGED K!vars
  PROVE  K!LocksInv'
<1>1. K!TypeOK'
  BY Zenon DEF K!LocksInv, K!vars, K!TypeOK
<1>2. K!TableOK'
  <2>1. ref' = ref /\ locks' = locks /\ refs' = refs
    BY Zenon DEF K!vars
  <2> QED BY <2>1, ZenonT(40) DEF K!LocksInv, K!TableOK, K!UsersOf
<1>3. \A p \in Proc : K!Progress(p)'
  BY DEF K!LocksInv, K!vars, K!Progress, K!Referenced
<1>4. \A o \in Obj, p \in Proc : K!ObjectOK(o, p)'
  BY DEF K!LocksInv, K!vars, K!ObjectOK, K!Holds
<1> QED BY <1>1, <1>2, <1>3, <1>4, ZenonT(40) DEF K!LocksInv, K!LockConstants

INSTANCE FiniteSetTheorems

\* A finite set of integers has a least and a greatest element.
LEMMA LeastAndGreatest ==
  ASSUME NEW S, IsFiniteSet(S), S \subseteq Int, S # {}
  PROVE  /\ \E m \in S : \A y \in S : m =< y
         /\ \E m \in S : \A y \in S : m >= y
<1> DEFINE R == StrictSubsetOrdering(S)
           Below(x) == {y \in S : y < x}
           Above(x) == {y \in S : y > x}
<1>1. IsWellFoundedOn(R, SUBSET S)
  BY FS_StrictSubsetOrderingWellFounded, FS_FiniteSubsetsOfFinite, Zenon
<1>2. \E m \in S : \A y \in S : m =< y
  <2> DEFINE T == {Below(x) : x \in S}
  <2>1. T \subseteq SUBSET S /\ T # {}
    BY Zenon
  <2>2. PICK t \in T : \A u \in T : ~(<<u, t>> \in R)
    <3> HIDE DEF T, R
    <3> QED BY <1>1, <2>1, WFMin, Zenon
  <2>3. PICK m \in S : t = Below(m)
    BY Zenon
  <2>4. \A y \in S : ~(y < m)
    <3> SUFFICES ASSUME NEW y \in S, y < m PROVE FALSE
      BY Zenon
    <3>0. m \in Int /\ y \in Int /\ \A z \in S : z \in Int
      BY Zenon
    <3>1. Below(y) \subseteq Below(m) /\ y \in Below(m) /\ y \notin Below(y)
      <4>1. \A z \in S : z < y => z < m
        BY <3>0
      <4>2. ~(y < y)
        BY <3>0
      <4> QED BY <4>1, <4>2, Zenon
    <3>2. Below(y) \in T /\ Below(y) \in SUBSET S /\ Below(m) \in SUBSET S
      BY Zenon
    <3> HIDE DEF Below
    <3> QED BY <2>2, <2>3, <3>1, <3>2, Zenon DEF StrictSubsetOrdering
  <2> QED BY <2>4
<1>3. \E m \in S : \A y \in S : m >= y
  <2> DEFINE T == {Above(x) : x \in S}
  <2>1. T \subseteq SUBSET S /\ T # {}
    BY Zenon
  <2>2. PICK t \in T : \A u \in T : ~(<<u, t>> \in R)
    <3> HIDE DEF T, R
    <3> QED BY <1>1, <2>1, WFMin, Zenon
  <2>3. PICK m \in S : t = Above(m)
    BY Zenon
  <2>4. \A y \in S : ~(y > m)
    <3> SUFFICES ASSUME NEW y \in S, y > m PROVE FALSE
      BY Zenon
    <3>0. m \in Int /\ y \in Int /\ \A z \in S : z \in Int
      BY Zenon
    <3>1. Above(y) \subseteq Above(m) /\ y \in Above(m) /\ y \notin Above(y)
      <4>1. \A z \in S : z > y => z > m
        BY <3>0
      <4>2. ~(y > y)
        BY <3>0
      <4> QED BY <4>1, <4>2, Zenon
    <3>2. Above(y) \in T /\ Above(y) \in SUBSET S /\ Above(m) \in SUBSET S
      BY Zenon
    <3> HIDE DEF Above
    <3> QED BY <2>2, <2>3, <3>1, <3>2, Zenon DEF StrictSubsetOrdering
  <2> QED BY <2>4
<1> QED BY <1>2, <1>3, Zenon

\* KeyedLock counts with the operators the library is about, which proves what the
\* lemmas assumed.
LEMMA CountingHolds == Counting
<1>1. \A S : K!Cardinality(S) = Cardinality(S)
  BY Zenon DEF K!Cardinality, Cardinality
<1>2. \A S : K!IsFiniteSet(S) <=> IsFiniteSet(S)
  BY Zenon DEF K!IsFiniteSet, IsFiniteSet
<1>3. \A S, T : IsFiniteSet(S) /\ T \subseteq S => IsFiniteSet(T)
  BY FS_Subset, Zenon
<1>4. Cardinality({}) = 0
  BY FS_EmptySet, Zenon
<1>5. \A S : IsFiniteSet(S) => Cardinality(S) \in Nat
  BY FS_CardinalityType, Zenon
<1>6. \A S, x : IsFiniteSet(S) /\ x \notin S => Cardinality(S \cup {x}) = Cardinality(S) + 1
  BY FS_AddElement, Zenon
<1>7. ASSUME NEW S, NEW x, IsFiniteSet(S), x \in S
      PROVE  /\ Cardinality(S \ {x}) = Cardinality(S) - 1
             /\ Cardinality(S) = 1 <=> S = {x}
  <2>1. Cardinality(S \ {x}) = Cardinality(S) - 1
    BY <1>7, FS_RemoveElement, Zenon
  <2>2. Cardinality(S) = 1 <=> \E y : S = {y}
    BY <1>7, FS_Singleton, Zenon
  <2> QED BY <1>7, <2>1, <2>2, Zenon
<1> QED BY <1>1, <1>2, <1>3, <1>4, <1>5, <1>6, <1>7, LeastAndGreatest, Zenon DEF Counting

(* The empty table that Open makes, with no request under way,             *)
(* satisfies the invariant.                                                *)
LEMMA LocksInit == K!LockConstants /\ K!Init => K!LocksInv
<1> SUFFICES ASSUME K!LockConstants, K!Init PROVE K!LocksInv
  BY Zenon
<1>1. K!TypeOK
  BY Zenon DEF K!Init, K!TypeOK, K!PC
<1>2. \A p \in Proc, k \in TableKey : ref[p][k] = K!None
  BY Zenon DEF K!Init
<1>3. K!TableOK
  <2>1. ASSUME NEW o \in Obj PROVE refs[o] = K!Cardinality(K!UsersOf(o))
    <3>1. K!UsersOf(o) = {} /\ refs[o] = 0
      BY <1>2, Zenon DEF K!UsersOf, K!LockConstants, K!Init
    <3> QED BY <3>1, CountingHolds, Zenon DEF Counting
  <2> QED BY <1>2, <2>1, Zenon DEF K!TableOK, K!Init
<1>4. \A p \in Proc : K!Progress(p)
  BY <1>2, Zenon DEF K!Progress, K!Init, K!Referenced, K!Between
<1>5. \A o \in Obj, p \in Proc : K!ObjectOK(o, p)
  BY <1>2 DEF K!ObjectOK, K!Holds, K!Init, K!LockConstants
<1> QED BY <1>1, <1>3, <1>4, <1>5, Zenon DEF K!LocksInv

(* Every critical section of lockManyMode and of its release function, and *)
(* every abandoned wait of the maintenance lock, preserves the invariant.  *)
LEMMA LocksNext == K!LocksInv /\ [K!Next]_(K!vars) => K!LocksInv'
<1> SUFFICES ASSUME K!LocksInv, [K!Next]_(K!vars) PROVE K!LocksInv'
  BY Zenon
<1>1. ASSUME NEW p \in Proc, K!Request(p) \/ K!Step(p) \/ K!Cancel(p) PROVE K!LocksInv'
  BY <1>1, CountingHolds, LockMoves, ReferenceInv, AcquireInv, RUnlockInv, UnlockInv, DereferenceInv, ZenonT(40) DEF K!Step
<1>2. CASE UNCHANGED K!vars
  BY <1>2, LocksStay, Zenon
<1> QED BY <1>1, <1>2, Zenon DEF K!Next

\* The lock of a key excludes, for every number of goroutines, keys and lock objects:
\* two goroutines that have locked the same key are both readers, although the
\* object that stands for the key is dropped with its last reference and made again
\* (keyedLocks.lockManyMode, lockPlugin, sessionScopeMaintenanceLockRegistry.acquire).
THEOREM KeyedLockExclusion == K!LockConstants /\ K!Spec => []K!KeyExclusion
<1>1. K!LocksInv => K!KeyExclusion
  <2> SUFFICES ASSUME K!LocksInv, NEW p \in Proc, NEW q \in Proc, NEW k \in got[p] \cap got[q], p # q
               PROVE  mode[p] = "read"
    BY Zenon DEF K!KeyExclusion
  <2>1. k \in TableKey /\ mode[p] \in {"read", "write"} /\ mode[q] \in {"read", "write"}
    BY Zenon DEF K!LocksInv, K!TypeOK
  <2>2. ref[p][k] # K!None /\ ref[q][k] # K!None
    BY <2>1, SMTT(30) DEF K!LocksInv, K!Progress, K!Referenced
  <2>3. ref[p][k] = locks[k] /\ ref[q][k] = locks[k] /\ locks[k] \in Obj
    BY <2>1, <2>2 DEF K!LocksInv, K!TableOK, K!TypeOK
  <2>4. K!Holds(p, locks[k]) /\ K!Holds(q, locks[k])
    BY <2>3, Zenon DEF K!Holds
  <2> QED BY <2>1, <2>3, <2>4 DEF K!LocksInv, K!ObjectOK
<1> QED BY <1>1, LocksInit, LocksNext, PTL DEF K!Spec

\* Whoever references an object for a key finds that object in the table, and the
\* reference count of an object in the table is the number of goroutines that
\* reference it, so it is dropped with the last of them and not before.
THEOREM KeyedLockTable == K!LockConstants /\ K!Spec => []K!TableCurrent
<1>1. K!LocksInv => K!TableCurrent
  <2> SUFFICES ASSUME K!LocksInv PROVE K!TableCurrent
    BY Zenon
  <2>1. \A p \in Proc : \A k \in K!Referenced(p) : ref[p][k] = locks[k]
    BY Zenon DEF K!LocksInv, K!TableOK, K!Referenced
  <2>2. ASSUME NEW k \in TableKey, locks[k] # K!None
        PROVE  refs[locks[k]] = K!Cardinality({p \in Proc : ref[p][k] = locks[k]})
    <3>1. locks[k] \in Obj /\ refs[locks[k]] = K!Cardinality(K!UsersOf(locks[k]))
      BY <2>2, SMTT(30) DEF K!LocksInv, K!TypeOK, K!TableOK
    <3>2. \A p \in Proc, j \in TableKey : ref[p][j] = locks[k] => j = k
      BY <2>2 DEF K!LocksInv, K!TableOK
    <3>3. K!UsersOf(locks[k]) = {p \in Proc : ref[p][k] = locks[k]}
      BY <3>2, Zenon DEF K!UsersOf
    <3> QED BY <3>1, <3>3, Zenon
  <2> QED BY <2>1, <2>2, Zenon DEF K!TableCurrent
<1> QED BY <1>1, LocksInit, LocksNext, PTL DEF K!Spec

=============================================================================
