---------------------------- MODULE ModuleCache ----------------------------
(***************************************************************************)
(* The compiled-module cache of the runtime                                *)
(* (crates/redevplugin-runtime/src/module_cache.rs): one flight per        *)
(* module, followers that wait for it, cancellation of a waiter, and the   *)
(* two limits enforced by evicting the least recently used entry.          *)
(*                                                                         *)
(* A caller is one call of get_or_compile_with_hooks.  A flight is named   *)
(* by the caller that leads it.  Every action is one critical section of   *)
(* the cache's mutex, of the flight's mutex or of the cancellation's, or   *)
(* a step outside them (a hook, a compilation).  The outcomes of hooks,    *)
(* of starting a thread and of compilation are chosen by the environment.  *)
(* The counters of the metrics report are left out.                        *)
(***************************************************************************)
EXTENDS Naturals, FiniteSets, FiniteSetsExt, Functions

CONSTANTS Caller,          \* calls of get_or_compile_with_hooks
          Key,             \* module keys
          KeyOf,           \* the module a caller asks for
          SizeOf,          \* source bytes of a module
          MaxEntries, MaxSourceBytes,
          Cancelable,      \* the callers that may be cancelled
          NoFlight

VARIABLES
  lastUsed,     \* entries: the tick of the last use, per cached key
  recency,      \* the recency index: pairs of a tick and a key
  tick, sourceBytes,
  flights,      \* the flight in progress of a key, or NoFlight
  outcome,      \* the result slot of the flight a caller leads
  thread,       \* the compile thread of the flight a caller leads
  pc,           \* where a caller is
  joined,       \* the flight a caller waits for
  answer,       \* what a caller returned
  canceled,     \* the cancellation flags
  notify        \* cancellations that still have to wake their waiter

cacheVars  == <<lastUsed, recency, tick, sourceBytes, flights>>
callerVars == <<pc, joined, answer>>
vars       == <<cacheVars, callerVars, outcome, thread, canceled, notify>>

Failure == {"load", "invalid"}
Result  == Failure \cup {"ok"}

Init ==
  /\ lastUsed = [k \in {} |-> 0]
  /\ recency = {}
  /\ tick = 0 /\ sourceBytes = 0
  /\ flights = [k \in Key |-> NoFlight]
  /\ outcome = [c \in Caller |-> "none"]
  /\ thread = [c \in Caller |-> "none"]
  /\ pc = [c \in Caller |-> "call"]
  /\ joined = [c \in Caller |-> NoFlight]
  /\ answer = [c \in Caller |-> "none"]
  /\ canceled = [c \in Caller |-> FALSE]
  /\ notify = [c \in Caller |-> FALSE]

Return(c, a) == pc' = [pc EXCEPT ![c] = "done"] /\ answer' = [answer EXCEPT ![c] = a]

----------------------------------------------------------------------------
(* The lookup: a hit refreshes the entry, a miss joins or leads a flight.  *)

CallCanceled(c) ==
  /\ pc[c] = "call" /\ canceled[c]
  /\ Return(c, "canceled")
  /\ UNCHANGED <<cacheVars, joined, outcome, thread, canceled, notify>>

Touched(k, t) == (recency \ {<<lastUsed[k], k>>}) \cup {<<t, k>>}

Hit(c) ==
  LET k == KeyOf[c] IN
  /\ pc[c] = "call" /\ ~canceled[c] /\ k \in DOMAIN lastUsed
  /\ tick' = tick + 1
  /\ lastUsed' = [lastUsed EXCEPT ![k] = tick + 1]
  /\ recency' = Touched(k, tick + 1)
  /\ Return(c, "ok")
  /\ UNCHANGED <<sourceBytes, flights, joined, outcome, thread, canceled, notify>>

Join(c) ==
  LET k == KeyOf[c] IN
  /\ pc[c] = "call" /\ ~canceled[c] /\ k \notin DOMAIN lastUsed
  /\ flights[k] # NoFlight
  /\ tick' = tick + 1
  /\ joined' = [joined EXCEPT ![c] = flights[k]]
  /\ pc' = [pc EXCEPT ![c] = "wait"]
  /\ UNCHANGED <<lastUsed, recency, sourceBytes, flights, answer, outcome, thread, canceled, notify>>

Lead(c) ==
  LET k == KeyOf[c] IN
  /\ pc[c] = "call" /\ ~canceled[c] /\ k \notin DOMAIN lastUsed
  /\ flights[k] = NoFlight
  /\ tick' = tick + 1
  /\ flights' = [flights EXCEPT ![k] = c]
  /\ joined' = [joined EXCEPT ![c] = c]
  /\ pc' = [pc EXCEPT ![c] = "register"]
  /\ UNCHANGED <<lastUsed, recency, sourceBytes, answer, outcome, thread, canceled, notify>>

----------------------------------------------------------------------------
(* The end of a flight.                                                    *)

Bytes(keys) == MapThenSumSet(LAMBDA k : SizeOf[k], keys)

(* evict_locked: the shortest run of least recently used index entries     *)
(* whose removal brings both limits back.                                  *)
Popped(index) ==
  CHOOSE P \in SUBSET index :
     LET rest == {e[2] : e \in index \ P}
         fits(S) == Cardinality(S) <= MaxEntries /\ Bytes(S) <= MaxSourceBytes
     IN /\ \A e \in P, f \in index \ P : e[1] < f[1]
        /\ fits(rest) \/ P = index
        /\ \A e \in P : (\A f \in P : f[1] <= e[1]) => ~fits(rest \cup {e[2]})

Insert(k) ==
  LET t     == tick + 1
      old   == IF k \in DOMAIN lastUsed THEN {<<lastUsed[k], k>>} ELSE {}
      index == (recency \ old) \cup {<<t, k>>}
      gone  == Popped(index)
      keys  == (DOMAIN lastUsed \cup {k}) \ {e[2] : e \in gone}
  IN /\ tick' = t
     /\ recency' = index \ gone
     /\ lastUsed' = [x \in keys |-> IF x = k THEN t ELSE lastUsed[x]]
     /\ sourceBytes' = sourceBytes + (IF old = {} THEN SizeOf[k] ELSE 0)
                       - Bytes({e[2] : e \in gone})

\* Mutant: a single waiter is woken.
WakeOne(f, p) ==
  LET waiting == {c \in Caller : p[c] = "blocked" /\ joined[c] = f} IN
  IF waiting = {} THEN p ELSE [p EXCEPT ![CHOOSE c \in waiting : TRUE] = "wait"]

\* complete() fills the slot and wakes every waiter of the flight.
Wake(f, p) == [c \in Caller |-> IF p[c] = "blocked" /\ joined[c] = f THEN "wait" ELSE p[c]]

FinishFlight(f, result, p) ==
  LET k == KeyOf[f] IN
  /\ IF result = "ok" THEN Insert(k)
                      ELSE UNCHANGED <<tick, recency, lastUsed, sourceBytes>>
  /\ outcome' = [outcome EXCEPT ![f] = result]
  /\ pc' = Wake(f, p)
  /\ flights' = IF flights[k] = f THEN [flights EXCEPT ![k] = NoFlight] ELSE flights

\* finish_registered_flight: a failing completion hook replaces the result.
FinishRegistered(f, result, p) ==
  \E hookOk \in BOOLEAN :
    FinishFlight(f, IF hookOk THEN result ELSE "load", p)

----------------------------------------------------------------------------
(* The leader and the compile thread.                                      *)

Register(c) ==
  /\ pc[c] = "register"
  /\ pc' = [pc EXCEPT ![c] = "spawn"]
  /\ UNCHANGED <<cacheVars, joined, answer, outcome, thread, canceled, notify>>

RegisterFails(c) ==
  /\ pc[c] = "register"
  /\ FinishFlight(c, "load", [pc EXCEPT ![c] = "wait"])
  /\ UNCHANGED <<joined, answer, thread, canceled, notify>>

Spawn(c) ==
  /\ pc[c] = "spawn"
  /\ thread' = [thread EXCEPT ![c] = "running"]
  /\ pc' = [pc EXCEPT ![c] = "wait"]
  /\ UNCHANGED <<cacheVars, joined, answer, outcome, canceled, notify>>

SpawnFails(c) ==
  /\ pc[c] = "spawn"
  /\ FinishRegistered(c, "load", [pc EXCEPT ![c] = "wait"])
  /\ UNCHANGED <<joined, answer, thread, canceled, notify>>

\* compile_module: a source above the byte limit is refused.
Compiled(c) == {r \in Result : r = "ok" => SizeOf[KeyOf[c]] <= MaxSourceBytes}

Compile(c) ==
  /\ thread[c] = "running"
  /\ thread' = [thread EXCEPT ![c] = "ended"]
  /\ \E r \in Compiled(c) : FinishRegistered(c, r, pc)
  /\ UNCHANGED <<joined, answer, canceled, notify>>

----------------------------------------------------------------------------
(* Waiting, and the cancellation that interrupts it.                       *)

\* One turn of the loop of CompileFlight::wait, under the flight's mutex.
Wait(c) ==
  /\ pc[c] = "wait"
  /\ \/ canceled[c] /\ Return(c, "canceled")
     \/ ~canceled[c] /\ outcome[joined[c]] # "none" /\ Return(c, outcome[joined[c]])
     \/ /\ ~canceled[c] /\ outcome[joined[c]] = "none"
        /\ pc' = [pc EXCEPT ![c] = "blocked"]
        /\ UNCHANGED answer
  /\ UNCHANGED <<cacheVars, joined, outcome, thread, canceled, notify>>

\* cancel sets the flag and collects the waiter, registered or not yet.
Cancel(c) ==
  /\ c \in Cancelable /\ ~canceled[c]
  /\ canceled' = [canceled EXCEPT ![c] = TRUE]
  /\ notify' = [notify EXCEPT ![c] = pc[c] \in {"wait", "blocked"}]
  /\ UNCHANGED <<cacheVars, callerVars, outcome, thread>>

\* Mutant: a cancelled leader takes its flight down with it.
NotifyCanceledFlight(c) ==
  /\ notify[c]
  /\ notify' = [notify EXCEPT ![c] = FALSE]
  /\ pc' = [d \in Caller |-> IF joined[d] = joined[c] /\ pc[d] = "blocked" THEN "done" ELSE pc[d]]
  /\ answer' = [d \in Caller |-> IF joined[d] = joined[c] /\ pc[d] = "blocked" THEN "canceled" ELSE answer[d]]
  /\ UNCHANGED <<cacheVars, joined, outcome, thread, canceled>>

\* notify_canceled wakes everyone who waits for the same flight.
NotifyCanceled(c) ==
  /\ notify[c]
  /\ notify' = [notify EXCEPT ![c] = FALSE]
  /\ pc' = Wake(joined[c], pc)
  /\ UNCHANGED <<cacheVars, joined, answer, outcome, thread, canceled>>

CallerStep(c) ==
  \/ CallCanceled(c) \/ Hit(c) \/ Join(c) \/ Lead(c)
  \/ Register(c) \/ RegisterFails(c) \/ Spawn(c) \/ SpawnFails(c) \/ Wait(c)

Next == \E c \in Caller : CallerStep(c) \/ Compile(c) \/ Cancel(c) \/ NotifyCanceled(c)

Spec == Init /\ [][Next]_vars

(* The threads of the runtime are scheduled; cancellation may never come.  *)
Fairness == \A c \in Caller : WF_vars(CallerStep(c)) /\ WF_vars(Compile(c)) /\ WF_vars(NotifyCanceled(c))
LiveSpec == Spec /\ Fairness

----------------------------------------------------------------------------
(* Properties.                                                             *)

\* The shape of the state.
TypeOK ==
  /\ DOMAIN lastUsed \subseteq Key /\ IsFiniteSet(recency)
  /\ flights \in [Key -> Caller \cup {NoFlight}]
  /\ outcome \in [Caller -> Result \cup {"none"}]
  /\ thread \in [Caller -> {"none", "running", "ended"}]
  /\ pc \in [Caller -> {"call", "register", "spawn", "wait", "blocked", "done"}]
  /\ answer \in [Caller -> Result \cup {"none", "canceled"}]
  /\ joined \in [Caller -> Caller \cup {NoFlight}]

\* The recency index and the byte count describe the entries exactly and both
\* limits hold after every critical section (get_or_compile_with_hooks,
\* finish_flight and evict_locked keep three structures in step).
IndexExact ==
  /\ recency = {<<lastUsed[k], k>> : k \in DOMAIN lastUsed}
  /\ \A e, f \in recency : e[1] = f[1] => e = f
  /\ sourceBytes = Bytes(DOMAIN lastUsed)
  /\ Cardinality(DOMAIN lastUsed) <= MaxEntries
  /\ sourceBytes <= MaxSourceBytes

\* The flight table always shows the one unfinished flight of a module, and none of
\* a module that is cached.
OneFlight ==
  \A f \in Caller :
    LET open == joined[f] = f /\ outcome[f] = "none" IN
    /\ open => flights[KeyOf[f]] = f /\ KeyOf[f] \notin DOMAIN lastUsed
    /\ (\E k \in Key : flights[k] = f) => open

\* A caller gets the result of the flight it joined; it is answered with a
\* cancellation only when it was itself cancelled, whoever leads the flight.
AnswerIsOwn ==
  \A c \in Caller :
    /\ answer[c] = "canceled" => canceled[c]
    /\ answer[c] \in Result /\ joined[c] # NoFlight => answer[c] = outcome[joined[c]]

\* One module is never compiled by two flights at a time, nor while it is cached;
\* and a caller gets the result of the flight it joined, or a cancellation when it
\* was cancelled itself (get_or_compile_with_hooks, finish_flight, wait_for_flight).
CompiledOnce == OneFlight /\ AnswerIsOwn

----------------------------------------------------------------------------
(* The inductive invariant of CompiledOnce.                                *)

\* NoFlight is no caller.
CacheConstants == KeyOf \in [Caller -> Key] /\ NoFlight \notin Caller

\* Where a caller is, and the shape of the state without the entries.
CallerSteps == {"call", "register", "spawn", "wait", "blocked", "done"}
Shape ==
  /\ flights \in [Key -> Caller \cup {NoFlight}]
  /\ outcome \in [Caller -> Result \cup {"none"}]
  /\ thread \in [Caller -> {"none", "running", "ended"}]
  /\ pc \in [Caller -> CallerSteps]
  /\ answer \in [Caller -> Result \cup {"none", "canceled"}]
  /\ joined \in [Caller -> Caller \cup {NoFlight}]

\* A caller that has not returned waits for a flight of its own key whose leader
\* leads itself; a running compile thread belongs to an open flight.
CallersInStep ==
  \A c \in Caller :
    /\ pc[c] = "call" => joined[c] = NoFlight /\ thread[c] = "none" /\ outcome[c] = "none"
    /\ pc[c] \in {"register", "spawn"} =>
         joined[c] = c /\ thread[c] = "none" /\ outcome[c] = "none"
    /\ pc[c] \in {"wait", "blocked"} => joined[c] \in Caller
    /\ thread[c] = "running" => joined[c] = c /\ outcome[c] = "none"
    /\ answer[c] # "none" => pc[c] = "done"
    /\ joined[c] \in Caller => joined[joined[c]] = joined[c] /\ KeyOf[joined[c]] = KeyOf[c]

\* The flight table files a flight under the key of its leader.
TableKeyed == \A k \in Key : flights[k] # NoFlight => KeyOf[flights[k]] = k

\* The two halves of AnswerIsOwn.
OwnCancellation ==
  /\ canceled \in [Caller -> BOOLEAN]
  /\ \A c \in Caller : answer[c] = "canceled" => canceled[c]
FlightAnswers ==
  \A c \in Caller :
    answer[c] \in Result /\ joined[c] # NoFlight => answer[c] = outcome[joined[c]]

CacheInv ==
  /\ Shape /\ CallersInStep /\ TableKeyed /\ OneFlight
  /\ OwnCancellation /\ FlightAnswers
=============================================================================
