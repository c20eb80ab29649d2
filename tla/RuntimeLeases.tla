--------------------------- MODULE RuntimeLeases ---------------------------
(***************************************************************************)
(* Runtime execution leases, from mint to execution.  The Host mints one   *)
(* lease per worker call for the runtime generation it is bound to         *)
(* (pkg/bridge/surface.go); ProcessSupervisor.InvokeWorker admits the      *)
(* call, compares the lease with the generation that is up, signs and      *)
(* verifies it, consumes it in the replay store when one is configured and *)
(* writes the frame (internal/runtimeclient); the runtime process checks   *)
(* it again and consumes it in a cache of its own (the Rust crate).  Each  *)
(* of those stages reads the clock or the generation by itself, and the    *)
(* runtime may exit and a new generation start between any two of them.    *)
(***************************************************************************)
EXTENDS Integers, Sequences, FiniteSets

CONSTANTS
    Calls,        \* threads inside InvokeWorker
    Leases,       \* the leases minted
    Shapes,       \* what the mint request and the invocation envelope look like
    Stores,       \* {"none"}, or the replay stores one of which is configured
    Total,        \* admission: the smaller of the supervisor's capacity and the
                  \* plugin's, all calls being of one plugin
    Replays,      \* max_entries of the runtime's replay cache
    Wants,        \* expiries a mint request asks for, 0 for none
    DefaultTTL,
    MaxTTL,
    MaxGen,       \* bound: runtime generations
    MaxTime,      \* bound: clock
    Nil

VARIABLES
    now,
    store,        \* which replay store the supervisor was given
    gen,          \* the supervisor's generation, 0 before the first Start
    ready,        \* its Health.Ready
    lease,        \* the minted leases
    rows,         \* leases in the Host's replay store
    cache,        \* leases in the runtime process's replay cache
    call,         \* InvokeWorker's local state, one record per thread
    ran,          \* history: the generations that executed each lease
    raced         \* history: leases pruned under a call that had read the clock

vars == <<now, store, gen, ready, lease, rows, cache, call, ran, raced>>

Idle == [at |-> "idle", lease |-> Nil, clock |-> 0, gen |-> 0]

\* Stages at which a call holds its admission slot.
Admitted ==
    {c \in Calls : call[c].at \notin {"idle", "acquire"}}

TypeOK ==
    /\ now \in 0..MaxTime
    /\ store \in Stores
    /\ gen \in 0..MaxGen
    /\ ready \in BOOLEAN
    /\ DOMAIN lease = Leases /\ DOMAIN call = Calls /\ DOMAIN ran = Leases
    /\ rows \subseteq Leases /\ cache \subseteq Leases /\ raced \subseteq Leases

Init ==
    /\ now = 0 /\ gen = 0 /\ ready = FALSE
    /\ store \in Stores
    /\ lease = [l \in Leases |-> Nil]
    /\ rows = {} /\ cache = {}
    /\ call = [c \in Calls |-> Idle]
    /\ ran = [l \in Leases |-> <<>>]
    /\ raced = {}

Tick ==
    /\ now < MaxTime
    /\ now' = now + 1
    /\ UNCHANGED <<store, gen, ready, lease, rows, cache, call, ran, raced>>

(***************************************************************************)
(* The generation.  Start returns with a new generation ready; the process *)
(* may exit at any time, which fails every request waiting for it and      *)
(* loses its replay cache.                                                 *)
(***************************************************************************)
Start ==
    /\ ~ready /\ gen < MaxGen
    /\ gen' = gen + 1 /\ ready' = TRUE
    /\ UNCHANGED <<now, store, lease, rows, cache, call, ran, raced>>

Waiting == {"sent", "clocked"}

Exit ==
    /\ ready
    /\ ready' = FALSE
    /\ cache' = {}
    /\ call' = [c \in Calls |-> IF call[c].at \in Waiting THEN Idle ELSE call[c]]
    /\ UNCHANGED <<now, store, gen, lease, rows, ran, raced>>

(***************************************************************************)
(* MintRuntimeExecutionLease.  A request without a complete audience, with *)
(* a limit that is not a safe integer, or whose execution kind and         *)
(* execution ID disagree is refused.  An expiry is capped, and one that is *)
(* not given defaults; an expiry that has passed is minted all the same.   *)
(***************************************************************************)
MintRefuses == {"incomplete", "unsafe_limits", "execution_id"}

Smaller(a, b) == IF a <= b THEN a ELSE b

ExpiresAt(want) ==
    Smaller(IF want = 0 THEN now + DefaultTTL ELSE want, now + MaxTTL)

MintRuntimeExecutionLease(l, shape, want) ==
    /\ lease[l] = Nil /\ ready
    /\ shape \notin MintRefuses
    /\ lease' = [lease EXCEPT ![l] =
          [gen |-> gen, shape |-> shape, exp |-> ExpiresAt(want), spent |-> ExpiresAt(want) <= now]]
    /\ UNCHANGED <<now, store, gen, ready, rows, cache, call, ran, raced>>

(***************************************************************************)
(* InvokeWorker.                                                           *)
(***************************************************************************)
Stay == UNCHANGED <<now, store, gen, ready, lease, rows, cache, ran, raced>>

Goes(c, at) == call' = [call EXCEPT ![c].at = at]

\* InvokeWorker returns; its deferred release gives the admission slot back.
Ends(c) == call' = [call EXCEPT ![c] = Idle]

InvokeWorker(c, l) ==
    /\ call[c].at = "idle" /\ lease[l] # Nil
    /\ ready
    /\ call' = [call EXCEPT ![c].at = "acquire", ![c].lease = l]
    /\ Stay

\* runtimeAdmissionController.acquire: a full supervisor keeps the call waiting
\* until a release or its context ends.
acquire(c) ==
    /\ call[c].at = "acquire"
    /\ \/ Cardinality(Admitted) < Total /\ Goes(c, "audience")
       \/ Ends(c)
    /\ Stay

\* validateRuntimeLeaseAudience against the health snapshot.
validateRuntimeLeaseAudience(c) ==
    /\ call[c].at = "audience"
    /\ IF ~ready THEN Ends(c)
       ELSE IF lease[call[c].lease].gen # gen THEN Ends(c)
       ELSE Goes(c, "sign")
    /\ Stay

\* validateRuntimeLeaseCanonicalFields, on which SignRuntimeLease and
\* VerifyRuntimeLease agree: the fields the mint does not look at (effect,
\* memory ceiling) and an expiry after the issue.
Canonical(l) ==
    /\ lease[l].shape # "unsignable"
    /\ ~lease[l].spent

\* SignRuntimeLease signs with the supervisor's own ephemeral key, so the signature
\* VerifyRuntimeLease looks up always verifies; what is left of it is the expiry.
VerifyRuntimeLease(l) == Canonical(l) /\ lease[l].exp > now

\* The envelope repeats the lease's identities and hashes its broker access.
workerInvocationContextFromInvocation(l) == lease[l].shape # "unbound"

SignAndVerify(c) ==
    /\ call[c].at = "sign"
    /\ LET l == call[c].lease IN
       IF VerifyRuntimeLease(l) /\ workerInvocationContextFromInvocation(l)
       THEN Goes(c, IF store = "none" THEN "register" ELSE "consume")
       ELSE Ends(c)
    /\ Stay

(***************************************************************************)
(* The Host's replay store.  runtimeLeaseReplayRecordFromConsume takes the *)
(* clock before the store's mutex is held.                                 *)
(***************************************************************************)
Expired(l, t) == lease[l].exp <= t

pruneExpired(set, t) == {l \in set : ~Expired(l, t)}

ConsumeClock(c) ==
    /\ call[c].at = "consume"
    /\ IF Expired(call[c].lease, now)
       THEN Ends(c)
       ELSE call' = [call EXCEPT ![c].at = "consuming", ![c].clock = now]
    /\ Stay

\* A lease dropped while another call holds an older clock reading for it.
Racing(set, t, holding) ==
    {l \in set \ pruneExpired(set, t) :
        \E d \in Calls : call[d].at = holding /\ call[d].lease = l}

Consuming(c, kind) == call[c].at = "consuming" /\ store = kind

\* The memory store forgets what has expired even when it refuses.
ConsumeMemory(c) ==
    /\ Consuming(c, "memory")
    /\ LET l == call[c].lease
           kept == pruneExpired(rows, call[c].clock)
       IN /\ raced' = raced \cup Racing(rows, call[c].clock, "consuming")
          /\ IF l \in kept THEN Ends(c) ELSE Goes(c, "register")
          /\ rows' = kept \cup {l}
    /\ UNCHANGED <<now, store, gen, ready, lease, cache, ran>>

\* The SQLite store deletes, looks and inserts in one transaction, which a
\* refusal rolls back.
ConsumeSQLite(c) ==
    /\ Consuming(c, "sqlite")
    /\ LET l == call[c].lease
           kept == pruneExpired(rows, call[c].clock)
       IN IF l \in kept
          THEN Ends(c) /\ UNCHANGED <<rows, raced>>
          ELSE /\ Goes(c, "register")
               /\ rows' = kept \cup {l}
               /\ raced' = raced \cup Racing(rows, call[c].clock, "consuming")
    /\ UNCHANGED <<now, store, gen, ready, lease, cache, ran>>

\* SQLite: a step of the transaction fails and it is rolled back, or the commit
\* fails after it took effect.
ConsumeFails(c) ==
    /\ Consuming(c, "sqlite")
    /\ call[c].lease \notin pruneExpired(rows, call[c].clock)
    /\ Ends(c)
    /\ \/ UNCHANGED <<rows, raced>>
       \/ /\ rows' = pruneExpired(rows, call[c].clock) \cup {call[c].lease}
          /\ raced' = raced \cup Racing(rows, call[c].clock, "consuming")
    /\ UNCHANGED <<now, store, gen, ready, lease, cache, ran>>

ListRuntimeLeaseReplays ==
    /\ store # "none"
    /\ rows' = pruneExpired(rows, now)
    /\ raced' = raced \cup Racing(rows, now, "consuming")
    /\ UNCHANGED <<now, store, gen, ready, lease, cache, call, ran>>

(***************************************************************************)
(* callIPC: the generation the frame goes to is the one that is up now.    *)
(* An invocation ID has at most one request waiting; a lease carries one.  *)
(***************************************************************************)
Register(c) ==
    /\ call[c].at = "register"
    /\ IF ~ready THEN Ends(c)
       ELSE IF \E d \in Calls \ {c} : /\ call[d].lease = call[c].lease
                                      /\ call[d].at \in Waiting \cup {"write"}
            THEN Ends(c)
            ELSE call' = [call EXCEPT ![c].at = "write", ![c].gen = gen]
    /\ Stay

Write(c) ==
    /\ call[c].at = "write"
    /\ IF ready /\ call[c].gen = gen
       THEN Goes(c, "sent") \/ Ends(c)
       ELSE Ends(c)
    /\ Stay

\* The caller's context ends before the runtime took the call from its queue.
Cancel(c) ==
    /\ call[c].at = "sent"
    /\ Ends(c)
    /\ Stay

(***************************************************************************)
(* The runtime process.                                                    *)
(***************************************************************************)

\* Mutant: the runtime trusts the comparison the Host made.
BoundToTarget(c) == lease[call[c].lease].shape # "untargeted"

\* Bound to the frame: the lease names this generation and its target hashes
\* name the invocation's (verify_runtime_lease_signature, validate_runtime_lease).
BoundToFrame(c) ==
    /\ lease[call[c].lease].gen = call[c].gen
    /\ lease[call[c].lease].shape # "untargeted"

RuntimeReads(c) ==
    /\ call[c].at = "sent" /\ ready
    /\ IF BoundToFrame(c) /\ ~Expired(call[c].lease, now)
       THEN call' = [call EXCEPT ![c].at = "clocked", ![c].clock = now]
       ELSE Ends(c)
    /\ Stay

\* consume_key, and the execution it lets through, up to the answer: a refusal,
\* the worker's result, an error of its own, or the end of the caller's context.
consume_key(c) ==
    /\ call[c].at = "clocked" /\ ready
    /\ LET l == call[c].lease
           kept == pruneExpired(cache, call[c].clock)
       IN /\ raced' = raced \cup Racing(cache, call[c].clock, "clocked")
          /\ IF l \in kept \/ Cardinality(kept) >= Replays
             THEN cache' = kept /\ UNCHANGED ran
             ELSE cache' = kept \cup {l} /\ ran' = [ran EXCEPT ![l] = Append(@, call[c].gen)]
          /\ Ends(c)
    /\ UNCHANGED <<now, store, gen, ready, lease, rows>>

Next ==
    \/ Tick \/ Start \/ Exit \/ ListRuntimeLeaseReplays
    \/ \E l \in Leases, shape \in Shapes, want \in Wants :
          MintRuntimeExecutionLease(l, shape, want)
    \/ \E c \in Calls, l \in Leases : InvokeWorker(c, l)
    \/ \E c \in Calls :
          \/ acquire(c) \/ validateRuntimeLeaseAudience(c) \/ SignAndVerify(c)
          \/ ConsumeClock(c) \/ ConsumeMemory(c) \/ ConsumeSQLite(c)
          \/ ConsumeFails(c)
          \/ Register(c) \/ Write(c) \/ Cancel(c)
          \/ RuntimeReads(c) \/ consume_key(c)

Spec == Init /\ [][Next]_vars

\* A lease runs at most once, however many calls present it and although both
\* replay records forget a lease when it expires (ConsumeRuntimeLease,
\* consume_key).  Both take the clock before their mutex, so a lease pruned by a
\* call with a later reading is the one exception.
ExecutedOnce ==
    \A l \in Leases : Len(ran[l]) <= 1 \/ l \in raced

\* A lease runs only in the generation it was minted for, canonical and
\* bound to its invocation, although the generation may be replaced between
\* InvokeWorker's comparison and the write of the frame.
ExecutedAsMinted ==
    \A l \in Leases : \A i \in DOMAIN ran[l] :
        /\ ran[l][i] = lease[l].gen
        /\ ~lease[l].spent
        /\ lease[l].shape = "proper"

-----------------------------------------------------------------------------
(* The inductive invariant.                                                *)

LeaseRecords == [gen : Nat, shape : Shapes, exp : Int, spent : BOOLEAN]

Stages == {"idle", "acquire", "audience", "sign", "consume", "consuming", "register", "write"} \cup Waiting

CallRecords == [at : Stages, lease : Leases \cup {Nil}, clock : Nat, gen : Nat]

\* What the code guarantees of the parameters: times are not negative, a mint request
\* has one of these shapes, and no lease is the absence of one.
LeaseConstants ==
    /\ DefaultTTL \in Nat /\ MaxTTL \in Nat /\ Wants \subseteq Nat
    /\ Shapes \subseteq MintRefuses \cup {"proper", "unsignable", "unbound", "untargeted"}
    /\ Nil \notin LeaseRecords

Shape ==
    /\ now \in Nat /\ gen \in Nat /\ ready \in BOOLEAN
    /\ lease \in [Leases -> LeaseRecords \cup {Nil}]
    /\ call \in [Calls -> CallRecords]
    /\ ran \in [Leases -> Seq(Nat)]

\* A lease names a generation that has been started, and was minted of a shape the
\* mint accepts.
MintedHere ==
    \A l \in Leases : lease[l] # Nil => lease[l].gen <= gen /\ lease[l].shape \notin MintRefuses

\* A call that is past a stage still has what that stage established: leases are never
\* changed, and an exit ends whoever waits for an answer.
Established(r) ==
    /\ r.at # "idle" => r.lease \in Leases /\ lease[r.lease] # Nil
    /\ r.at \in {"consume", "consuming", "register", "write"} \cup Waiting =>
          Canonical(r.lease) /\ workerInvocationContextFromInvocation(r.lease)
    /\ r.at \in Waiting => ready /\ r.gen = gen
    /\ r.at = "clocked" =>
          /\ lease[r.lease].gen = gen /\ lease[r.lease].shape # "untargeted"
          /\ ~Expired(r.lease, r.clock) /\ r.clock <= now

StagesHold == \A c \in Calls : Established(call[c])

\* Nothing will let this lease through again: its generation is over, the runtime
\* remembers it, or it has expired and no call still holds an earlier clock reading.
Over(l) ==
    \/ ~ready \/ lease[l].gen < gen
    \/ l \in cache
    \/ Expired(l, now) /\ \A c \in Calls : call[c].at = "clocked" => call[c].lease # l

RanOnce ==
    \A l \in Leases :
        /\ Len(ran[l]) > 0 => lease[l] # Nil
        /\ l \notin raced => Len(ran[l]) = 0 \/ (Len(ran[l]) = 1 /\ Over(l))

LeaseInv == Shape /\ MintedHere /\ StagesHold /\ RanOnce /\ ExecutedAsMinted
=============================================================================
