----------------------------- MODULE RuntimeIO -----------------------------
(***************************************************************************)
(* The I/O a worker does through the Host: invocations registered with the *)
(* broker (pkg/host/runtime_io.go), each with a lifetime that admits its   *)
(* operations (internal/resourceio/lifetime.go), and the table of resource *)
(* handles those operations open, use, derive from one another and close   *)
(* (internal/resourceio/table.go, service.go, network.go).                 *)
(*                                                                         *)
(* An invocation ends by a release, and the Host revokes every invocation  *)
(* and handle at once; both stop the lifetimes, close the handles under    *)
(* the operations that use them and wait for those to end.  What is read   *)
(* and written is left out.                                                *)
(*                                                                         *)
(* Every registration has an invocation id of its own, so an entry either  *)
(* belongs to the caller or to another principal: the branch of            *)
(* acquireMode that closes an entry whose owner has a newer revision       *)
(* serves the file handles of surfaces, which are not modelled here.       *)
(***************************************************************************)
EXTENDS Integers, FiniteSets

CONSTANTS Invs,       \* invocations
          Ops,        \* operations of the workers
          Handles,    \* numbers of the resources, each with its handle
          MaxHandles, \* handles a plugin may hold of a class
          Nil

VARIABLES inv,      \* registration of each invocation
          stopped,  \* invocations whose lifetime has been stopped
          res,      \* each resource: is it open, and for which invocation was it made
          entry,    \* each handle in the table
          op,       \* each operation
          drain,    \* each release, and the revocation of everything ("all")
          pending,  \* drains the revocation waits for
          shut,     \* the broker is closed to registrations
          lost      \* accepted streams no one closes

vars == <<inv, stopped, res, entry, op, drain, pending, shut, lost>>

Drains == Invs \union {"all"}

Idle == [stage |-> "idle", inv |-> Nil, on |-> Nil, made |-> Nil, shape |-> "plain", mode |-> "read"]

NoEntry == [in |-> FALSE, closed |-> FALSE, inv |-> Nil, shape |-> "plain"]

NoDrain == [stage |-> "none", invs |-> {}, rest |-> {}, cur |-> Nil]

Shapes == {"plain", "stream", "upload", "listener"}

TypeOK ==
  /\ \A i \in Invs : inv[i] \in {"none", "registered", "draining", "gone"}
  /\ stopped \subseteq Invs
  /\ \A h \in Handles : res[h].state \in {"none", "open", "closed"} /\ entry[h].shape \in Shapes
  /\ \A o \in Ops : op[o].stage \in {"idle", "run", "made", "hold", "derived", "closing"}
  /\ \A d \in Drains : drain[d].stage \in {"none", "stop", "take", "close", "wait", "done"}
  /\ lost \subseteq Handles

Init ==
  /\ inv = [i \in Invs |-> "none"] /\ stopped = {}
  /\ res = [h \in Handles |-> [state |-> "none", inv |-> Nil]]
  /\ entry = [h \in Handles |-> NoEntry] /\ op = [o \in Ops |-> Idle]
  /\ drain = [d \in Drains |-> NoDrain] /\ pending = {} /\ shut = FALSE /\ lost = {}

Broker == <<inv, stopped, drain, pending, shut>>

-----------------------------------------------------------------------------
(* Handles.                                                                *)

matches(h, i) == entry[h].inv = i

\* A full-duplex resource has a lock for reading, one for writing and one for control.
lockOperation(o, h, mode) ==
  \A p \in Ops \ {o} : op[p].stage \in {"hold", "derived"} /\ op[p].on = h =>
                         entry[h].shape = "stream" /\ op[p].mode # mode

Held(h) == \E p \in Ops : op[p].stage \in {"hold", "derived"} /\ op[p].on = h

\* Resource.Close: at once, whoever is using it.
CloseResource(h) ==
  /\ res' = [res EXCEPT ![h].state = "closed"]
  /\ entry' = [entry EXCEPT ![h].in = FALSE, ![h].closed = TRUE]

\* Uploads and streams are connections, and counted together.
kindClassFor(s) == IF s \in {"upload", "stream"} THEN "connection" ELSE s

ownerKindCountLocked(s) ==
  Cardinality({h \in Handles : entry[h].in /\ kindClassFor(entry[h].shape) = kindClassFor(s)})

openUnfenced(o) == ownerKindCountLocked(op[o].shape) < MaxHandles

\* Publication is admitted while the lifetime has not been stopped, and within the limit.
openResource(o) ==
  op[o].inv \notin stopped /\ ownerKindCountLocked(op[o].shape) < MaxHandles

End(o) == op' = [op EXCEPT ![o] = Idle]

-----------------------------------------------------------------------------
(* Registration and admission.                                             *)

register(i) ==
  /\ inv[i] = "none" /\ ~shut
  /\ inv' = [inv EXCEPT ![i] = "registered"]
  /\ UNCHANGED <<stopped, res, entry, op, drain, pending, shut, lost>>

acquire(o, i) ==
  op[o].stage = "idle" /\ inv[i] = "registered" /\ i \notin stopped

Start(o, i, fields) == op' = [op EXCEPT ![o] = [fields EXCEPT !.inv = i]]

\* Resources are taken in the order of their numbers.
Unmade ==
  {h \in Handles : res[h].state = "none" /\ \A g \in Handles : g < h => res[g].state # "none"}

\* The resource exists before its handle: a dial, an opened directory, a listener.
Dial(o, i, s) ==
  /\ acquire(o, i)
  /\ \E h \in Unmade :
       /\ res' = [res EXCEPT ![h] = [state |-> "open", inv |-> i]]
       /\ Start(o, i, [Idle EXCEPT !.stage = "made", !.made = h, !.shape = s])
  /\ UNCHANGED <<Broker, entry, lost>>

readDirOpen(o, i) == Dial(o, i, "plain")

beginHTTP(o, i) == Dial(o, i, "upload")

openWebSocket(o, i) == Dial(o, i, "stream")

connectTCP(o, i) == Dial(o, i, "stream")

connectUDP(o, i) == Dial(o, i, "stream")

listenTCP(o, i) == Dial(o, i, "listener")

PublishedEntry(o) ==
  [in |-> TRUE, closed |-> FALSE, inv |-> op[o].inv, shape |-> op[o].shape]

\* The handle is entered, or the resource closed again.
Publish(o) ==
  LET h == op[o].made
  IN /\ op[o].stage = "made" /\ End(o)
     /\ IF openResource(o)
        THEN entry' = [entry EXCEPT ![h] = PublishedEntry(o)] /\ UNCHANGED res
        ELSE res' = [res EXCEPT ![h].state = "closed"] /\ UNCHANGED entry
     /\ UNCHANGED <<Broker, lost>>

\* A file is opened only once its handle is admitted, under the table's lock.
openCreatedResource(o, i) ==
  /\ acquire(o, i) /\ ownerKindCountLocked("plain") < MaxHandles
  /\ \E h \in Unmade :
       /\ res' = [res EXCEPT ![h] = [state |-> "open", inv |-> i]]
       /\ entry' = [entry EXCEPT ![h] = [in |-> TRUE, closed |-> FALSE, inv |-> i,
                      shape |-> "plain"]]
  /\ UNCHANGED <<Broker, op, lost>>

-----------------------------------------------------------------------------
(* Using a handle.                                                         *)

\* Found in the table; its lock is taken later, and the entry looked at again.  The mode
\* (UseControl is the third) matters to a full-duplex resource only.
acquireMode(o, i, h, mode) ==
  /\ acquire(o, i) /\ entry[h].in /\ matches(h, i)
  /\ mode # "read" => entry[h].shape = "stream"
  /\ Start(o, i, [Idle EXCEPT !.stage = "run", !.on = h, !.mode = mode])
  /\ UNCHANGED <<Broker, res, entry, lost>>

Lock(o) ==
  /\ op[o].stage = "run" /\ lockOperation(o, op[o].on, op[o].mode)
  /\ IF entry[op[o].on].closed THEN End(o) ELSE op' = [op EXCEPT ![o].stage = "hold"]
  /\ UNCHANGED <<Broker, res, entry, lost>>

\* ReadChunk, WriteChunk, Seek, Use: the resource answers, or was closed under the call.
Answer(o) ==
  /\ op[o].stage = "hold" /\ End(o)
  /\ UNCHANGED <<Broker, res, entry, lost>>

\* finishHTTP: the response's body, unless the upload was aborted first.
Finish(o) ==
  LET h == op[o].on
  IN /\ op[o].stage = "hold" /\ entry[h].shape = "upload" /\ res[h].state = "open"
     /\ \E b \in Unmade :
          /\ res' = [res EXCEPT ![b] = [state |-> "open", inv |-> op[o].inv],
                                ![h].state = "closed"]
          /\ op' = [op EXCEPT ![o].stage = "derived", ![o].made = b, ![o].shape = "stream"]
     /\ UNCHANGED <<Broker, entry, lost>>

\* acceptTCP: a stream, while the listener is open.
Accept(o) ==
  LET h == op[o].on
  IN /\ op[o].stage = "hold" /\ entry[h].shape = "listener" /\ res[h].state = "open"
     /\ \E s \in Unmade :
          /\ res' = [res EXCEPT ![s] = [state |-> "open", inv |-> op[o].inv]]
          /\ op' = [op EXCEPT ![o].stage = "derived", ![o].made = s, ![o].shape = "stream"]
     /\ UNCHANGED <<Broker, entry, lost>>

\* Use looks once more whether the handle was closed: then the call fails, and what it
\* derived is not handed on.  A body ends with its invocation's context; an accepted
\* stream has no owner left.
use(o) ==
  LET h == op[o].on
  IN /\ op[o].stage = "derived"
     /\ IF entry[h].closed
        THEN /\ End(o) /\ UNCHANGED entry
             /\ lost' = IF entry[h].shape = "listener" THEN lost \union {op[o].made} ELSE lost
             /\ IF entry[h].shape = "upload" /\ op[o].inv \in stopped
                THEN res' = [res EXCEPT ![op[o].made].state = "closed"] ELSE UNCHANGED res
        ELSE /\ op' = [op EXCEPT ![o].stage = "made", ![o].on = Nil]
             /\ entry' = IF entry[h].shape = "upload"
                         THEN [entry EXCEPT ![h].in = FALSE, ![h].closed = TRUE] ELSE entry
             /\ UNCHANGED <<res, lost>>
     /\ UNCHANGED <<Broker>>

\* Table.Close: out of the table, closed, then every lock is waited for.
Close(o, i, h) ==
  /\ acquire(o, i) /\ entry[h].in /\ matches(h, i)
  /\ CloseResource(h)
  /\ Start(o, i, [Idle EXCEPT !.stage = "closing", !.on = h])
  /\ UNCHANGED <<Broker, lost>>

Closed(o) ==
  /\ op[o].stage = "closing" /\ ~Held(op[o].on) /\ End(o)
  /\ UNCHANGED <<Broker, res, entry, lost>>

-----------------------------------------------------------------------------
(* The end of invocations.                                                 *)

Unregister(d, is) ==
  /\ inv' = [i \in Invs |-> IF i \in is THEN "draining" ELSE inv[i]]
  /\ drain' = [drain EXCEPT ![d] = [NoDrain EXCEPT !.stage = "stop", !.invs = is]]

release(i) ==
  /\ inv[i] = "registered" /\ Unregister(i, {i})
  /\ UNCHANGED <<stopped, res, entry, op, pending, shut, lost>>

\* revokeMatching everything: no registration after it, and the drains under way are
\* waited for as well.
closeAll ==
  /\ drain["all"].stage = "none" /\ shut' = TRUE
  /\ Unregister("all", {i \in Invs : inv[i] = "registered"})
  /\ pending' = {i \in Invs : drain[i].stage \notin {"none", "done"}}
  /\ UNCHANGED <<stopped, res, entry, op, lost>>

Advance(d, stage) == drain' = [drain EXCEPT ![d].stage = stage]

\* The body of a response nobody was handed ends with the context of its request.
Orphaned(is) ==
  {h \in Handles : /\ res[h].state = "open" /\ res[h].inv \in is /\ ~entry[h].in /\ h \notin lost
                   /\ \A o \in Ops : op[o].made # h}

Stop(d) ==
  /\ drain[d].stage = "stop" /\ Advance(d, "take")
  /\ stopped' = stopped \union drain[d].invs
  /\ res' = [h \in Handles |-> IF h \in Orphaned(drain[d].invs) THEN [res[h] EXCEPT !.state = "closed"]
                               ELSE res[h]]
  /\ UNCHANGED <<inv, entry, op, pending, shut, lost>>

\* Table.Revoke takes the entries out of the table at once, then closes each in turn.
Revocable(d) ==
  {h \in Handles : entry[h].in /\ d \in {"all", entry[h].inv}}

RevokeTake(d) ==
  /\ drain[d].stage = "take"
  /\ drain' = [drain EXCEPT ![d].stage = "close", ![d].rest = Revocable(d)]
  /\ entry' = [h \in Handles |-> IF h \in Revocable(d) THEN [entry[h] EXCEPT !.in = FALSE] ELSE entry[h]]
  /\ UNCHANGED <<inv, stopped, res, op, pending, shut, lost>>

RevokeClose(d, h) ==
  /\ drain[d].stage = "close" /\ drain[d].cur = Nil /\ h \in drain[d].rest
  /\ drain' = [drain EXCEPT ![d].rest = @ \ {h}, ![d].cur = h] /\ CloseResource(h)
  /\ UNCHANGED <<inv, stopped, op, pending, shut, lost>>

RevokeClosed(d) ==
  /\ drain[d].stage = "close" /\ drain[d].cur # Nil /\ ~Held(drain[d].cur)
  /\ drain' = [drain EXCEPT ![d].cur = Nil]
  /\ UNCHANGED <<inv, stopped, res, entry, op, pending, shut, lost>>

Revoked(d) ==
  /\ drain[d].stage = "close" /\ drain[d].cur = Nil /\ drain[d].rest = {} /\ Advance(d, "wait")
  /\ UNCHANGED <<inv, stopped, res, entry, op, pending, shut, lost>>

\* Lifetime.Wait, and the drains that were under way.
Wait(d) ==
  /\ \A o \in Ops : op[o].stage # "idle" => op[o].inv \notin drain[d].invs
  /\ d = "all" => \A i \in pending : drain[i].stage = "done"

Drained(d) ==
  /\ drain[d].stage = "wait" /\ Wait(d) /\ Advance(d, "done")
  /\ inv' = [i \in Invs |-> IF i \in drain[d].invs THEN "gone" ELSE inv[i]]
  /\ UNCHANGED <<stopped, res, entry, op, pending, shut, lost>>

Next ==
  \/ \E i \in Invs : register(i) \/ release(i)
  \/ closeAll
  \/ \E o \in Ops, i \in Invs : openCreatedResource(o, i)
  \/ \E o \in Ops, i \in Invs :
       readDirOpen(o, i) \/ beginHTTP(o, i) \/ openWebSocket(o, i) \/ connectTCP(o, i)
       \/ connectUDP(o, i) \/ listenTCP(o, i)
  \/ \E o \in Ops, i \in Invs, h \in Handles :
       Close(o, i, h) \/ \E mode \in {"read", "write", "control"} : acquireMode(o, i, h, mode)
  \/ \E o \in Ops : Publish(o) \/ Lock(o) \/ Answer(o) \/ Finish(o) \/ Accept(o) \/ use(o) \/ Closed(o)
  \/ \E d \in Drains : Stop(d) \/ RevokeTake(d) \/ RevokeClosed(d) \/ Revoked(d) \/ Drained(d)
                       \/ \E h \in Handles : RevokeClose(d, h)

Spec == Init /\ [][Next]_vars

-----------------------------------------------------------------------------
\* Once a release has returned, its invocation has no operation left and nothing it
\* opened is open, but for what a revocation of everything under way is about to close; once the revocation of everything has returned, nothing at all is.
\* The one exception is a stream accepted while its listener was being closed, which
\* acceptTCP drops without closing (release, revokeMatching, openResource, Table.Revoke).
ReleasedIsSilent ==
  /\ \A i \in Invs : inv[i] = "gone" =>
       /\ \A o \in Ops : op[o].stage # "idle" => op[o].inv # i
       /\ \A h \in Handles : res[h].inv = i /\ res[h].state = "open" =>
            h \in lost \/ h \in drain["all"].rest
  /\ drain["all"].stage = "done" => \A h \in Handles : res[h].state = "open" => h \in lost

=============================================================================
