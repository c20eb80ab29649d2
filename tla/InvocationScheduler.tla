------------------------ MODULE InvocationScheduler ------------------------
(***************************************************************************)
(* The invocation scheduler of the runtime process (scheduler.rs), with    *)
(* the threads that use it: the input loop that enqueues and cancels, the  *)
(* workers that take and complete, and the control channel that revokes    *)
(* sessions.  Each plugin has a queue of request ids; cancelled ids stay   *)
(* in it as tombstones.  A rotating order of queue tokens gives every      *)
(* plugin its turn; a token whose queue was dropped is stale.              *)
(*                                                                         *)
(* Each critical section of the scheduler's mutex is one action.  The Host *)
(* numbers its requests, so an id is submitted once.                       *)
(***************************************************************************)
EXTENDS Integers, Sequences, FiniteSets, SequencesExt

CONSTANTS
  Req, Plugin, Scope,
  PluginOf, ScopeOf,       \* the plugin and the session scope of a request
  Workers,                 \* invocation worker threads
  QueueCapacity, PerPluginConcurrency,
  RecentCapacity,          \* RECENT_REQUEST_REPLAY_CAPACITY
  QueueCompactMin,         \* QUEUE_TOMBSTONE_COMPACT_MIN
  OrderCompactMin,         \* ORDER_TOMBSTONE_COMPACT_MIN
  MaxScopes,               \* MAX_RUNTIME_SESSION_REVOCATIONS
  MaxSequence              \* bound on session revoke sequence numbers

VARIABLES
  queues,      \* queues[p]: the queue of p, or NoQueue
  order,       \* sequence of queue tokens
  queuedReq,   \* queued_by_request
  active,      \* requests a worker runs
  activeBy,    \* active_by_plugin
  sessActive,  \* active_by_session, as the set of requests it indexes
  sessPublishing,  \* publishing_by_session, likewise
  publishing,  \* requests whose worker is between begin and end of completion
  revoked,     \* revoked_sessions
  recent,      \* recent_request_order
  nextGen, stale, queued, shutdown,
  canceled,    \* requests whose cancellation is set
  leftover,    \* jobs shutdown returned and the main thread has to answer
  submitted,   \* requests the Host has sent
  responses,   \* responses written for each request
  records,     \* session revoke controller: sequence and completion by scope
  waiting,     \* the scope the control channel waits to drain, or "none"
  passed       \* history: turns others had while p could have had one

schedule == <<queues, order, queuedReq, nextGen, stale, queued>>
running == <<active, activeBy, sessActive, sessPublishing, publishing>>
control == <<records, waiting>>
vars == <<schedule, running, control, revoked, recent, shutdown, canceled, leftover,
          submitted, responses, passed>>

NoQueue == [ids |-> <<>>, live |-> 0, tombstones |-> 0, generation |-> 0]
Token == [plugin : Plugin, generation : Nat]
PerPluginCapacity ==
  PerPluginConcurrency + (IF QueueCapacity < PerPluginConcurrency
                          THEN QueueCapacity ELSE PerPluginConcurrency)

HasQueue(p) == queues[p].generation # 0
Valid(q, t) == q[t.plugin].generation = t.generation
OfPlugin(s, p) == {r \in s : PluginOf[r] = p}
OfScope(s, c) == {r \in s : ScopeOf[r] = c}

TypeOK ==
  /\ \A p \in Plugin : queues[p].ids \in Seq(Req)
  /\ order \in Seq(Token)
  /\ queuedReq \subseteq Req /\ active \subseteq Req /\ publishing \subseteq Req
  /\ sessActive \subseteq Req /\ sessPublishing \subseteq Req
  /\ activeBy \in [Plugin -> Nat] /\ revoked \subseteq Scope
  /\ recent \in Seq(Req) /\ Len(recent) <= RecentCapacity
  /\ nextGen \in Nat /\ stale \in Nat /\ queued \in Nat /\ shutdown \in BOOLEAN
  /\ canceled \subseteq Req /\ leftover \subseteq Req /\ submitted \subseteq Req
  /\ responses \in [Req -> Nat]
  /\ waiting \in Scope \cup {"none"}

Init ==
  /\ queues = [p \in Plugin |-> NoQueue] /\ order = <<>> /\ queuedReq = {}
  /\ active = {} /\ activeBy = [p \in Plugin |-> 0]
  /\ sessActive = {} /\ sessPublishing = {} /\ publishing = {}
  /\ revoked = {} /\ recent = <<>>
  /\ nextGen = 0 /\ stale = 0 /\ queued = 0 /\ shutdown = FALSE
  /\ canceled = {} /\ leftover = {} /\ submitted = {}
  /\ responses = [r \in Req |-> 0]
  /\ records = [c \in Scope |-> [sequence |-> 0, complete |-> FALSE]]
  /\ waiting = "none"
  /\ passed = [p \in Plugin |-> 0]

\* remember_recent_request_id: a bounded queue without repetitions.
Remember(seq, r) ==
  IF r \in ToSet(seq) THEN seq
  ELSE IF Len(seq) < RecentCapacity THEN Append(seq, r) ELSE Append(Tail(seq), r)

Respond(s) == responses' = [r \in Req |-> responses[r] + (IF r \in s THEN 1 ELSE 0)]

\* A plugin that has queued work and a free slot.
Ready(p) == HasQueue(p) /\ activeBy[p] < PerPluginConcurrency

-----------------------------------------------------------------------------
(* The input loop.                                                         *)

Refused(r) ==
  \/ shutdown \/ ScopeOf[r] \in revoked
  \/ queued >= QueueCapacity
  \/ activeBy[PluginOf[r]] + queues[PluginOf[r]].live >= PerPluginCapacity
  \/ r \in active \cup queuedReq \cup ToSet(recent)

\* A refused invocation is answered with an error frame.
EnqueueRefused(r) ==
  /\ ~shutdown /\ r \notin submitted /\ Refused(r)
  /\ submitted' = submitted \cup {r}
  /\ Respond({r})
  /\ UNCHANGED <<schedule, running, control, revoked, recent, shutdown, canceled,
                 leftover, passed>>

Enqueue(r) ==
  LET p == PluginOf[r] IN
  /\ ~shutdown /\ r \notin submitted /\ ~Refused(r)
  /\ submitted' = submitted \cup {r}
  /\ IF HasQueue(p)
     THEN /\ queues' = [queues EXCEPT ![p].ids = Append(@, r), ![p].live = @ + 1]
          /\ UNCHANGED <<order, nextGen>>
     ELSE /\ nextGen' = nextGen + 1
          /\ queues' = [queues EXCEPT ![p] =
                [ids |-> <<r>>, live |-> 1, tombstones |-> 0, generation |-> nextGen + 1]]
          /\ order' = Append(order, [plugin |-> p, generation |-> nextGen + 1])
  /\ queuedReq' = queuedReq \cup {r} /\ queued' = queued + 1
  /\ UNCHANGED <<stale, running, control, revoked, recent, shutdown, canceled, leftover,
                 responses, passed>>

\* compact_plugin_queue and compact_order.
CompactQueue(q, left) ==
  IF q.tombstones >= QueueCompactMin /\ q.tombstones > q.live
  THEN [q EXCEPT !.ids = SelectSeq(@, LAMBDA r : r \in left), !.tombstones = 0]
  ELSE q

\* Mutant: a compaction forgets to reset the count.
CompactOrderUncounted(qs, staleTokens) ==
  /\ stale' = staleTokens
  /\ order' = IF staleTokens < OrderCompactMin \/ staleTokens * 2 < Len(order)
              THEN order ELSE SelectSeq(order, LAMBDA t : Valid(qs, t))

CompactOrder(qs, staleTokens) ==
  IF staleTokens < OrderCompactMin \/ staleTokens * 2 < Len(order)
  THEN order' = order /\ stale' = staleTokens
  ELSE order' = SelectSeq(order, LAMBDA t : Valid(qs, t)) /\ stale' = 0

\* A plugin whose queue is dropped starts to wait anew.
Restarted(qs) == [p \in Plugin |-> IF qs[p] = NoQueue THEN 0 ELSE passed[p]]

\* cancel of a queued request: a tombstone in the queue, or no queue any more.
CancelQueued(r) ==
  LET p == PluginOf[r]
      q == [queues[p] EXCEPT !.live = @ - 1, !.tombstones = @ + 1] IN
  /\ ~shutdown /\ r \in queuedReq
  /\ queuedReq' = queuedReq \ {r} /\ queued' = queued - 1
  /\ queues' = [queues EXCEPT ![p] = IF q.live = 0 THEN NoQueue
                                     ELSE CompactQueue(q, queuedReq')]
  /\ CompactOrder(queues', stale + (IF q.live = 0 THEN 1 ELSE 0))
  /\ recent' = Remember(recent, r) /\ canceled' = canceled \cup {r}
  /\ Respond({r})
  /\ passed' = Restarted(queues')
  /\ UNCHANGED <<nextGen, running, control, revoked, shutdown, leftover, submitted>>

CancelRunning(r) ==
  /\ ~shutdown /\ r \in active \ canceled
  /\ canceled' = canceled \cup {r}
  /\ UNCHANGED <<schedule, running, control, revoked, recent, shutdown, leftover,
                 submitted, responses, passed>>

-----------------------------------------------------------------------------
(* The worker threads.                                                     *)

\* One scan of the order: the tokens before the first usable one are dropped
\* when stale and go to the back when their plugin is at its limit.
Usable(t) == Valid(queues, t) /\ activeBy[t.plugin] < PerPluginConcurrency
Scanned(n) == SubSeq(order, 1, n - 1)
StaleBefore(n) == Len(SelectSeq(Scanned(n), LAMBDA t : ~Valid(queues, t)))
Rotated(n) ==
  SubSeq(order, n + 1, Len(order)) \o SelectSeq(Scanned(n), LAMBDA t : Valid(queues, t))

FirstUsable(n) ==
  /\ n \in 1..Len(order) /\ Usable(order[n])
  /\ \A i \in 1..(n - 1) : ~Usable(order[i])

\* Skip the tombstones at the head of the queue.
HeadAt(ids) == CHOOSE i \in 1..Len(ids) :
  ids[i] \in queuedReq /\ \A j \in 1..(i - 1) : ids[j] \notin queuedReq

Idle == Cardinality(active \cup publishing) < Workers

\* The queue after its head is taken, and the order after its turn.
AfterTake(q, i) ==
  IF q.live = 1 THEN NoQueue
  ELSE [q EXCEPT !.ids = SubSeq(@, i + 1, Len(@)), !.live = @ - 1,
                 !.tombstones = @ - (i - 1)]

\* Mutant: the served plugin keeps its place.
NextTurnAgain(n) ==
  IF queues[order[n].plugin].live = 1 THEN Rotated(n) ELSE <<order[n]>> \o Rotated(n)

NextTurn(n) ==
  IF queues[order[n].plugin].live = 1 THEN Rotated(n) ELSE Append(Rotated(n), order[n])

Take ==
  /\ Idle
  /\ \E n \in 1..Len(order) :
     LET p == order[n].plugin
         q == queues[p]
         i == HeadAt(q.ids)
         r == q.ids[i] IN
     /\ FirstUsable(n)
     /\ queues' = [queues EXCEPT ![p] = AfterTake(q, i)]
     /\ order' = NextTurn(n) /\ stale' = stale - StaleBefore(n)
     /\ queuedReq' = queuedReq \ {r} /\ queued' = queued - 1
     /\ active' = active \cup {r} /\ sessActive' = sessActive \cup {r}
     /\ activeBy' = [activeBy EXCEPT ![p] = @ + 1]
     /\ passed' = [x \in Plugin |-> IF x = p \/ ~Ready(x) THEN 0 ELSE passed[x] + 1]
  /\ UNCHANGED <<nextGen, sessPublishing, publishing, control, revoked, recent,
                 shutdown, canceled, leftover, submitted, responses>>

\* A scan that finds nothing usable still drops the stale tokens and rotates;
\* the worker then waits, or ends after a shutdown.
TakeNothing ==
  /\ Idle /\ \A i \in 1..Len(order) : ~Usable(order[i])
  /\ \E i \in 1..Len(order) : ~Valid(queues, order[i])
  /\ order' = SelectSeq(order, LAMBDA t : Valid(queues, t))
  /\ stale' = stale - (Len(order) - Len(order'))
  /\ UNCHANGED <<queues, queuedReq, nextGen, queued, running, control, revoked, recent,
                 shutdown, canceled, leftover, submitted, responses, passed>>

\* begin_completion: whether the response is suppressed is decided here.
Suppressed(r) == ScopeOf[r] \in revoked

BeginCompletion(r) ==
  /\ r \in active
  /\ active' = active \ {r} /\ sessActive' = sessActive \ {r}
  /\ activeBy' = [activeBy EXCEPT ![PluginOf[r]] = @ - 1]
  /\ sessPublishing' = sessPublishing \cup {r}
  /\ publishing' = publishing \cup {r}
  /\ leftover' = IF Suppressed(r) THEN leftover ELSE leftover \cup {r}
  /\ recent' = Remember(recent, r)
  /\ UNCHANGED <<schedule, control, revoked, shutdown, canceled, submitted, responses,
                 passed>>

Send(r) ==
  /\ r \in leftover
  /\ leftover' = leftover \ {r}
  /\ Respond({r})
  /\ UNCHANGED <<schedule, running, control, revoked, recent, shutdown, canceled,
                 submitted, passed>>

EndCompletion(r) ==
  /\ r \in publishing \ leftover
  /\ publishing' = publishing \ {r} /\ sessPublishing' = sessPublishing \ {r}
  /\ UNCHANGED <<schedule, active, activeBy, sessActive, control, revoked, recent,
                 shutdown, canceled, leftover, submitted, responses, passed>>

-----------------------------------------------------------------------------
(* The control channel: SessionRevokeController.contain, which keeps its   *)
(* own mutex from the fencing to the end of the wait.                      *)

Known(c) == records[c].sequence # 0

\* scheduler.revoke_session: fence the scope, drop what it queued, cancel what
\* runs or publishes.  Its queued requests get no response.
RevokeSession(c) ==
  LET gone == OfScope(queuedReq, c)
      hit == {PluginOf[r] : r \in gone}
      Less(p) == [queues[p] EXCEPT
                    !.live = @ - Cardinality(OfPlugin(gone, p)),
                    !.tombstones = @ + Cardinality(OfPlugin(gone, p))] IN
  /\ revoked' = revoked \cup {c}
  /\ queuedReq' = queuedReq \ gone /\ queued' = queued - Cardinality(gone)
  /\ queues' = [p \in Plugin |-> IF p \notin hit THEN queues[p]
                                 ELSE IF Less(p).live = 0 THEN NoQueue ELSE Less(p)]
  /\ CompactOrder(queues', stale + Cardinality({p \in hit : Less(p).live = 0}))
  /\ canceled' = canceled \cup gone \cup OfScope(sessActive \cap active, c)
  /\ \E sq \in SetToSeqs(gone) :
       recent' = FoldSeq(LAMBDA r, acc : Remember(acc, r), recent, sq)

Contain(c, s) ==
  /\ waiting = "none" /\ s > records[c].sequence
  /\ Known(c) \/ Cardinality({x \in Scope : Known(x)}) < MaxScopes
  /\ RevokeSession(c)
  /\ records' = [records EXCEPT ![c] = [sequence |-> s, complete |-> FALSE]]
  /\ waiting' = c
  /\ passed' = Restarted(queues')
  /\ UNCHANGED <<nextGen, running, shutdown, leftover, submitted, responses>>

\* The same sequence again: wait again unless the first wait succeeded.
ContainAgain(c) ==
  /\ waiting = "none" /\ Known(c) /\ ~records[c].complete
  /\ waiting' = c
  /\ UNCHANGED <<schedule, running, records, revoked, recent, shutdown, canceled,
                 leftover, submitted, responses, passed>>

\* Mutant: only running invocations are waited for.
DrainedRunning(c) == OfScope(sessActive, c) = {}

Drained(c) == OfScope(sessActive \cup sessPublishing, c) = {}

\* wait_session_drained returns, and the acknowledgement says complete.
WaitDrained ==
  /\ waiting # "none" /\ Drained(waiting)
  /\ records' = [records EXCEPT ![waiting].complete = TRUE]
  /\ waiting' = "none"
  /\ UNCHANGED <<schedule, running, revoked, recent, shutdown, canceled, leftover,
                 submitted, responses, passed>>

WaitTimesOut ==
  /\ waiting # "none" /\ ~Drained(waiting)
  /\ waiting' = "none"
  /\ UNCHANGED <<schedule, running, records, revoked, recent, shutdown, canceled,
                 leftover, submitted, responses, passed>>

-----------------------------------------------------------------------------
\* The input loop has ended: every queue is dropped and its jobs answered.
Shutdown ==
  /\ ~shutdown /\ shutdown' = TRUE
  /\ queues' = [p \in Plugin |-> NoQueue] /\ order' = <<>> /\ stale' = 0
  /\ leftover' = leftover \cup queuedReq
  /\ canceled' = canceled \cup queuedReq \cup active
  /\ queuedReq' = {} /\ queued' = 0
  /\ sessActive' = {} /\ sessPublishing' = {}
  /\ UNCHANGED <<nextGen, active, activeBy, publishing, control, revoked, recent,
                 submitted, responses, passed>>

Next ==
  \/ \E r \in Req : \/ EnqueueRefused(r) \/ Enqueue(r) \/ CancelQueued(r)
                    \/ CancelRunning(r) \/ BeginCompletion(r) \/ Send(r)
                    \/ EndCompletion(r)
  \/ Take \/ TakeNothing
  \/ \E c \in Scope : ContainAgain(c) \/ \E s \in 1..MaxSequence : Contain(c, s)
  \/ WaitDrained \/ WaitTimesOut \/ Shutdown

Spec == Init /\ [][Next]_vars

\* Worker threads run on: guest code is bounded by its fuel and deadline.
FairSpec ==
  /\ Spec /\ WF_vars(Take) /\ WF_vars(WaitDrained)
  /\ \A r \in Req : WF_vars(BeginCompletion(r)) /\ WF_vars(Send(r)) /\ WF_vars(EndCompletion(r))

-----------------------------------------------------------------------------
(* Properties.                                                             *)

\* The counters the scheduler keeps beside its maps are exact, so none of the
\* expect calls in take, cancel and revoke_session can panic: each queue counts
\* its live entries and tombstones, the order has one valid token per queue, and
\* the stale tokens are the counted ones.
CountersExact ==
  /\ queued = Cardinality(queuedReq)
  /\ stale = Len(SelectSeq(order, LAMBDA t : ~Valid(queues, t)))
  /\ \A p \in Plugin :
       /\ queues[p].live = Cardinality(OfPlugin(queuedReq, p))
       /\ Len(queues[p].ids) = queues[p].live + queues[p].tombstones
       /\ OfPlugin(queuedReq, p) = ToSet(queues[p].ids) \cap queuedReq
       /\ HasQueue(p) <=> queues[p].live > 0
       /\ activeBy[p] = Cardinality(OfPlugin(active, p))
       /\ Len(SelectSeq(order, LAMBDA t : t.plugin = p /\ Valid(queues, t)))
            = IF HasQueue(p) THEN 1 ELSE 0

\* The limits hold whatever is cancelled or revoked meanwhile: the global queue,
\* the running invocations of a plugin, and both together per plugin.
WithinLimits ==
  /\ Cardinality(queuedReq) <= QueueCapacity
  /\ \A p \in Plugin :
       /\ Cardinality(OfPlugin(active, p)) <= PerPluginConcurrency
       /\ Cardinality(OfPlugin(active \cup queuedReq, p)) <= PerPluginCapacity

\* A request is answered at most once, though cancellation, completion,
\* revocation and shutdown race for it.
AnsweredOnce == \A r \in Req : responses[r] <= 1

\* Once handle_session_revoke has acknowledged a scope, nothing of the scope is
\* queued, runs or is about to write a response, as long as the runtime serves.
AcknowledgedScopeIsSilent ==
  \A c \in Scope :
    records[c].complete /\ ~shutdown =>
      OfScope(queuedReq \cup active \cup publishing \cup leftover, c) = {}

\* Round robin: a plugin that could run something is passed over at most once by
\* each other plugin before take serves it.
BoundedBypass == \A p \in Plugin : passed[p] <= Cardinality(Plugin) - 1

\* The session of a request was revoked, which ends the request without an answer.
Abandoned(r) == ScopeOf[r] \in revoked

=============================================================================
