--------------------------- MODULE SurfaceMethods ---------------------------
(***************************************************************************)
(* Methods that an open surface implements (pkg/host/surface_methods.go).   *)
(* The application registers a receiver for its surface, claims invocations *)
(* one at a time with long polls and completes them; the Host's invokers     *)
(* queue an invocation on the receiver, wake a poll and wait for the result  *)
(* or the end of their context.  Receivers are replaced, reconfigured and    *)
(* closed, and surfaces end, at any moment.                                  *)
(***************************************************************************)
EXTENDS Integers, FiniteSets, Sequences, SequencesExt

CONSTANTS
  Surfaces,       \* surfaces that declare the methods, of one owner
  Methods, Invokers, Polls,
  MaxReceivers,   \* receivers ever registered
  MaxCalls,       \* maxSurfaceMethodCalls
  Nil

VARIABLES
  live,           \* the surfaces whose web binding has not ended
  current,        \* surface -> the number of its receiver, 0 for none
  receivers,      \* the receivers ever registered, in order
  inv,            \* the invocation of each invoker
  poll,           \* the claim request of each poll
  handed          \* how often an invocation was given to the application

vars == <<live, current, receivers, inv, poll, handed>>

NewReceiver(s, methods) ==
  [surface |-> s, methods |-> methods, closed |-> FALSE, calls |-> {}, queue |-> <<>>, wake |-> FALSE]
NewCall == [at |-> "idle", to |-> 0, method |-> Nil, claimed |-> FALSE, ended |-> FALSE, result |-> Nil, told |-> Nil]

Init ==
  /\ live = Surfaces /\ current = [s \in Surfaces |-> 0] /\ receivers = <<>>
  /\ inv = [i \in Invokers |-> NewCall]
  /\ poll = [p \in Polls |-> [at |-> "idle", of |-> 0, active |-> {}]]
  /\ handed = [i \in Invokers |-> 0]

\* receiver.ctx ends with the receiver and with the surface's binding.
Over(r) == receivers[r].closed \/ receivers[r].surface \notin live
Open(r) == r # 0 /\ ~Over(r)

\* A registration names the receiver it replaces and closes it.
Register(s, r, methods) ==
  /\ s \in live /\ Len(receivers) < MaxReceivers /\ current[s] = r
  /\ receivers' = Append(IF r = 0 THEN receivers ELSE [receivers EXCEPT ![r].closed = TRUE],
                         NewReceiver(s, methods))
  /\ current' = [current EXCEPT ![s] = Len(receivers) + 1]
  /\ UNCHANGED <<live, inv, poll, handed>>

\* The request has found its receiver when it takes the receiver's mutex, and
\* the receiver may have been replaced since.
Known(r) == r \in DOMAIN receivers

\* Mutant of Configure: calls the application has claimed are answered too.
ConfigureAll(r, methods) ==
  /\ Known(r) /\ Open(r)
  /\ LET dropped == {i \in receivers[r].calls : inv[i].method \notin methods} IN
     /\ receivers' = [receivers EXCEPT ![r].methods = methods, ![r].calls = @ \ dropped]
     /\ inv' = [i \in Invokers |-> IF i \in dropped THEN [inv[i] EXCEPT !.result = "refused"] ELSE inv[i]]
  /\ UNCHANGED <<live, current, poll, handed>>

\* Unclaimed calls of methods that are no longer offered are answered.
Configure(r, methods) ==
  /\ Known(r) /\ Open(r)
  /\ LET dropped == {i \in receivers[r].calls : ~inv[i].claimed /\ inv[i].method \notin methods} IN
     /\ receivers' = [receivers EXCEPT ![r].methods = methods, ![r].calls = @ \ dropped]
     /\ inv' = [i \in Invokers |-> IF i \in dropped THEN [inv[i] EXCEPT !.result = "refused"] ELSE inv[i]]
  /\ UNCHANGED <<live, current, poll, handed>>

CloseReceiver(r) ==
  /\ Known(r) /\ ~receivers[r].closed
  /\ receivers' = [receivers EXCEPT ![r].closed = TRUE]
  /\ UNCHANGED <<live, current, inv, poll, handed>>

\* Only a claimed call whose invoker still waits can be completed.
Complete(r, i, outcome) ==
  /\ Known(r) /\ Open(r)
  /\ i \in receivers[r].calls /\ inv[i].claimed /\ ~inv[i].ended
  /\ receivers' = [receivers EXCEPT ![r].calls = @ \ {i}]
  /\ inv' = [inv EXCEPT ![i].result = outcome]
  /\ UNCHANGED <<live, current, poll, handed>>

\* The application lists the invocations it has been handed, or some of them.
ClaimBegin(p, r, active) ==
  /\ poll[p].at = "idle" /\ Known(r)
  /\ active \subseteq {i \in Invokers : handed[i] > 0 /\ inv[i].to = r /\ inv[i].told = Nil}
  /\ poll' = [poll EXCEPT ![p] = [at |-> "look", of |-> r, active |-> active]]
  /\ UNCHANGED <<live, current, receivers, inv, handed>>

\* One pass under the receiver's mutex: the queue is drained up to the first
\* call that can still be handed out.
ClaimLook(p) ==
  /\ poll[p].at = "look"
  /\ LET r == poll[p].of
         rec == receivers[r]
         good == {k \in DOMAIN rec.queue : LET i == rec.queue[k] IN
                    i \in rec.calls /\ ~inv[i].ended /\ ~inv[i].claimed}
         first == CHOOSE k \in good : \A j \in good : k <= j
         cancelled == {i \in poll[p].active : i \notin rec.calls \/ inv[i].ended} IN
     IF Over(r) THEN /\ poll' = [poll EXCEPT ![p].at = "idle"]
                     /\ UNCHANGED <<receivers, inv, handed>>
     ELSE IF good = {}
     THEN /\ receivers' = [receivers EXCEPT ![r].queue = <<>>]
          /\ poll' = [poll EXCEPT ![p].at = IF cancelled = {} THEN "wait" ELSE "idle"]
          /\ UNCHANGED <<inv, handed>>
     ELSE /\ receivers' = [receivers EXCEPT ![r].queue = SubSeq(@, first + 1, Len(@))]
          /\ inv' = [inv EXCEPT ![rec.queue[first]].claimed = TRUE]
          /\ handed' = [handed EXCEPT ![rec.queue[first]] = @ + 1]
          /\ poll' = [poll EXCEPT ![p].at = "idle"]
  /\ UNCHANGED <<live, current>>

\* The select of a poll: a wake, or its timer or its receiver's end; the end of
\* its context is noticed in the select and before each pass.
ClaimWoken(p) ==
  /\ poll[p].at = "wait" /\ receivers[poll[p].of].wake
  /\ receivers' = [receivers EXCEPT ![poll[p].of].wake = FALSE]
  /\ poll' = [poll EXCEPT ![p].at = "look"]
  /\ UNCHANGED <<live, current, inv, handed>>
ClaimGivesUp(p) ==
  /\ poll[p].at \in {"look", "wait"}
  /\ poll' = [poll EXCEPT ![p].at = "idle"]
  /\ UNCHANGED <<live, current, receivers, inv, handed>>

(* Invokers. *)

\* Exactly one open surface must offer the method; an explicit surface narrows
\* the choice.
resolveSurfaceMethodTarget(i, m, among) ==
  /\ inv[i].at = "idle"
  /\ LET matches == {s \in among \cap live : Open(current[s]) /\ m \in receivers[current[s]].methods} IN
     inv' = [inv EXCEPT ![i] = IF Cardinality(matches) = 1
                               THEN [NewCall EXCEPT !.at = "start", !.method = m, !.to = current[CHOOSE s \in matches : TRUE]]
                               ELSE [NewCall EXCEPT !.at = "done", !.method = m, !.told = "unavailable"]]
  /\ UNCHANGED <<live, current, receivers, poll, handed>>

\* startMethodExecution has run; the receiver is looked at again.
Enqueue(i) ==
  /\ inv[i].at = "start"
  /\ LET r == inv[i].to IN
     IF Over(r) \/ inv[i].method \notin receivers[r].methods \/ Cardinality(receivers[r].calls) >= MaxCalls
     THEN /\ inv' = [inv EXCEPT ![i].at = "done", ![i].told = "unavailable"]
          /\ UNCHANGED receivers
     ELSE /\ receivers' = [receivers EXCEPT ![r].calls = @ \cup {i}, ![r].queue = Append(@, i)]
          /\ inv' = [inv EXCEPT ![i].at = "wake"]
  /\ UNCHANGED <<live, current, poll, handed>>

\* Mutant of Wake: the poll is left to its idle timer.
WakeNot(i) ==
  /\ inv[i].at = "wake"
  /\ inv' = [inv EXCEPT ![i].at = "wait"]
  /\ UNCHANGED <<live, current, receivers, poll, handed>>

Wake(i) ==
  /\ inv[i].at = "wake"
  /\ receivers' = [receivers EXCEPT ![inv[i].to].wake = TRUE]
  /\ inv' = [inv EXCEPT ![i].at = "wait"]
  /\ UNCHANGED <<live, current, poll, handed>>

TakeResult(i) ==
  /\ inv[i].at = "wait" /\ inv[i].result # Nil
  /\ inv' = [inv EXCEPT ![i].at = "leave",
                        ![i].told = IF inv[i].result = "refused" THEN "notCommitted" ELSE inv[i].result]
  /\ UNCHANGED <<live, current, receivers, poll, handed>>

\* What the invoker learns depends on whether the call was claimed, read under
\* the mutex that deletes it; a poll may have the call in its active set.
ContextDone(i) ==
  /\ inv[i].at = "wait" /\ inv[i].ended
  /\ inv' = [inv EXCEPT ![i].at = "leave", ![i].told = IF inv[i].claimed THEN "unknown" ELSE "notCommitted"]
  /\ receivers' = [receivers EXCEPT ![inv[i].to].calls = @ \ {i}, ![inv[i].to].wake = TRUE]
  /\ UNCHANGED <<live, current, poll, handed>>

Leave(i) ==
  /\ inv[i].at = "leave"
  /\ inv' = [inv EXCEPT ![i].at = "done"]
  /\ receivers' = [receivers EXCEPT ![inv[i].to].calls = @ \ {i},
                                    ![inv[i].to].queue = SelectSeq(@, LAMBDA x : x # i)]
  /\ UNCHANGED <<live, current, poll, handed>>

\* The deadline, the execution's cancellation, or the receiver's end.
EndContext(i) ==
  /\ inv[i].at \in {"start", "wake", "wait", "leave"} /\ ~inv[i].ended
  /\ inv' = [inv EXCEPT ![i].ended = TRUE]
  /\ UNCHANGED <<live, current, receivers, poll, handed>>

SurfaceEnds(s) == live' = live \ {s} /\ s \in live /\ UNCHANGED <<current, receivers, inv, poll, handed>>

Next ==
  \/ \E s \in Surfaces : SurfaceEnds(s) \/ \E ms \in SUBSET Methods : Register(s, current[s], ms)
  \/ \E r \in 1..MaxReceivers :
       \/ \E ms \in SUBSET Methods : Configure(r, ms)
       \/ CloseReceiver(r)
       \/ \E i \in Invokers, o \in {"value", "failed"} : Complete(r, i, o)
       \/ \E p \in Polls, a \in SUBSET Invokers : ClaimBegin(p, r, a)
  \/ \E p \in Polls : ClaimLook(p) \/ ClaimWoken(p) \/ ClaimGivesUp(p)
  \/ \E i \in Invokers :
       \/ \E m \in Methods, among \in {Surfaces} \cup {{s} : s \in Surfaces} : resolveSurfaceMethodTarget(i, m, among)
       \/ Enqueue(i) \/ Wake(i) \/ TakeResult(i) \/ ContextDone(i) \/ Leave(i) \/ EndContext(i)

Spec == Init /\ [][Next]_vars

\* An invocation is handed to the application at most once, and the answer of
\* the invoker is true: one told "not committed" was never handed out and never
\* will be, one told a result got it from the application; and a returned
\* invoker has left no call or queue entry behind (invokeSurfaceMethod,
\* SurfaceMethods).
OutcomesTrue ==
  \A i \in Invokers :
    /\ handed[i] <= 1
    /\ inv[i].told \in {"notCommitted", "unavailable"} => handed[i] = 0
    /\ inv[i].told \in {"value", "failed"} => handed[i] = 1
    /\ inv[i].at = "done" => \A r \in DOMAIN receivers :
         i \notin receivers[r].calls /\ ~Contains(receivers[r].queue, i)

\* With one poll at a time, as the SDK's loop has, a call in the queue of an
\* open receiver that can be handed out never waits for the idle timer of the
\* poll: the wake channel holds a token or the invoker is about to send one.
QueuedCallWakes ==
  Cardinality(Polls) = 1 => \A p \in Polls : poll[p].at = "wait" /\ Open(poll[p].of) =>
    LET r == poll[p].of IN
    \A i \in receivers[r].calls : Contains(receivers[r].queue, i) /\ ~inv[i].ended /\ ~inv[i].claimed =>
      receivers[r].wake \/ inv[i].at = "wake"
=============================================================================
