-------------------------- MODULE ProcessSupervisor --------------------------
(***************************************************************************)
(* Local processes of plugins (pkg/process/supervisor.go): starting one for  *)
(* a client key, the goroutine that waits for it, its bounded output buffer, *)
(* and the ways it is ended: by the owner, by a revocation of the owner or   *)
(* of the plugin, and by the supervisor's shutdown.  A process is named by   *)
(* the Start call that launched it; each owner uses one client key.          *)
(***************************************************************************)
EXTENDS Integers, Sequences, FiniteSets

CONSTANTS
  Starts,        \* calls of Start
  Closers,       \* calls of Close, Revoke, RevokePlugin and Shutdown
  Owners,        \* owners of one plugin in one environment
  Base,          \* names in Options.BaseEnvironment
  Requests,      \* launches: names set, removed and bound to secrets
  Ways,          \* the closing calls made
  Limit,         \* output_buffer_bytes
  MaxOutput,     \* bytes a process writes
  Nil

VARIABLES
  start, proc,
  sessions,      \* Supervisor.sessions
  clients,       \* Supervisor.clients: owner -> process
  starting,      \* Supervisor.starting: owner -> the Start that holds the reservation
  revoked, revokedPlugin, closed,
  closer,
  fenced,        \* what a revocation that returned covers
  out,           \* the output buffer of a process
  reader         \* the owner's reading of it

vars == <<start, proc, sessions, clients, starting, revoked, revokedPlugin, closed, closer, fenced, out, reader>>

NoProcess == [at |-> "none", alive |-> FALSE, owner |-> Nil, request |-> Nil, env |-> {}, reason |-> "", exit |-> Nil]
NoStart == [at |-> "idle", owner |-> Nil, request |-> Nil, on |-> Nil, told |-> Nil]
NoCloser == [at |-> "idle", way |-> Nil, owner |-> Nil, left |-> {}, cur |-> Nil, failed |-> FALSE]

Init ==
  /\ start = [s \in Starts |-> NoStart] /\ proc = [s \in Starts |-> NoProcess]
  /\ sessions = {} /\ clients = [o \in Owners |-> Nil] /\ starting = [o \in Owners |-> Nil]
  /\ revoked = {} /\ revokedPlugin = FALSE /\ closed = FALSE
  /\ closer = [c \in Closers |-> NoCloser] /\ fenced = {}
  /\ out = [s \in Starts |-> [data |-> <<>>, start |-> 0, cursor |-> 0, closed |-> FALSE]]
  /\ reader = [s \in Starts |-> [cursor |-> 0, got |-> 0, dropped |-> 0, last |-> <<>>, eof |-> FALSE]]

Tables == <<sessions, clients, starting, revoked, revokedPlugin, closed>>
Output == <<out, reader>>
isRevokedLocked(o) == o \in revoked \/ revokedPlugin
Exited(p) == proc[p].at = "exited"

TypeOK ==
  /\ sessions \subseteq Starts /\ revoked \subseteq Owners
  /\ clients \in [Owners -> Starts \cup {Nil}] /\ starting \in [Owners -> Starts \cup {Nil}]
  /\ \A s \in Starts : proc[s].at \in {"none", "new", "waiting", "timedOut", "ended", "exited"}
  /\ \A s \in Starts : Len(out[s].data) <= Limit

-----------------------------------------------------------------------------
(* Start. *)

\* Names are compared as normalizeEnvironmentKey leaves them.
validateStart(r) == r.secrets \cap (r.env \cup r.removals) = {}

\* A name may come from one place only, and a removed one may not come back.
Permitted(r) ==
  /\ r.env \cap (Base \ r.removals) = {} /\ r.env \cap r.removals = {}
  /\ r.secrets \cap (Base \ r.removals) = {}
childEnvironment(r) == (Base \ r.removals) \cup r.env \cup r.secrets

Told(s, t) == start' = [start EXCEPT ![s] = [@ EXCEPT !.at = "over", !.told = t]]
Running(p) == [kind |-> "running", of |-> p]
Refusal == [kind |-> "refused", of |-> Nil]

Start(s, o, r) ==
  /\ start[s].at = "idle"
  /\ start' = [start EXCEPT ![s] = [@ EXCEPT !.owner = o, !.request = r, !.at = IF validateStart(r) THEN "reserve" ELSE "over",
                                             !.told = IF validateStart(r) THEN Nil ELSE Refusal]]
  /\ UNCHANGED <<proc, Tables, closer, fenced, Output>>

\* Mutant of reserve: a launch in progress is not looked for.
reserveAlone(s) ==
  LET o == start[s].owner IN
  /\ start[s].at = "reserve" /\ ~closed /\ ~isRevokedLocked(o) /\ clients[o] = Nil
  /\ starting' = [starting EXCEPT ![o] = s] /\ start' = [start EXCEPT ![s].at = "launch"]
  /\ UNCHANGED <<proc, sessions, clients, revoked, revokedPlugin, closed, closer, fenced, Output>>

\* One pass of the loop, under the supervisor's mutex.
reserve(s) ==
  LET o == start[s].owner  h == clients[o]  r == start[s].request IN
  /\ start[s].at = "reserve"
  /\ IF closed \/ isRevokedLocked(o) THEN Told(s, Refusal) /\ UNCHANGED <<sessions, clients, starting>>
     ELSE IF h # Nil /\ h \in sessions /\ ~Exited(h)
     THEN /\ Told(s, IF proc[h].request = r THEN Running(h) ELSE Refusal)
          /\ UNCHANGED <<sessions, clients, starting>>
     ELSE IF h # Nil /\ h \in sessions
     THEN /\ sessions' = sessions \ {h} /\ clients' = [clients EXCEPT ![o] = Nil]
          /\ UNCHANGED <<start, starting>>
     ELSE /\ clients' = [clients EXCEPT ![o] = Nil] /\ UNCHANGED sessions
          /\ IF starting[o] # Nil
             THEN /\ UNCHANGED starting
                  /\ IF start[starting[o]].request # r THEN Told(s, Refusal)
                     ELSE start' = [start EXCEPT ![s].at = "wait", ![s].on = starting[o]]
             ELSE /\ starting' = [starting EXCEPT ![o] = s]
                  /\ start' = [start EXCEPT ![s].at = "launch"]
  /\ UNCHANGED <<proc, revoked, revokedPlugin, closed, closer, fenced, Output>>

\* The reservation's answer, or the caller's context ends first.
Follow(s) ==
  /\ start[s].at = "wait"
  /\ \/ start[start[s].on].at = "over" /\ Told(s, start[start[s].on].told)
     \/ Told(s, Refusal)
  /\ UNCHANGED <<proc, Tables, closer, fenced, Output>>

Finish(s, t) ==
  /\ starting' = [starting EXCEPT ![start[s].owner] = Nil]
  /\ Told(s, t)

\* The environment is built, secrets resolved, the command started and its tree
\* attached; any of them may fail, the last one leaving a process to clean up.
Launch(s) ==
  LET r == start[s].request IN
  /\ start[s].at = "launch"
  /\ \/ Finish(s, Refusal) /\ UNCHANGED proc
     \/ /\ Permitted(r)
        /\ proc' = [proc EXCEPT ![s] = [NoProcess EXCEPT !.at = "new", !.alive = TRUE, !.owner = start[s].owner,
                                                         !.request = r, !.env = childEnvironment(r)]]
        /\ \E step \in {"register", "cleanup"} : start' = [start EXCEPT ![s].at = step]
        /\ UNCHANGED starting
  /\ UNCHANGED <<sessions, clients, revoked, revokedPlugin, closed, closer, fenced, Output>>

Register(s) ==
  /\ start[s].at = "register"
  /\ IF closed \/ isRevokedLocked(start[s].owner)
     THEN start' = [start EXCEPT ![s].at = "cleanup"] /\ UNCHANGED <<sessions, clients>>
     ELSE /\ sessions' = sessions \cup {s} /\ clients' = [clients EXCEPT ![start[s].owner] = s]
          /\ start' = [start EXCEPT ![s].at = "finish"]
  /\ UNCHANGED <<proc, starting, revoked, revokedPlugin, closed, closer, fenced, Output>>

cleanupStartedProcess(s) ==
  /\ start[s].at = "cleanup"
  /\ proc' = [proc EXCEPT ![s].alive = FALSE, ![s].at = "exited"]
  /\ Finish(s, Refusal)
  /\ UNCHANGED <<sessions, clients, revoked, revokedPlugin, closed, closer, fenced, Output>>

\* The reservation is answered; then the wait goroutine begins.
Started(s) ==
  /\ start[s].at = "finish"
  /\ Finish(s, Running(s))
  /\ proc' = [proc EXCEPT ![s].at = "waiting"]
  /\ UNCHANGED <<sessions, clients, revoked, revokedPlugin, closed, closer, fenced, Output>>

-----------------------------------------------------------------------------
(* The process, and the goroutine that waits for it. *)

Unsignalled == <<start, Tables, closer, fenced, Output>>

Dies(p) == proc[p].alive /\ proc' = [proc EXCEPT ![p].alive = FALSE] /\ UNCHANGED Unsignalled

setExit(p, reason) == IF reason # "" THEN reason ELSE IF proc[p].reason = "" THEN "exited" ELSE proc[p].reason

Reaped(p) ==
  /\ proc[p].at \in {"waiting", "timedOut"} /\ ~proc[p].alive
  /\ proc' = [proc EXCEPT ![p].at = "ended", ![p].exit = IF proc[p].at = "waiting" THEN setExit(p, "") ELSE @]
  /\ UNCHANGED Unsignalled

TimedOut(p) ==
  /\ proc[p].at = "waiting"
  /\ proc' = [proc EXCEPT ![p].at = "timedOut", ![p].exit = setExit(p, "timeout"), ![p].alive = FALSE]
  /\ UNCHANGED Unsignalled

\* The buffers are closed before the state says exited.
wait(p) ==
  /\ proc[p].at = "ended"
  /\ \/ ~out[p].closed /\ out' = [out EXCEPT ![p].closed = TRUE] /\ UNCHANGED proc
     \/ out[p].closed /\ proc' = [proc EXCEPT ![p].at = "exited"] /\ UNCHANGED out
  /\ UNCHANGED <<start, Tables, closer, fenced, reader>>

Usable(o, p) == p \in sessions /\ proc[p].owner = o /\ ~isRevokedLocked(o)

\* A process may ignore the first signal.
Terminate(p) ==
  /\ Usable(proc[p].owner, p)
  /\ \E dies \in BOOLEAN : proc' = [proc EXCEPT ![p].reason = "terminated", ![p].alive = @ /\ ~dies]
  /\ UNCHANGED Unsignalled

Kill(p) ==
  /\ Usable(proc[p].owner, p)
  /\ proc' = [proc EXCEPT ![p].reason = "killed", ![p].alive = FALSE]
  /\ UNCHANGED Unsignalled

-----------------------------------------------------------------------------
(* Its output.  Bytes are numbered; Wait returns after the pipes are drained. *)

Numbered(from, n) == [i \in 1..n |-> from + i]

\* Mutant of append: the start of the buffer does not move with the bytes dropped.
appendUnmoved(p, n) ==
  LET all == out[p].data \o Numbered(out[p].cursor, n)
      dropped == IF Len(all) > Limit THEN Len(all) - Limit ELSE 0
  IN  out' = [out EXCEPT ![p].data = SubSeq(all, dropped + 1, Len(all)), ![p].cursor = @ + n]

append(p, n) ==
  LET all == out[p].data \o Numbered(out[p].cursor, n)
      dropped == IF Len(all) > Limit THEN Len(all) - Limit ELSE 0
  IN  out' = [out EXCEPT ![p].data = SubSeq(all, dropped + 1, Len(all)), ![p].cursor = @ + n, ![p].start = @ + dropped]

Write(p) ==
  /\ proc[p].at \in {"new", "waiting", "timedOut"}
  /\ \E n \in 1..(MaxOutput - out[p].cursor) : append(p, n)
  /\ UNCHANGED <<start, proc, Tables, closer, fenced, reader>>

\* The owner goes on from the cursor it was given, at most n bytes at a time.
\* After a gap the end is reported with the state alone.
Read(p, n) ==
  LET b == out[p]  r == reader[p]  over == b.closed /\ Exited(p)
      gap == r.cursor < b.start
      offset == IF gap THEN 0 ELSE r.cursor - b.start
      least == IF offset + n > Len(b.data) THEN Len(b.data) ELSE offset + n
      data == SubSeq(b.data, offset + 1, least)
      next == (IF gap THEN b.start ELSE r.cursor) + Len(data)
  IN
  /\ Usable(proc[p].owner, p) /\ ~r.eof
  /\ reader' = [reader EXCEPT ![p] =
       [cursor |-> next, got |-> r.got + Len(data), dropped |-> r.dropped + (IF gap THEN b.start - r.cursor ELSE 0),
        last |-> data, eof |-> over /\ (gap \/ next >= b.cursor)]]
  /\ UNCHANGED <<start, proc, Tables, closer, fenced, out>>

-----------------------------------------------------------------------------
(* Closing. *)

Closing(c, way, o, left) ==
  /\ closer[c].at = "idle" /\ way \in Ways
  /\ closer' = [closer EXCEPT ![c] = [NoCloser EXCEPT !.at = "next", !.way = way, !.owner = o, !.left = left]]

Close(c, p) ==
  /\ Usable(proc[p].owner, p) /\ Closing(c, "Close", proc[p].owner, {p})
  /\ UNCHANGED <<start, proc, Tables, fenced, Output>>

Revoke(c, o) ==
  /\ Closing(c, "Revoke", o, {p \in sessions : proc[p].owner = o})
  /\ revoked' = revoked \cup {o}
  /\ UNCHANGED <<start, proc, sessions, clients, starting, revokedPlugin, closed, fenced, Output>>

RevokePlugin(c) ==
  /\ Closing(c, "RevokePlugin", Nil, sessions)
  /\ revokedPlugin' = TRUE
  /\ UNCHANGED <<start, proc, sessions, clients, starting, revoked, closed, fenced, Output>>

\* A second Shutdown returns at once.
Shutdown(c) ==
  /\ ~closed /\ Closing(c, "Shutdown", Nil, sessions)
  /\ closed' = TRUE
  /\ UNCHANGED <<start, proc, sessions, clients, starting, revoked, revokedPlugin, fenced, Output>>

RestorePlugin ==
  /\ ~closed /\ revokedPlugin /\ revokedPlugin' = FALSE
  /\ fenced' = fenced \ {"plugin"}
  /\ UNCHANGED <<start, proc, sessions, clients, starting, revoked, closed, closer, Output>>

Covered(c) == CASE closer[c].way = "Revoke" -> {closer[c].owner}
                [] closer[c].way = "RevokePlugin" -> {"plugin"} \cap (IF revokedPlugin THEN {"plugin"} ELSE {})
                [] closer[c].way = "Shutdown" -> {"all"}
                [] OTHER -> {}

\* closeSession: the reason and the first signal.
Signal(c) ==
  /\ closer[c].at = "next"
  /\ IF closer[c].left = {}
     THEN /\ closer' = [closer EXCEPT ![c] = [NoCloser EXCEPT !.at = "over"]]
          /\ fenced' = fenced \cup Covered(c) /\ UNCHANGED proc
     ELSE \E p \in closer[c].left, dies \in BOOLEAN :
          /\ proc' = [proc EXCEPT ![p].reason = IF Exited(p) THEN @ ELSE "closed", ![p].alive = @ /\ ~dies]
          /\ closer' = [closer EXCEPT ![c].at = "grace", ![c].cur = p, ![c].left = @ \ {p}]
          /\ UNCHANGED fenced
  /\ UNCHANGED <<start, Tables, Output>>

\* The process is done, the grace period is over, or the caller's context ends.
closeSession(c) ==
  LET p == closer[c].cur IN
  /\ \/ closer[c].at \in {"grace", "killed"} /\ Exited(p)
        /\ closer' = [closer EXCEPT ![c].at = "remove"] /\ UNCHANGED proc
     \/ closer[c].at = "grace"
        /\ \E failed \in BOOLEAN : closer' = [closer EXCEPT ![c].at = "killed", ![c].failed = failed]
        /\ proc' = [proc EXCEPT ![p].alive = FALSE]
  /\ UNCHANGED <<start, Tables, fenced, Output>>

\* Close keeps the session when its context ended; the others remove it anyway.
removeSession(c) ==
  LET p == closer[c].cur IN
  /\ closer[c].at = "remove"
  /\ IF p \in sessions /\ ~(closer[c].way = "Close" /\ closer[c].failed)
     THEN /\ sessions' = sessions \ {p}
          /\ clients' = [o \in Owners |-> IF clients[o] = p THEN Nil ELSE clients[o]]
     ELSE UNCHANGED <<sessions, clients>>
  /\ closer' = [closer EXCEPT ![c].at = "next", ![c].cur = Nil]
  /\ UNCHANGED <<start, proc, starting, revoked, revokedPlugin, closed, fenced, Output>>

Next ==
  \/ \E s \in Starts : \/ \E o \in Owners, r \in Requests : Start(s, o, r)
                       \/ reserve(s) \/ Follow(s) \/ Launch(s) \/ Register(s) \/ cleanupStartedProcess(s) \/ Started(s)
                       \/ Dies(s) \/ Reaped(s) \/ TimedOut(s) \/ wait(s) \/ Terminate(s) \/ Kill(s) \/ Write(s)
                       \/ \E n \in 1..MaxOutput : Read(s, n)
  \/ \E c \in Closers : \/ \E p \in Starts : Close(c, p)
                        \/ \E o \in Owners : Revoke(c, o)
                        \/ RevokePlugin(c) \/ Shutdown(c) \/ Signal(c) \/ closeSession(c) \/ removeSession(c)
  \/ RestorePlugin

Spec == Init /\ [][Next]_vars

-----------------------------------------------------------------------------
(* A revocation or a shutdown that has returned covers every process: none is  *)
(* registered, and one that still lives belongs to a Start that has not         *)
(* returned and will clean it up (the second look in Start).                    *)
RevokedOwnsNothing ==
  \A p \in Starts :
    "all" \in fenced \/ "plugin" \in fenced \/ proc[p].owner \in fenced =>
      p \notin sessions /\ (proc[p].alive => start[p].at \in {"register", "cleanup"})

(* However many Starts race for a client key, at most one of its processes      *)
(* lives, every caller told "running" got a process of its own owner that runs  *)
(* exactly the launch it asked for, and each name of the child's environment    *)
(* comes from one place.                                                        *)
OneProcessPerClient ==
  /\ \A p, q \in Starts : proc[p].alive /\ proc[q].alive /\ proc[p].owner = proc[q].owner => p = q
  /\ \A s \in Starts : start[s].told # Nil /\ start[s].told.kind = "running" =>
       LET p == start[s].told.of IN
       /\ proc[p].owner = start[s].owner /\ proc[p].request = start[s].request
       /\ proc[p].request.removals \cap proc[p].env = {}

(* A reader that follows the cursor is given every byte once and in order, or   *)
(* told how many are gone; the end is reported only when nothing is left,       *)
(* unless that very read followed a gap.                                        *)
ReadsExact ==
  \A p \in Starts : LET r == reader[p] IN
    /\ r.cursor = r.got + r.dropped
    /\ r.last = Numbered(r.cursor - Len(r.last), Len(r.last))
    /\ r.eof => r.cursor = out[p].cursor \/ r.dropped > 0

=============================================================================
