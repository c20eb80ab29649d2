----------------------------- MODULE MCHostWork -----------------------------
(***************************************************************************)
(* The work a Host has under way, on small instances.  focus says what a   *)
(* behaviour exercises, and the constant Focus which of these a            *)
(* configuration does.  In the others the session of SessionTeardown is    *)
(* untouched, and the variables of the other parts are 0:                  *)
(*   teardown      the teardown and finalisation of a session that starts  *)
(*                 two executions and holds one resource of each other     *)
(*                 class (SessionTeardown);                                *)
(*   operation     one operation with a duration quota that its caller may *)
(*                 abandon, with a store failure, a revocation, a crash    *)
(*                 (ExecutionLeases);                                      *)
(*   subscription  the same for a subscription;                            *)
(*   pair          a synchronous call and an operation share a quota of    *)
(*                 one while the plugin is revoked;                        *)
(*   rollback      an operation whose completion fails in the store and a  *)
(*                 synchronous call that rolls it back;                    *)
(*   cancel        one operation nobody abandons, for the cancellation;    *)
(*   background    two Starts, a Stop and a Shutdown of one worker         *)
(*                 (BackgroundManager);                                    *)
(*   intervals     one interval plan over two revisions, two claims and    *)
(*                 restarts (BackgroundIntervals);                         *)
(*   mutations     each management operation with each step failing        *)
(*                 (HostOperations);                                       *)
(*   audit         a journal of two entries and three events               *)
(*                 (AuditJournal);                                         *)
(*   resources     one connection and one selected file                    *)
(*                 (ReviewedResources);                                    *)
(*   runtime_io    one invocation, two operations, two handles             *)
(*                 (RuntimeIO);                                            *)
(*   access        each kind of access of a worker (RuntimeAccess);        *)
(*   processes     two starts of one client and a closer, and              *)
(*   output        the output of one process (ProcessSupervisor);          *)
(*   pools         two HTTP requests and two pools, crowded two of two     *)
(*                 scopes and one pool, requests each kind of request with *)
(*                 each body, limiter two rate buckets (Connectivity).     *)
(***************************************************************************)
EXTENDS TLC, SessionTeardown

CONSTANTS Focus, x1, x2, s1, s2, t1, NoOne

VARIABLES
  focus,
  epc, bound, lease, cancelled, sink, intent, committed, returned, pending, active,
  readers, term, timer, adapter, canceller, row, log, epoch, revoker, host, faults,
  downs, told, hit,
  bSession, starting, closed, entry, state, watch, bpc, held, attempt, result, down,
  orphaned,
  op, next, stage, label, opCommitted, satisfied, journal, opTold, slip,
  table, ring, seq, open, exporter, auditSink, appended, ended, up,
  record, revoking, conn, reviews, approvals, leases, fileReviews, picking,
  rows, objects, opened, resSession, resClosed,
  inv, stopped, res, ioEntry, ioOp, drain, ioPending, shut, lost,
  accessInv, reg, handle, did, said, net,
  start, proc, sessions, clients, procStarting, revoked, revokedPlugin,
  procClosed, closer, fenced, out, reader,
  now, policy, req, pool, netSeq, netClosed, closeDone, windows, expirations,
  version, netSent,
  intervalNow, intervalHost, intervalRecord, intervalRevoking, intervalPlan, tick,
  running, run, intervalLost, missed

eVars == <<epc, bound, lease, cancelled, sink, intent, committed, returned, pending,
           active, readers, term, timer, adapter, canceller, row, log, epoch, revoker,
           host, faults, downs, told, hit>>
bVars == <<bSession, starting, closed, entry, state, watch, bpc, held, attempt, result,
           down, orphaned>>
oVars == <<op, next, stage, label, opCommitted, satisfied, journal, opTold, slip>>
jVars == <<table, ring, seq, open, exporter, auditSink, appended, ended, up>>
rVars == <<record, revoking, conn, reviews, approvals, leases, fileReviews,
           picking, rows, objects, opened, resSession, resClosed>>
ioVars == <<inv, stopped, res, ioEntry, ioOp, drain, ioPending, shut, lost>>
aVars == <<accessInv, reg, handle, did, said, net>>
pVars == <<start, proc, sessions, clients, procStarting, revoked,
           revokedPlugin, procClosed, closer, fenced, out, reader>>
cVars == <<now, policy, req, pool, netSeq, netClosed, closeDone, windows,
           expirations, version, netSent>>
iVars == <<intervalNow, intervalHost, intervalRecord, intervalRevoking, intervalPlan,
           tick, running, run, intervalLost, missed>>

Operation == INSTANCE ExecutionLeases
  WITH Exec <- {x1}, Kind <- x1 :> "operation", CompleteOnReturn <- {x1}, Timed <- {x1},
       Abandonable <- {x1}, MaxConcurrent <- 1, MaxEpoch <- 1, MaxEvents <- 0,
       MaxFaults <- 1, MaxDowns <- 1, pc <- epc
Subscription == INSTANCE ExecutionLeases
  WITH Exec <- {x1}, Kind <- x1 :> "subscription", CompleteOnReturn <- {}, Timed <- {x1},
       Abandonable <- {x1}, MaxConcurrent <- 1, MaxEpoch <- 1, MaxEvents <- 1,
       MaxFaults <- 1, MaxDowns <- 0, pc <- epc
Pair == INSTANCE ExecutionLeases
  WITH Exec <- {x1, x2}, Kind <- (x1 :> "sync" @@ x2 :> "operation"),
       CompleteOnReturn <- {x2}, Timed <- {}, Abandonable <- {}, MaxConcurrent <- 1,
       MaxEpoch <- 1, MaxEvents <- 0, MaxFaults <- 1, MaxDowns <- 0, pc <- epc
Rollback == INSTANCE ExecutionLeases
  WITH Exec <- {x1, x2}, Kind <- (x1 :> "operation" @@ x2 :> "sync"),
       CompleteOnReturn <- {x1}, Timed <- {}, Abandonable <- {}, MaxConcurrent <- 2,
       MaxEpoch <- 0, MaxEvents <- 0, MaxFaults <- 1, MaxDowns <- 1, pc <- epc
Cancel == INSTANCE ExecutionLeases
  WITH Exec <- {x1}, Kind <- x1 :> "operation", CompleteOnReturn <- {x1}, Timed <- {},
       Abandonable <- {}, MaxConcurrent <- 1, MaxEpoch <- 0, MaxEvents <- 0,
       MaxFaults <- 0, MaxDowns <- 0, pc <- epc
Background == INSTANCE BackgroundManager
  WITH Starters <- {s1, s2}, Stoppers <- {t1}, MaxEntries <- 2, session <- bSession, pc <- bpc

OneRequest == {[env |-> {"e"}, removals |-> {"b"}, secrets |-> {"s"}]}
AllWays == {"Close", "Revoke", "RevokePlugin", "Shutdown"}
NetworkKinds == {"DoHTTP", "StreamHTTP", "OpenHTTP", "OpenTCP", "TCPRoundTrip",
                 "UDPRoundTrip", "WebSocketRoundTrip"}

Mutations == INSTANCE HostOperations
  WITH committed <- opCommitted, told <- opTold
Audit == INSTANCE AuditJournal
  WITH MaxEntries <- 2, MaxSeq <- 3, sink <- auditSink
Resources == INSTANCE ReviewedResources
  WITH Leases <- {"l1"}, Reviews <- {"r1"}, Files <- {"f1"}, Nil <- NoOne,
       MaxEpoch <- 2, MaxRev <- 2, session <- resSession, closed <- resClosed
IO == INSTANCE RuntimeIO
  WITH Invs <- {"i1"}, Ops <- {"o1", "o2"}, Handles <- {1, 2}, MaxHandles <- 1,
       Nil <- NoOne, entry <- ioEntry, op <- ioOp, pending <- ioPending
Access == INSTANCE RuntimeAccess
  WITH Families <- {"mount", "storage", "process", "network", "upgrade"},
       inv <- accessInv
Processes == INSTANCE ProcessSupervisor
  WITH Starts <- {"a1", "a2"}, Closers <- {"c1"}, Owners <- {"w1"},
       Base <- {"b"}, Requests <- OneRequest, Ways <- AllWays, Limit <- 1,
       MaxOutput <- 0, Nil <- NoOne, starting <- procStarting,
       closed <- procClosed
Output == INSTANCE ProcessSupervisor
  WITH Starts <- {"a1"}, Closers <- {}, Owners <- {"w1"}, Base <- {"b"},
       Requests <- OneRequest, Ways <- AllWays, Limit <- 2, MaxOutput <- 3,
       Nil <- NoOne, starting <- procStarting, closed <- procClosed
Pools == INSTANCE Connectivity
  WITH Requests <- {"q1", "q2"}, Scopes <- {"s1"}, Configured <- {}, HostRouted <- {},
       Kinds <- {"OpenHTTP"},
       Answers <- {{"public4"}, {"public4", "public6"}, {"special", "public4"}},
       Bodies <- {0}, MaxBytes <- 1, Chunk <- 1, Short <- 2, Medium <- 2,
       MaxPools <- 2, MaxRev <- 1, MaxTime <- 0, TTL <- 1, Buckets <- {},
       MaxBuckets <- 1, MaxTrips <- 1, Window <- 1, Slack <- 0, Nil <- NoOne,
       seq <- netSeq, closed <- netClosed, sent <- netSent
Crowded == INSTANCE Connectivity
  WITH Requests <- {"q1", "q2"}, Scopes <- {"s1", "s2"}, Configured <- {},
       HostRouted <- {"s2"}, Kinds <- {"OpenHTTP"}, Answers <- {{"public4"}},
       Bodies <- {0}, MaxBytes <- 1, Chunk <- 1, Short <- 2, Medium <- 2,
       MaxPools <- 1, MaxRev <- 1, MaxTime <- 0, TTL <- 1, Buckets <- {},
       MaxBuckets <- 1, MaxTrips <- 1, Window <- 1, Slack <- 0, Nil <- NoOne,
       seq <- netSeq, closed <- netClosed, sent <- netSent
Network == INSTANCE Connectivity
  WITH Requests <- {"q1"}, Scopes <- {"s1"}, Configured <- {"s1"},
       HostRouted <- {"s1"}, Kinds <- NetworkKinds,
       Answers <- {{}, {"public4"}, {"private"}, {"private", "public4"}},
       Bodies <- 0..4, MaxBytes <- 3, Chunk <- 2, Short <- 2, Medium <- 2,
       MaxPools <- 2, MaxRev <- 1, MaxTime <- 2, TTL <- 1, Buckets <- {},
       MaxBuckets <- 1, MaxTrips <- 1, Window <- 1, Slack <- 0, Nil <- NoOne,
       seq <- netSeq, closed <- netClosed, sent <- netSent
Limiter == INSTANCE Connectivity
  WITH Requests <- {}, Scopes <- {}, Configured <- {}, HostRouted <- {}, Kinds <- {},
       Answers <- {}, Bodies <- {0}, MaxBytes <- 1, Chunk <- 1, Short <- 2,
       Medium <- 2, MaxPools <- 1, MaxRev <- 1, MaxTime <- 5, TTL <- 1,
       Buckets <- {"b1", "b2"}, MaxBuckets <- 1, MaxTrips <- 2, Window <- 2,
       Slack <- 0, Nil <- NoOne, seq <- netSeq, closed <- netClosed, sent <- netSent
Intervals == INSTANCE BackgroundIntervals
  WITH Plugins <- {"p1"}, Runs <- {1, 2}, Interval <- 1, MaxRuntime <- 1,
       MaxRev <- 2, MaxTime <- 2, Nil <- NoOne, now <- intervalNow,
       host <- intervalHost, record <- intervalRecord,
       revoking <- intervalRevoking, lost <- intervalLost, plan <- intervalPlan

MCInit ==
  /\ focus \in Focus
  /\ Init
  /\ CASE focus = "subscription" -> Subscription!Init
       [] focus = "pair"         -> Pair!Init
       [] focus = "rollback"     -> Rollback!Init
       [] focus = "cancel"       -> Cancel!Init
       [] OTHER                  -> Operation!Init
  /\ Background!Init
  /\ IF focus = "mutations" THEN Mutations!Init
     ELSE
          /\ op = 0 /\ next = 0 /\ stage = 0 /\ label = 0 /\ opCommitted = 0
          /\ satisfied = 0 /\ journal = 0 /\ opTold = 0 /\ slip = 0
  /\ IF focus = "audit" THEN Audit!Init
     ELSE
          /\ table = 0 /\ ring = 0 /\ seq = 0 /\ open = 0 /\ exporter = 0
          /\ auditSink = 0 /\ appended = 0 /\ ended = 0 /\ up = 0
  /\ IF focus = "resources" THEN Resources!Init
     ELSE
          /\ record = 0 /\ revoking = 0 /\ conn = 0 /\ reviews = 0
          /\ approvals = 0 /\ leases = 0 /\ fileReviews = 0 /\ picking = 0
          /\ rows = 0 /\ objects = 0 /\ opened = 0 /\ resSession = 0
          /\ resClosed = 0
  /\ IF focus = "runtime_io" THEN IO!Init
     ELSE
          /\ inv = 0 /\ stopped = 0 /\ res = 0 /\ ioEntry = 0 /\ ioOp = 0
          /\ drain = 0 /\ ioPending = 0 /\ shut = 0 /\ lost = 0
  /\ IF focus = "access" THEN Access!Init
     ELSE
          /\ accessInv = 0 /\ reg = 0 /\ handle = 0 /\ did = 0 /\ said = 0
          /\ net = 0
  /\ CASE focus = "processes" -> Processes!Init
       [] focus = "output" -> Output!Init
       [] OTHER ->
          /\ start = 0 /\ proc = 0 /\ sessions = 0 /\ clients = 0
          /\ procStarting = 0 /\ revoked = 0 /\ revokedPlugin = 0
          /\ procClosed = 0 /\ closer = 0 /\ fenced = 0 /\ out = 0
          /\ reader = 0
  /\ CASE focus = "pools" -> Pools!Init
       [] focus = "crowded" -> Crowded!Init
       [] focus = "requests" -> Network!Init
       [] focus = "limiter" -> Limiter!Init
       [] OTHER ->
          /\ now = 0 /\ policy = 0 /\ req = 0 /\ pool = 0 /\ netSeq = 0
          /\ netClosed = 0 /\ closeDone = 0 /\ windows = 0 /\ expirations = 0
          /\ version = 0 /\ netSent = 0
  /\ IF focus = "intervals" THEN Intervals!Init
     ELSE
          /\ intervalNow = 0 /\ intervalHost = 0 /\ intervalRecord = 0
          /\ intervalRevoking = 0 /\ intervalPlan = 0 /\ tick = 0 /\ running = 0
          /\ run = 0 /\ intervalLost = 0 /\ missed = 0

MCNext ==
  /\ UNCHANGED focus
  /\ \/ /\ \/ focus = "operation" /\ Operation!Next
           \/ focus = "subscription" /\ Subscription!Next
           \/ focus = "pair" /\ Pair!Next
           \/ focus = "rollback" /\ Rollback!Next
           \/ focus = "cancel" /\ Cancel!Next
        /\ UNCHANGED <<vars, bVars, oVars, jVars, rVars, ioVars, aVars, pVars,
                       cVars, iVars>>
     \/ /\ focus = "background" /\ Background!Next
        /\ UNCHANGED <<vars, eVars, oVars, jVars, rVars, ioVars, aVars, pVars,
                       cVars, iVars>>
     \/ /\ focus = "mutations" /\ Mutations!Next
        /\ UNCHANGED <<vars, eVars, bVars, jVars, rVars, ioVars, aVars, pVars,
                       cVars, iVars>>
     \/ /\ focus = "audit" /\ Audit!Next
        /\ UNCHANGED <<vars, eVars, bVars, oVars, rVars, ioVars, aVars, pVars,
                       cVars, iVars>>
     \/ /\ focus = "resources" /\ Resources!Next
        /\ UNCHANGED <<vars, eVars, bVars, oVars, jVars, ioVars, aVars, pVars,
                       cVars, iVars>>
     \/ /\ focus = "runtime_io" /\ IO!Next
        /\ UNCHANGED <<vars, eVars, bVars, oVars, jVars, rVars, aVars, pVars,
                       cVars, iVars>>
     \/ /\ focus = "access" /\ Access!Next
        /\ UNCHANGED <<vars, eVars, bVars, oVars, jVars, rVars, ioVars, pVars,
                       cVars, iVars>>
     \/ /\ \/ focus = "processes" /\ Processes!Next
           \/ focus = "output" /\ Output!Next
        /\ UNCHANGED <<vars, eVars, bVars, oVars, jVars, rVars, ioVars, aVars,
                       cVars, iVars>>
     \/ /\ \/ focus = "pools" /\ Pools!Next
           \/ focus = "crowded" /\ Crowded!Next
           \/ focus = "requests" /\ Network!Next
           \/ focus = "limiter" /\ Limiter!Next
        /\ UNCHANGED <<vars, eVars, bVars, oVars, jVars, rVars, ioVars, aVars,
                       pVars, iVars>>
     \/ /\ focus = "intervals" /\ Intervals!Next
        /\ UNCHANGED <<vars, eVars, bVars, oVars, jVars, rVars, ioVars, aVars,
                       pVars, cVars>>
     \/ /\ focus = "teardown" /\ Next
        /\ UNCHANGED <<eVars, bVars, oVars, jVars, rVars, ioVars, aVars,
                       pVars, cVars, iVars>>

MCSpec == MCInit /\ [][MCNext]_<<focus, vars, eVars, bVars, oVars, jVars, rVars,
                                 ioVars, aVars, pVars, cVars, iVars>>

\* The cancellation, where the Host runs its own code: setup, finish, the
\* dispatch of the cancellation and armed timers go on.
CancelSpec ==
  /\ MCSpec
  /\ WF_eVars(epc[x1] # "idle" /\ Cancel!Start(x1)) /\ WF_eVars(Cancel!Finish(x1))
  /\ WF_eVars(Cancel!CancelDispatch(x1)) /\ WF_eVars(Cancel!Timers(x1))

-----------------------------------------------------------------------------
\* What a caller is told is what happened.  A sink call that returned nil for a
\* terminal status told the truth: the row has that status, whatever the revoker,
\* the timers or a restart did, and the log ends with its one terminal event
\* exactly when the row is terminal (hostExecutionSink.finishExecution,
\* ExecutionView.Finish and Append).  A management operation answers "committed"
\* only when that is so, and "not committed" only when nothing is committed, a
\* COMMIT whose own error came back without a label after it was applied and the
\* secret adapter's label of a committed uninstall excepted; its journal entry
\* says the same, whichever of its steps fails (mutation.ForError, Unknown).
ToldTruth ==
  /\ focus = "operation" => Operation!TypeOK /\ Operation!ToldTruth /\ Operation!LogSound
  /\ focus = "subscription" => Subscription!TypeOK /\ Subscription!ToldTruth /\ Subscription!LogSound
  /\ focus = "pair" => Pair!TypeOK /\ Pair!ToldTruth /\ Pair!LogSound
  /\ focus = "rollback" => Rollback!TypeOK /\ Rollback!ToldTruth /\ Rollback!LogSound
  /\ focus = "mutations" => Mutations!TypeOK /\ Mutations!OutcomesTrue

\* Every mutation that reached its store has a journal entry that was begun
\* before it, also across a crash (beginSecurityMutation).  The journal hands each
\* finished entry to the sink at least once, and once only if no crash came
\* between the append and its mark, and the SQLite journal and the ring in memory
\* hold the same entries until the ring has dropped one
\* (reserveSQLiteSecurityAuditCapacity, the exporter).
CommitsJournalled ==
  /\ focus = "mutations" => Mutations!CommitsJournalled
  /\ focus = "audit" => Audit!DeliveredOnce /\ Audit!JournalsAgree

\* The counters are exact and the bounds hold.  The quota counter of a method is
\* the number of its live leases and no more run at once than the quota grants
\* (executionLeaseRegistry.start, finish).  The HTTP pools are counted as they are
\* used, a pool is closed once and only when its last user left, and no response
\* or stream passes more bytes than its grant (acquireHTTPPool, release,
\* readBoundedBody, the round-trip limiter).  A reader of a process' output loses
\* no byte it is not told of (streamBuffer).
QuotaExact ==
  /\ focus = "operation" => Operation!QuotaExact
  /\ focus = "subscription" => Subscription!QuotaExact
  /\ focus = "pair" => Pair!QuotaExact
  /\ focus = "rollback" => Rollback!QuotaExact
  /\ focus = "pools" => Pools!TypeOK /\ Pools!PoolsExact
  /\ focus = "crowded" => Crowded!TypeOK /\ Crowded!PoolsExact
  /\ focus = "requests" => Network!TypeOK /\ Network!PoolsExact /\ Network!ResponsesBounded
  /\ focus = "limiter" => Limiter!TypeOK /\ Limiter!LimiterSound
  /\ focus = "output" => Output!TypeOK /\ Output!ReadsExact

\* What is revoked ends, and what has not ended has an owner who ends it.  Once a
\* revocation has returned, no lease taken under an earlier revision is still
\* uncancelled, and its row is terminal unless its caller is still to finish it or
\* the control store failed on it; an execution that is not terminal has a live
\* lease, and one with an uncommitted end is queued for the rollback of the next
\* start; a finished caller leaves no lease behind a terminal row, but for a
\* subscription that reached its end during a dispatch that then failed (lockPlugin
\* against start, reconcileRevokedExecutions, executionLeaseRegistry).
\* A released invocation has no open resource and no running operation
\* (hostRuntimeIOBroker), and a revoked owner no process, which a client has one of
\* at most (Supervisor.Start, Revoke).  The teardown of a session has emptied each
\* class it is past: IInv, the invariant that CompleteMeansEmpty is proved from.
RevokedStops ==
  /\ focus = "teardown" => IInv
  /\ focus = "operation" => /\ Operation!RevokedStops /\ Operation!RowOwned
                            /\ Operation!PendingKept /\ Operation!NoLeaseLeft
  /\ focus = "subscription" => /\ Subscription!RevokedStops /\ Subscription!RowOwned
                               /\ Subscription!PendingKept /\ Subscription!NoLeaseLeft
  /\ focus = "pair" => Pair!RevokedStops
  /\ focus = "rollback" => Rollback!RowOwned /\ Rollback!PendingKept
  /\ focus = "runtime_io" => IO!TypeOK /\ IO!ReleasedIsSilent
  /\ focus = "processes" => /\ Processes!TypeOK /\ Processes!RevokedOwnsNothing
                            /\ Processes!OneProcessPerClient

\* Whatever a worker does to files, stores, processes or the network is within the
\* rights of its session, its manifest and its permissions, and its network call
\* holds its lease to the end (newHostRuntimeIORegistration, runtimeNetwork).  A
\* connection goes only to addresses its grant allows (evaluateResolvedTarget), or
\* through the Host's own transport (resolveHTTPPoolBinding).  A reviewed connection
\* or file is used only under the review and the plugin revision it was approved for
\* (connectionAuthority, selectedFileAuthority).
AccessWithinGrant ==
  /\ focus = "access" => Access!TypeOK /\ Access!EffectsWithinRights /\ Access!LeaseEndsWithCall
  /\ focus = "pools" => Pools!ConnectedWithinGrant
  /\ focus = "crowded" => Crowded!ConnectedWithinGrant
  /\ focus = "requests" => Network!ConnectedWithinGrant
  /\ focus = "resources" => /\ Resources!TypeOK /\ Resources!LeasesCurrent
                            /\ Resources!ObjectsOwned

\* The runner never loses an invocation of a background worker that nobody has
\* cancelled.  A Stop and Shutdown look in the manager's table: the invocation has
\* its session there, or its Start or a Shutdown under way is about to publish or to
\* stop it, unless the session was taken for a predecessor's, which takes a Stop.  At
\* most one Start is in the runner at a time, and once Shutdown has returned the
\* manager holds no session (Manager.Start, Stop, Shutdown, watchCompletion).  An
\* interval plan has at most one run, which the revocation of its plugin cancels, and
\* its row never takes the outcome of a run of an earlier plan
\* (backgroundIntervalScheduler, FinishInterval).  ManagerInv is the invariant the
\* proof about the manager rests on.
Stoppable ==
  /\ focus = "background" => /\ Background!TypeOK
                             /\ Background!ManagerConstants /\ Background!ManagerInv
                             /\ Background!Stoppable /\ Background!OneAttempt
                             /\ Background!ShutdownForgets
  /\ focus = "intervals" => /\ Intervals!TypeOK /\ Intervals!OneRunPerPlan
                            /\ Intervals!RowsTellTheRun

\* "The Host marks the execution `cancel_requested`, ... and signals the live
\* execution lease": a recorded cancellation of a live lease is followed by its
\* signal or by the execution's end (cancelExecution, cancelOperation).
CancelSignals == Cancel!CancelSignals
=============================================================================
