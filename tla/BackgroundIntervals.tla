------------------------- MODULE BackgroundIntervals -------------------------
(***************************************************************************)
(* Durable interval plans: the rows of background_intervals, the scheduler *)
(* that claims a due row before any plugin code runs, the job that runs    *)
(* the claim and writes its outcome, and the lifecycle calls and restarts  *)
(* that may come between any two of those steps.                           *)
(*                                                                         *)
(* A plugin's identity (fingerprint, management and policy revision and    *)
(* revoke epoch) is one number, which every lifecycle call raises.         *)
(***************************************************************************)
EXTENDS Naturals, FiniteSets

CONSTANTS
    Plugins,
    Runs,          \* claim identities, numbers; ClaimInterval draws a fresh one
    Interval,
    MaxRuntime,
    MaxRev,        \* bound on the lifecycle calls of one plugin
    MaxTime,       \* bound on the clock
    Nil

VARIABLES
    now,
    host,          \* "down", "up" or "closing"
    record,        \* plugin_records: the identity and whether it is enabled
    revoking,      \* plugins whose lifecycle call has committed and not yet cancelled
    plan,          \* background_intervals
    tick,          \* the scheduler's pass: the rows it listed and has not visited
    running,       \* backgroundIntervalScheduler.running
    run,           \* the jobs, by claim
    lost,          \* claims whose completion could not be written
    missed         \* claims whose job a lifecycle call failed to cancel

vars == <<now, host, record, revoking, plan, tick, running, run, lost, missed>>

Outcomes == {"", "success", "failed", "unknown", "blocked", "canceled"}

Alive == {"claimed", "validated", "authorized", "dispatched", "ended"}

RowType ==
    [rev : 1..MaxRev, next : 0..(MaxTime + Interval), claim : Runs \cup {Nil},
     outcome : Outcomes, by : Runs \cup {Nil}]

TypeOK ==
    /\ now \in 0..MaxTime
    /\ host \in {"down", "up", "closing"}
    /\ record \in [Plugins -> [rev : 1..MaxRev, on : BOOLEAN]]
    /\ revoking \subseteq Plugins
    /\ plan \in [Plugins -> RowType \cup {Nil}]
    /\ tick \in [todo : SUBSET Plugins, at : 0..MaxTime, seen : [Plugins -> RowType \cup {Nil}]]
    /\ running \in [Plugins -> Runs \cup {Nil}]
    /\ run \in [Runs -> [at : Alive \cup {"new", "gone"}, plugin : Plugins \cup {Nil},
                         rev : 0..MaxRev, deadline : 0..(MaxTime + MaxRuntime),
                         canceled : BOOLEAN, ran : BOOLEAN, outcome : Outcomes]]
    /\ lost \subseteq Runs
    /\ missed \subseteq Runs

Fresh == [at |-> "new", plugin |-> Nil, rev |-> 0, deadline |-> 0,
          canceled |-> FALSE, ran |-> FALSE, outcome |-> ""]

IdleTick == [todo |-> {}, at |-> 0, seen |-> [p \in Plugins |-> Nil]]

Init ==
    /\ now = 0
    /\ host = "down"
    /\ record = [p \in Plugins |-> [rev |-> 1, on |-> TRUE]]
    /\ revoking = {}
    /\ plan = [p \in Plugins |-> Nil]
    /\ tick = IdleTick
    /\ running = [p \in Plugins |-> Nil]
    /\ run = [r \in Runs |-> Fresh]
    /\ lost = {}
    /\ missed = {}

----------------------------------------------------------------------------
(* The store *)

\* The rows after a reconciliation: one for each enabled interval plugin, kept
\* when it already has the record's identity and started afresh when not.
ReconciledRows(t) ==
    [p \in Plugins |->
        IF ~record[p].on THEN Nil
        ELSE IF plan[p] # Nil /\ plan[p].rev = record[p].rev THEN plan[p]
        ELSE [rev |-> record[p].rev, next |-> t + Interval, claim |-> Nil,
              outcome |-> "", by |-> Nil]]

\* The row a listed plan still claims: unchanged since it was listed, unclaimed,
\* due, and of the identity the record still has.
ClaimStands(p, listed, t) ==
    /\ plan[p] # Nil
    /\ plan[p].rev = listed.rev
    /\ plan[p].next = listed.next
    /\ plan[p].claim = Nil
    /\ plan[p].next <= t
    /\ record[p] = [rev |-> plan[p].rev, on |-> TRUE]

\* The row is still this claim's.
ClaimOwned(p, r) ==
    /\ plan[p] # Nil
    /\ plan[p].rev = run[r].rev
    /\ plan[p].claim = r

\* At startup: a claim nobody finished is recorded as unknown and its plan is
\* due one interval later; the interrupted call is not made again.
RecoverIntervalClaims ==
    plan' = [p \in Plugins |->
                IF plan[p] # Nil /\ plan[p].claim # Nil
                THEN [plan[p] EXCEPT !.next = now + Interval, !.claim = Nil,
                                     !.outcome = "unknown", !.by = plan[p].claim]
                ELSE plan[p]]

----------------------------------------------------------------------------
(* The Host process *)

Open ==
    /\ host = "down"
    /\ host' = "up"
    /\ RecoverIntervalClaims
    /\ UNCHANGED <<now, record, revoking, tick, running, run, lost, missed>>

\* Cancelling a job that has its outcome changes nothing any more.
Canceled(r) == [run[r] EXCEPT !.canceled = @ \/ run[r].at \in Alive \ {"ended"}]

\* Every job's context is a child of the lifecycle context Close cancels.
Close ==
    /\ host = "up"
    /\ host' = "closing"
    /\ run' = [r \in Runs |-> Canceled(r)]
    /\ UNCHANGED <<now, record, revoking, plan, tick, running, lost, missed>>

\* Close has waited for the scheduler and the jobs.
Closed ==
    /\ host = "closing"
    /\ tick.todo = {}
    /\ \A r \in Runs : run[r].at \notin Alive
    /\ revoking = {}
    /\ host' = "down"
    /\ UNCHANGED <<now, record, revoking, plan, tick, running, run, lost, missed>>

\* The process dies between any two steps; only the rows survive.
Crash ==
    /\ host # "down"
    /\ host' = "down"
    /\ revoking' = {}
    /\ tick' = IdleTick
    /\ running' = [p \in Plugins |-> Nil]
    /\ run' = [r \in Runs |-> [run[r] EXCEPT !.at = IF @ = "new" THEN @ ELSE "gone",
                                               !.deadline = 0]]
    /\ missed' = {}
    /\ UNCHANGED <<now, record, plan, lost>>

\* A lifecycle call commits a new identity, enabled or not, ...
ChangePlugin(p) ==
    /\ host = "up"
    /\ p \notin revoking
    /\ record[p].rev < MaxRev
    /\ \E on \in BOOLEAN : record' = [record EXCEPT ![p] = [rev |-> @.rev + 1, on |-> on]]
    /\ revoking' = revoking \cup {p}
    /\ UNCHANGED <<now, host, plan, tick, running, run, lost, missed>>

\* ... and then cancels the job that runs under the old one, unless the audit
\* record of that revocation cannot be begun.
cancel(p) ==
    /\ p \in revoking
    /\ revoking' = revoking \ {p}
    /\ \/ /\ run' = IF running[p] = Nil THEN run
                    ELSE [run EXCEPT ![running[p]] = Canceled(running[p])]
          /\ UNCHANGED missed
       \/ running[p] # Nil /\ missed' = missed \cup {running[p]} /\ UNCHANGED run
    /\ UNCHANGED <<now, host, record, plan, tick, running, lost>>

----------------------------------------------------------------------------
(* The scheduler *)

\* One pass starts: the rows are reconciled with the installed plugins and
\* those that are due and unclaimed are listed.
Tick ==
    /\ host = "up"
    /\ tick.todo = {}
    /\ LET rows == ReconciledRows(now)
           due == {p \in Plugins : rows[p] # Nil /\ rows[p].next <= now /\ rows[p].claim = Nil}
       IN  /\ plan' = rows
           /\ tick' = IF due = {} THEN IdleTick ELSE [todo |-> due, at |-> now, seen |-> rows]
           /\ plan' # plan \/ tick' # tick
    /\ UNCHANGED <<now, host, record, revoking, running, run, lost, missed>>

Visited(p) ==
    IF tick.todo = {p} THEN IdleTick ELSE [tick EXCEPT !.todo = @ \ {p}]

\* A plugin whose earlier job has not returned, or whose row changed since it
\* was listed, is left to a later pass.
Skip(p) ==
    /\ p \in tick.todo
    /\ running[p] # Nil \/ ~ClaimStands(p, tick.seen[p], tick.at)
    /\ tick' = Visited(p)
    /\ UNCHANGED <<now, host, record, revoking, plan, running, run, lost, missed>>

\* A claim identity not drawn before.
NextClaim(r) ==
    /\ run[r].at = "new"
    /\ \A q \in Runs : q < r => run[q].at # "new"

\* The variant without the look at the running jobs.
ClaimWhileRunning(p) ==
    /\ p \in tick.todo
    /\ ClaimStands(p, tick.seen[p], tick.at)
    /\ \E r \in Runs :
        /\ NextClaim(r)
        /\ plan' = [plan EXCEPT ![p].claim = r]
        /\ run' = [run EXCEPT ![r].at = "claimed", ![r].plugin = p, ![r].rev = plan[p].rev,
                              ![r].deadline = now + MaxRuntime]
        /\ running' = [running EXCEPT ![p] = r]
        /\ tick' = Visited(p)
    /\ UNCHANGED <<now, host, record, revoking, lost, missed>>

\* Under the scheduler's mutex: the durable claim, the entry among the running
\* jobs and the start of the job. A Host that is closing starts no job: the claim
\* stays for the next startup, and the pass ends.
Claim(p) ==
    /\ p \in tick.todo
    /\ running[p] = Nil
    /\ ClaimStands(p, tick.seen[p], tick.at)
    /\ \E r \in Runs :
        /\ NextClaim(r)
        /\ plan' = [plan EXCEPT ![p].claim = r]
        /\ IF host = "up"
           THEN /\ run' = [run EXCEPT ![r].at = "claimed", ![r].plugin = p, ![r].rev = plan[p].rev,
                                      ![r].deadline = now + MaxRuntime]
                /\ running' = [running EXCEPT ![p] = r]
                /\ tick' = Visited(p)
           ELSE /\ run' = [run EXCEPT ![r].at = "gone", ![r].plugin = p, ![r].rev = plan[p].rev]
                /\ tick' = IdleTick
                /\ UNCHANGED running
    /\ UNCHANGED <<now, host, record, revoking, lost, missed>>

\* The store fails the claim, or the Host's closing cancels it.
ClaimFails(p) ==
    /\ p \in tick.todo
    /\ running[p] = Nil
    /\ tick' = IdleTick
    /\ UNCHANGED <<now, host, record, revoking, plan, running, run, lost, missed>>

----------------------------------------------------------------------------
(* runBackgroundInterval, the body of the job *)

Ended(r, outcome) == run' = [run EXCEPT ![r].at = "ended", ![r].outcome = outcome, ![r].deadline = 0]

Stopped(r) == run[r].canceled \/ now >= run[r].deadline

\* Cancelled before it began; or the durable claim is checked.
ValidateIntervalClaim(r) ==
    /\ run[r].at = "claimed"
    /\ IF Stopped(r) THEN Ended(r, "canceled")
       ELSE IF ClaimOwned(run[r].plugin, r) THEN run' = [run EXCEPT ![r].at = "validated"]
       ELSE Ended(r, "blocked")
    /\ UNCHANGED <<now, host, record, revoking, plan, tick, running, lost, missed>>

\* The record is read, and package, method and policy are checked; then the
\* parameters and the runtime, whose failures are the plugin's. The context is
\* looked at once more before the call.
Authorize(r) ==
    /\ run[r].at = "validated"
    /\ \/ /\ record[run[r].plugin] = [rev |-> run[r].rev, on |-> TRUE]
          /\ \/ Stopped(r) /\ Ended(r, "canceled")
             \/ ~Stopped(r) /\ run' = [run EXCEPT ![r].at = "authorized"]
             \/ Ended(r, "failed")
       \/ Ended(r, "blocked")
    /\ UNCHANGED <<now, host, record, revoking, plan, tick, running, lost, missed>>

\* dispatchMethod validates the claim and the record again before the worker is
\* entered. A refusal is a failure of a call that was not stopped.
Dispatch(r) ==
    /\ run[r].at = "authorized"
    /\ \/ /\ ClaimOwned(run[r].plugin, r)
          /\ record[run[r].plugin] = [rev |-> run[r].rev, on |-> TRUE]
          /\ run' = [run EXCEPT ![r].at = "dispatched", ![r].ran = TRUE]
       \/ Ended(r, IF Stopped(r) THEN "unknown" ELSE "failed")
    /\ UNCHANGED <<now, host, record, revoking, plan, tick, running, lost, missed>>

\* The call returns. A call whose context ended, that panicked or whose effect is
\* not known is unknown whatever it answered.
Return(r) ==
    /\ run[r].at = "dispatched"
    /\ \E outcome \in {"success", "failed", "unknown"} :
        Ended(r, IF Stopped(r) THEN "unknown" ELSE outcome)
    /\ UNCHANGED <<now, host, record, revoking, plan, tick, running, lost, missed>>

----------------------------------------------------------------------------
(* The job's completion *)

Gone(r) ==
    /\ run' = [run EXCEPT ![r].at = "gone"]
    /\ running' = [running EXCEPT ![run[r].plugin] = Nil]
    /\ missed' = missed \ {r}

\* The outcome is written if the row is still this claim's; then the plugin may be
\* claimed again.
FinishInterval(r) ==
    LET p == run[r].plugin IN
    /\ run[r].at = "ended"
    /\ plan' = IF ClaimOwned(p, r)
               THEN [plan EXCEPT ![p].next = now + Interval, ![p].claim = Nil,
                                 ![p].outcome = run[r].outcome, ![p].by = r]
               ELSE plan
    /\ Gone(r)
    /\ UNCHANGED <<now, host, record, revoking, tick, lost>>

\* The store did not take the completion within its five seconds: the claim stays.
FinishLost(r) ==
    /\ run[r].at = "ended"
    /\ lost' = lost \cup {r}
    /\ Gone(r)
    /\ UNCHANGED <<now, host, record, revoking, plan, tick>>

Pass ==
    /\ now < MaxTime
    /\ now' = now + 1
    /\ UNCHANGED <<host, record, revoking, plan, tick, running, run, lost, missed>>

Next ==
    \/ Open \/ Close \/ Closed \/ Crash \/ Tick \/ Pass
    \/ \E p \in Plugins : ChangePlugin(p) \/ cancel(p) \/ Skip(p) \/ Claim(p) \/ ClaimFails(p)
    \/ \E r \in Runs :
        \/ ValidateIntervalClaim(r) \/ Authorize(r) \/ Dispatch(r) \/ Return(r)
        \/ FinishInterval(r) \/ FinishLost(r)

Spec == Init /\ [][Next]_vars

----------------------------------------------------------------------------

Live(r) == run[r].at \in Alive

\* At most one job of a plugin exists, also while its plan was replaced under a
\* running job, and the job is the one a revocation cancels. Once the lifecycle
\* call that changed the plugin has returned, a job under the old identity is
\* cancelled, unless that call failed before it came to it (scheduler.tick and
\* cancel).
OneRunPerPlan ==
    /\ \A r, s \in Runs : Live(r) /\ Live(s) /\ run[r].plugin = run[s].plugin => r = s
    /\ \A r \in Runs : Live(r) => running[run[r].plugin] = r
    /\ \A r \in Runs :
        /\ Live(r) /\ run[r].at # "ended"
        /\ run[r].plugin \notin revoking
        /\ record[run[r].plugin].rev # run[r].rev
        /\ r \notin missed
        => run[r].canceled

\* A row's outcome is that of a claim made under the row's own identity, so no
\* late completion reaches a replacement plan; "blocked" and "canceled" mean that
\* the worker was never entered and "success" that it ran to the end. A claim in
\* the table belongs to a live job, to one whose completion was lost, to one a
\* closing Host refused, or to a process that has ended, and none is left once a
\* startup has recovered them (FinishInterval, RecoverIntervalClaims).
RowsTellTheRun ==
    \A p \in Plugins : plan[p] # Nil =>
        /\ plan[p].by # Nil =>
            LET r == run[plan[p].by] IN
            /\ r.plugin = p /\ r.rev = plan[p].rev
            /\ plan[p].outcome \in {"blocked", "canceled"} => ~r.ran
            /\ plan[p].outcome = "success" => r.ran /\ ~r.canceled
            /\ plan[p].outcome # "unknown" => plan[p].outcome = r.outcome
        /\ plan[p].claim # Nil =>
            \/ Live(plan[p].claim)
            \/ plan[p].claim \in lost
            \/ host # "up"

=============================================================================
