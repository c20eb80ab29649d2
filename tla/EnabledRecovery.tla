--------------------------- MODULE EnabledRecovery ---------------------------
(***************************************************************************)
(* Restoring the runtime state of the enabled plugins after a restart.     *)
(*                                                                         *)
(* RecoverEnabled (and the job Host.Open starts with a session) reads the  *)
(* installed records, activates every enabled one in bounded workers, and  *)
(* caches one snapshot of results; later calls project that snapshot onto  *)
(* the records of the moment.  RetryPluginRecovery repeats one plugin and  *)
(* replaces its result.  Without a session Host.Open prewarms the worker   *)
(* modules instead, rechecking each plugin under its lifecycle read lock.  *)
(*                                                                         *)
(* All of it races the management operations, which change the record and  *)
(* then its runtime state under the plugin's lifecycle write lock.         *)
(* Recovery takes no lifecycle lock: it activates the record it read, even *)
(* when that record was disabled or replaced meanwhile.  raced names the   *)
(* plugins this happened to.                                               *)
(***************************************************************************)
EXTENDS Naturals, FiniteSets

CONSTANTS
    Plugins,
    Recoveries,  \* calls of RecoverEnabled
    Retries,     \* calls of RetryPluginRecovery
    Warmers,     \* the startup job that prewarms, if there is one
    MaxLife, MaxRev, Nil

VARIABLES
    record,      \* p -> [life, rev, enabled]; rev 0: not installed
    writer,      \* p -> the management operation under its write lock
    policy,      \* p -> the record whose connectivity policy is installed
    snapshot,    \* h.recoverySnapshot: p -> result, or Nil
    mu,          \* the call that holds recoveryMu
    recovery,    \* c -> [at, todo, results, canceled, unaudited]
    answer,      \* c -> [results, complete, seen]
    retry,       \* c -> [at, plugin, record, status]
    warm,        \* w -> [at, todo, now]
    activated,   \* the plugins and records whose activation succeeded
    raced,
    unstopped    \* plugins whose disable or uninstall answered an error

vars == <<record, writer, policy, snapshot, mu, recovery, answer, retry,
          warm, activated, raced, unstopped>>

NoRecord == [life |-> 0, rev |-> 0, enabled |-> FALSE]
Idle == [at |-> "idle", todo |-> <<>>, results |-> <<>>,
         canceled |-> FALSE, unaudited |-> FALSE]
NoRetry == [at |-> "idle", plugin |-> Nil, record |-> NoRecord, status |-> Nil]
NoAnswer == [results |-> <<>>, complete |-> FALSE, seen |-> <<>>]

(* A map without one of its keys.                                          *)
Less(f, p) == [q \in DOMAIN f \ {p} |-> f[q]]
With(f, p, v) == [q \in DOMAIN f \cup {p} |-> IF q = p THEN v ELSE f[q]]

TypeOK ==
    /\ \A p \in Plugins : /\ record[p].life \in 1..MaxLife
                          /\ record[p].rev \in 0..MaxRev
                          /\ record[p].enabled \in BOOLEAN
    /\ writer \in [Plugins -> {Nil, "enable", "disable", "uninstall"}]
    /\ mu \in Recoveries \cup {Nil}
    /\ \A c \in Recoveries : recovery[c].at \in {"idle", "running"}
    /\ raced \subseteq Plugins /\ unstopped \subseteq Plugins

Init ==
    /\ record \in [Plugins -> {[life |-> 1, rev |-> 1, enabled |-> e] :
                                 e \in BOOLEAN}]
    /\ writer = [p \in Plugins |-> Nil]
    /\ policy = [p \in Plugins |-> Nil]
    /\ snapshot = Nil /\ mu = Nil
    /\ recovery = [c \in Recoveries |-> Idle]
    /\ answer = [c \in Recoveries |-> NoAnswer]
    /\ retry = [c \in Retries |-> NoRetry]
    /\ warm = [w \in Warmers |-> [at |-> "idle", todo |-> <<>>, now |-> Nil]]
    /\ activated = {} /\ raced = {} /\ unstopped = {}

-----------------------------------------------------------------------------
(* Management operations, under the write lock: the record first, the      *)
(* runtime state after it.                                                 *)

Reading(p) == \E w \in Warmers : warm[w].at = "compile" /\ warm[w].now = p

Begin(p, op) ==
    /\ writer[p] = Nil /\ ~Reading(p)
    /\ writer' = [writer EXCEPT ![p] = op]
    /\ UNCHANGED <<policy, snapshot, mu, recovery, answer, retry, warm,
                   activated, raced, unstopped>>

EnablePlugin(p) ==
    /\ record[p].rev \in 1..(MaxRev - 1) /\ ~record[p].enabled
    /\ Begin(p, "enable")
    /\ record' = [record EXCEPT ![p].enabled = TRUE, ![p].rev = @ + 1]

(* A disabled plugin may be disabled again, after an error for instance.   *)
DisablePlugin(p) ==
    /\ record[p].rev \in 1..(MaxRev - 1)
    /\ Begin(p, "disable")
    /\ record' = [record EXCEPT ![p].enabled = FALSE, ![p].rev = @ + 1]

UninstallPlugin(p) ==
    /\ record[p].rev > 0
    /\ Begin(p, "uninstall")
    /\ record' = [record EXCEPT ![p].rev = 0, ![p].enabled = FALSE]

(* The instance ID may be reused: a new installation starts over.          *)
ImportPackage(p) ==
    /\ record[p].rev = 0 /\ record[p].life < MaxLife
    /\ Begin(p, "enable")
    /\ record' = [record EXCEPT ![p] = [life |-> @.life + 1, rev |-> 1,
                                        enabled |-> TRUE]]

(* Whatever an activation has done to the policy when it ends: a failure   *)
(* may come after the policy was installed, and a failed installation      *)
(* removes it.                                                             *)
ActivationLeaves(p, rec, status) ==
    \/ policy' = [policy EXCEPT ![p] = rec]
    \/ status # "ready" /\ policy' = [policy EXCEPT ![p] = Nil]
    \/ status # "ready" /\ UNCHANGED policy

Started(p) ==
    /\ writer[p] = "enable"
    /\ \E status \in {"ready", "failed"} :
         /\ ActivationLeaves(p, record[p], status)
         /\ activated' = IF status = "ready" THEN activated \cup {<<p, record[p]>>}
                                             ELSE activated
    /\ unstopped' = unstopped \ {p}

(* Disabling and uninstalling remove the policy.  DisablePlugin returns    *)
(* before that when the surfaces cannot be withdrawn, and the removal may  *)
(* fail; the operation then answers an error, and it may for another       *)
(* reason.                                                                 *)
StoppedKeepingPolicy(p) ==
    /\ writer[p] \in {"disable", "uninstall"}
    /\ unstopped' = unstopped \ {p}
    /\ UNCHANGED <<policy, activated>>

Stopped(p) ==
    /\ writer[p] \in {"disable", "uninstall"}
    /\ \/ policy' = [policy EXCEPT ![p] = Nil] /\ unstopped' = unstopped \ {p}
       \/ /\ policy' \in {policy, [policy EXCEPT ![p] = Nil]}
          /\ unstopped' = unstopped \cup {p}
    /\ UNCHANGED activated

Finish(p) ==
    /\ Started(p) \/ Stopped(p)
    /\ writer' = [writer EXCEPT ![p] = Nil]
    /\ raced' = raced \ {p}
    /\ UNCHANGED <<record, snapshot, mu, recovery, answer, retry, warm>>

-----------------------------------------------------------------------------
(* RecoverEnabled                                                          *)

(* The exact installation and revision, still enabled.                     *)
matchesRevision(result, current) ==
    current.enabled /\ current.rev = result.record.rev

matches(result, current) ==
    /\ current.enabled
    /\ current.life = result.record.life /\ current.rev = result.record.rev

currentRecoverySnapshot(s) ==
    LET now == {p \in DOMAIN s : matches(s[p], record[p])} IN
    [results |-> [p \in now |-> s[p].status],
     complete |-> \A p \in now : s[p].status = "ready",
     seen |-> [p \in now |-> record[p]]]

(* recoveryMu is held to the end of the call; a cached snapshot is only    *)
(* projected.                                                              *)
recoverEnabled(c) ==
    /\ recovery[c].at = "idle" /\ mu = Nil
    /\ \/ /\ snapshot # Nil
          /\ answer' = [answer EXCEPT ![c] = currentRecoverySnapshot(snapshot)]
          /\ UNCHANGED <<mu, recovery>>
       \/ /\ snapshot = Nil
          /\ mu' = c
          /\ recovery' = [recovery EXCEPT ![c] =
               [Idle EXCEPT !.at = "running",
                            !.todo = [p \in {q \in Plugins : record[q].enabled}
                                        |-> record[p]]]]
          /\ UNCHANGED answer
    /\ UNCHANGED <<record, writer, policy, snapshot, retry, warm, activated,
                   raced, unstopped>>

(* RestorePlugin, the worker binding, the connectivity policy and the      *)
(* background entry of the record that was read.                           *)
Activate(p, rec, status) ==
    /\ ActivationLeaves(p, rec, status)
    /\ raced' = IF record[p] # rec \/ writer[p] # Nil
                  THEN raced \cup {p} ELSE raced
    /\ activated' = IF status = "ready" THEN activated \cup {<<p, rec>>}
                                        ELSE activated

(* One worker takes a plugin: it is refreshed (and the security event      *)
(* recorded or not), fails, or meets the cancelled context, which stops    *)
(* the others.                                                             *)
refreshEnabledPlugin(c, p) ==
    /\ recovery[c].at = "running" /\ p \in DOMAIN recovery[c].todo
    /\ \E status \in {"ready", "failed", "canceled"} :
         LET rec == recovery[c].todo[p] IN
         /\ Activate(p, rec, status)
         /\ \E unaudited \in {FALSE, status = "ready"} :
              recovery' = [recovery EXCEPT
                ![c].todo = Less(@, p),
                ![c].canceled = @ \/ status = "canceled",
                ![c].unaudited = @ \/ unaudited,
                ![c].results =
                  IF status = "canceled" THEN @
                  ELSE With(@, p, [record |-> rec, status |-> status])]
    /\ UNCHANGED <<record, writer, snapshot, mu, answer, retry, warm, unstopped>>

(* A cancelled or unrecorded recovery answers an error and caches nothing. *)
Complete(c) == ~recovery[c].canceled /\ ~recovery[c].unaudited

CompleteUnlessUnaudited(c) == ~recovery[c].unaudited

StoresWhen(c, complete) ==
    /\ recovery[c].at = "running" /\ recovery[c].todo = <<>>
    /\ mu' = Nil
    /\ recovery' = [recovery EXCEPT ![c] = Idle]
    /\ IF complete
         THEN /\ snapshot' = recovery[c].results
              /\ answer' = [answer EXCEPT ![c] =
                              currentRecoverySnapshot(recovery[c].results)]
         ELSE UNCHANGED <<snapshot, answer>>
    /\ UNCHANGED <<record, writer, policy, retry, warm, activated, raced,
                   unstopped>>

storeRecoverySnapshotAnyway(c) == StoresWhen(c, CompleteUnlessUnaudited(c))

storeRecoverySnapshot(c) == StoresWhen(c, Complete(c))

-----------------------------------------------------------------------------
(* RetryPluginRecovery                                                     *)

RetryBegin(c, p) ==
    /\ retry[c].at = "idle" /\ record[p].enabled
    /\ retry' = [retry EXCEPT ![c] = [at |-> "refresh", plugin |-> p,
                                      record |-> record[p], status |-> Nil]]
    /\ UNCHANGED <<record, writer, policy, snapshot, mu, recovery, answer,
                   warm, activated, raced, unstopped>>

(* A cancelled retry answers the error and stores nothing.                 *)
RetryRefresh(c) ==
    /\ retry[c].at = "refresh"
    /\ \E status \in {"ready", "failed", "canceled"} :
         /\ Activate(retry[c].plugin, retry[c].record, status)
         /\ retry' = [retry EXCEPT ![c] =
                        IF status = "canceled" THEN NoRetry
                        ELSE [@ EXCEPT !.at = "store", !.status = status]]
    /\ UNCHANGED <<record, writer, snapshot, mu, recovery, answer, warm, unstopped>>

(* Only a result that is already in the snapshot is replaced.              *)
RetryStore(c) ==
    LET p == retry[c].plugin IN
    /\ retry[c].at = "store" /\ mu = Nil
    /\ snapshot' = IF snapshot # Nil /\ p \in DOMAIN snapshot
                     THEN With(snapshot, p, [record |-> retry[c].record,
                                             status |-> retry[c].status])
                     ELSE snapshot
    /\ retry' = [retry EXCEPT ![c] = NoRetry]
    /\ UNCHANGED <<record, writer, policy, mu, recovery, answer, warm,
                   activated, raced, unstopped>>

-----------------------------------------------------------------------------
(* The prewarming at startup                                               *)

WarmList(w) ==
    /\ warm[w].at = "idle"
    /\ warm' = [warm EXCEPT ![w] =
         [at |-> "next", now |-> Nil,
          todo |-> [p \in {q \in Plugins : record[q].enabled} |-> record[p]]]]
    /\ UNCHANGED <<record, writer, policy, snapshot, mu, recovery, answer,
                   retry, activated, raced, unstopped>>


prewarmStartupPlugin(w, p) ==
    /\ warm[w].at = "next" /\ p \in DOMAIN warm[w].todo
    /\ writer[p] = Nil
    /\ warm' = [warm EXCEPT
         ![w] = IF record[p].enabled
                  THEN [at |-> "compile", now |-> p, todo |-> Less(@.todo, p)]
                  ELSE [@ EXCEPT !.todo = Less(@, p)]]
    /\ UNCHANGED <<record, writer, policy, snapshot, mu, recovery, answer,
                   retry, activated, raced, unstopped>>

WarmRelease(w) ==
    /\ warm[w].at = "compile"
    /\ warm' = [warm EXCEPT ![w].at = "next", ![w].now = Nil]
    /\ UNCHANGED <<record, writer, policy, snapshot, mu, recovery, answer,
                   retry, activated, raced, unstopped>>

Next ==
    \/ \E p \in Plugins :
          \/ EnablePlugin(p) \/ DisablePlugin(p) \/ UninstallPlugin(p)
          \/ ImportPackage(p) \/ Finish(p)
          \/ \E c \in Recoveries : refreshEnabledPlugin(c, p)
          \/ \E c \in Retries : RetryBegin(c, p)
          \/ \E w \in Warmers : prewarmStartupPlugin(w, p)
    \/ \E c \in Recoveries : recoverEnabled(c) \/ storeRecoverySnapshot(c)
    \/ \E c \in Retries : RetryRefresh(c) \/ RetryStore(c)
    \/ \E w \in Warmers : WarmList(w) \/ WarmRelease(w)

Spec == Init /\ [][Next]_vars

-----------------------------------------------------------------------------
(* A plugin is reported ready only if the very installation and revision   *)
(* that stood when the answer was formed had been activated: an earlier    *)
(* observation is never carried over to a replacement, and no retry or     *)
(* cancelled recovery lends its result to another record.                  *)
ReadyWasActivated ==
    \A c \in Recoveries : \A p \in DOMAIN answer[c].results :
      answer[c].results[p] = "ready" => <<p, answer[c].seen[p]>> \in activated

(* The cached snapshot is whole: it has a result for every plugin that has *)
(* stayed enabled, unchanged, since startup, so a cancelled attempt is     *)
(* never what later calls project.                                         *)
SnapshotIsWhole ==
    snapshot # Nil =>
      \A p \in Plugins : record[p] = [life |-> 1, rev |-> 1, enabled |-> TRUE]
                          => p \in DOMAIN snapshot

(* Once a disable or an uninstall has answered success, the plugin has no  *)
(* connectivity policy, whatever activations failed before; unless a       *)
(* recovery or a retry that had read the earlier record activates it again.*)
StoppedHasNoPolicy ==
    \A p \in Plugins :
      ~record[p].enabled /\ writer[p] = Nil /\ p \notin raced \cup unstopped =>
        policy[p] = Nil

(* A worker module is prewarmed only while its plugin is installed and     *)
(* enabled and no operation is changing it.                                *)
PrewarmsTheEnabled ==
    \A w \in Warmers : warm[w].at = "compile" =>
      record[warm[w].now].enabled /\ writer[warm[w].now] = Nil
=============================================================================
