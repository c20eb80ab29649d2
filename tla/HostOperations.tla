--------------------------- MODULE HostOperations ---------------------------
(***************************************************************************)
(* The mutating operations of the Host (pkg/host) and what each tells its  *)
(* caller and the security journal about a mutation that failed half-way.  *)
(* Every operation is the sequence of fallible steps its function takes:   *)
(* the checks before anything is written, the pending journal entry, the   *)
(* durable commit, and the steps that bring the runtime, the surfaces and  *)
(* the adapters in line with it.  A step says with which mutation label    *)
(* its error can arrive and how the function relabels it.  The label is    *)
(* all a caller has to decide whether to retry.                            *)
(*                                                                         *)
(* The process can die at any point; the next Open finds the journal.      *)
(* Durable content, plugins and payloads are left out: what is kept is     *)
(* whether the operation's own commit is in the control store.             *)
(***************************************************************************)
EXTENDS Integers, Sequences

VARIABLES op,          \* the operation running, or "none"
          next,        \* the step it takes next
          stage,       \* "idle", "running", "completing", "returned", "down"
          label,       \* the label of its error; "ok" while it has none
          committed,   \* its commit is in the control store
          satisfied,   \* it returned early: the state asked for already held
          journal,     \* its journal entry: "none", "pending" or an outcome
          told,        \* the label handed to the caller, or "nothing"
          slip         \* why its label can be wrong: "none", "commit" or "secrets"

vars == <<op, next, stage, label, committed, satisfied, journal, told, slip>>

Outcomes == {"committed", "not_committed", "unknown"}

-----------------------------------------------------------------------------
(* pkg/mutation: an error carries an explicit label or "none".             *)

\* ForError: an unlabelled error says nothing was committed.
ForError(l) == IF l = "none" THEN "not_committed" ELSE l

CommittedUnlabelled(l) == l

\* Committed and Unknown label an error that has no explicit label yet.
Committed(l) == IF l = "none" THEN "committed" ELSE l

Unknown(l) == IF l = "none" THEN "unknown" ELSE l

\* ForceCommitted overrides whatever the error carried.
ForceCommitted(l) == "committed"

\* &mutation.Error{Outcome: OutcomeNotCommitted} around whatever it carried.
NotCommitted(l) == "not_committed"

Relabel(wrap, l) ==
  CASE wrap = "asIs"           -> l
    [] wrap = "Committed"      -> Committed(l)
    [] wrap = "Unknown"        -> Unknown(l)
    [] wrap = "ForceCommitted" -> ForceCommitted(l)
    [] wrap = "NotCommitted"   -> NotCommitted(l)

-----------------------------------------------------------------------------
(* Steps.  fails: the labels the step's error can arrive with; relabel:    *)
(* what the function makes of it; undo: the failure path writes the        *)
(* predecessor back, and ignores the error of that write.                  *)

Step(kind, fails, relabel) == [kind |-> kind, fails |-> fails, relabel |-> relabel, undo |-> FALSE]

\* Authorization, locks, reads and validation: nothing has been written.
Check == Step("check", {"none"}, "asIs")

\* The state asked for already holds: the function returns success here.
Satisfied == Step("satisfied", {}, "asIs")

BeginUnrecorded == Step("check", {"none"}, "asIs")

\* beginSecurityMutation.
Begin == Step("begin", {"none"}, "asIs")

\* What is committed in memory: an error leaves nothing applied.
Issue == Step("commit", {"none"}, "asIs")

\* A control store transaction that returns the error of COMMIT itself with no
\* label, whether or not it was applied.
Commit == Step("rawCommit", {"none"}, "asIs")

\* ... and a data store around it whose later steps fail unknown.
CommitThenUnknown == Step("rawCommit", {"none", "unknown"}, "asIs")

\* A commit whose store labels the error of COMMIT itself as unknown.
CommitOrUnknown == Step("commit", {"none", "unknown"}, "asIs")

\* revokePluginRuntimeCapabilities, refreshEnabledRuntimeState and the like have
\* a journal entry of their own, and so fail unlabelled or unknown.
Nested(relabel) == Step("after", {"none", "unknown"}, relabel)

\* An adapter or an in-memory authority, whose errors carry no label.
Adapter(relabel) == Step("after", {"none"}, relabel)

Undone(step) == [step EXCEPT !.undo = TRUE]

\* runSecurityMutation around one commit.
Journalled(commit) == <<Check, Begin, commit>>

-----------------------------------------------------------------------------
(* The operations.                                                         *)

\* Preflight, audit, pins, assets, commitInstall; then activation and publication.
installResolvedPackage ==
  <<Check, Begin, Check, CommitThenUnknown, Nested("Committed")>>

\* The package switches version in place: publication and revocation that fail
\* put the predecessor back.
updateResolvedPackage ==
  <<Check, Begin, Check, Nested("asIs"), Commit, Undone(Adapter("Unknown")),
    Undone(Nested("Unknown")), Nested("Committed")>>

\* The new version needs its data upgraded: revoked and fenced before the commit,
\* where every error is relabelled.
commitPluginDataUpgrade ==
  <<Nested("NotCommitted"), Step("check", {"none"}, "NotCommitted"), CommitOrUnknown>>

updateWithDataUpgrade ==
  <<Check, Begin, Check>> \o commitPluginDataUpgrade \o
  <<Nested("ForceCommitted"), Nested("ForceCommitted")>>

\* Back to a retained version, its data where it is.
DowngradePlugin ==
  <<Check, Begin, Nested("asIs"), Commit, Nested("Unknown"), Nested("Unknown")>>

\* ... or restored with it: the runtime is revoked first.
DowngradeWithData ==
  <<Check, Begin, Nested("asIs"), Nested("asIs"), CommitOrUnknown,
    Nested("ForceCommitted"), Nested("ForceCommitted")>>

\* VerifyPackage to removeExternalPackageInspectionArtifact.
installInspectedPackage ==
  <<Check, Nested("asIs"), Begin, Check, CommitThenUnknown, Nested("Committed")>>

updateInspectedPackage ==
  <<Check, Nested("asIs"), Begin, Check, Commit, Nested("Committed")>>

updateInspectedWithData ==
  <<Check, Nested("asIs"), Begin, Check>> \o commitPluginDataUpgrade \o <<Nested("Committed")>>

enablePluginLocked ==
  <<Check, Satisfied, Begin, Commit, Nested("Committed")>>

DisablePlugin ==
  <<Check, Begin, Commit, Adapter("Unknown"), Nested("Unknown")>>

\* The secret adapter's own error, with whatever label it carries.
deleteSecretBindingsIfNeeded == Step("secrets", Outcomes \union {"none"}, "Unknown")

\* Cancellation requests are durable themselves, so their failure is unknown.  What
\* fails after the commit is joined, and Unknown leaves a label it finds there.
UninstallPlugin ==
  <<Check, Begin, Step("after", {"none"}, "Unknown"), CommitThenUnknown, Nested("Unknown"),
    deleteSecretBindingsIfNeeded>>

\* Deleting the data waits for executions that still run.
UninstallBlocked ==
  <<Check, Begin, Step("blocked", {"none"}, "Unknown")>>

GrantPermission == <<Check, Begin, Commit, Nested("Unknown")>>

RevokePermission == <<Check, Begin, Commit, Nested("Unknown")>>

PutSecurityPolicy == <<Check, Begin, Commit, Nested("Unknown")>>

DeleteSecurityPolicy == <<Check, Begin, Commit, Nested("Unknown")>>

SetAutomaticUpdates == <<Check, Satisfied, Begin, Commit>>

CommitRetainedRecovery == <<Check, Begin, CommitOrUnknown, Nested("Unknown")>>

ApproveConnection == <<Check, Begin, CommitOrUnknown>>

RevokeConnection == <<Check, Begin, CommitOrUnknown>>

ApproveFileResource == <<Check, Begin, CommitOrUnknown>>

\* The open object is closed once the row is revoked.
RevokeFileResource == <<Check, Begin, CommitOrUnknown, Adapter("Committed")>>

DeleteRetainedData == Journalled(CommitThenUnknown)

ExportPluginData == Journalled(CommitThenUnknown)

\* The answer decodes what the store has just encoded.
PatchPluginSettings == <<Check, Begin, CommitOrUnknown>>

ImportPluginData == <<Check, Begin, CommitThenUnknown, Adapter("Unknown")>>

\* The secret adapter's own label, about its own write, is kept; an unlabelled
\* error is unknown.
secretAdapterFailure == Step("commit", Outcomes \union {"none"}, "Unknown")

BindSecretRef == <<Check, Begin, secretAdapterFailure>>

TestSecretRef == <<Check, Begin, secretAdapterFailure>>

DeleteSecretRef == <<Check, Begin, secretAdapterFailure>>

MintBridgeToken == <<Check, Begin, Issue>>

MintConnectionGrant == <<Check, Begin, Issue>>

\* The connection grant first, then the handle that carries it.
MintNetworkHandleGrant == <<Check, Begin, Check, Issue>>

MintStorageHandleGrant == <<Check, Begin, Issue>>

\* The runtime starts; unhealthy, or with the journal of runtimes not written, it
\* is stopped again.
startRuntimeFromCatalog ==
  <<Check, Begin, CommitOrUnknown, Undone(Step("unhealthy", {"none", "unknown"}, "asIs")),
    Undone(Adapter("Unknown"))>>

\* Stop is called even when the journal of runtimes could not say so first.
StopRuntime == <<Check, Begin, Step("commit", {"none"}, "Unknown"), Adapter("Unknown")>>

revokePluginRuntimeCapabilities ==
  <<Check, Begin, Step("commit", {"none"}, "Unknown")>>

installConnectivityPolicy == <<Check, Begin, Issue>>

operations ==
  [InstallLocalPackage |-> installResolvedPackage,
   UpdateLocalPackage |-> updateResolvedPackage,
   UpdateWithDataUpgrade |-> updateWithDataUpgrade,
   DowngradePlugin |-> DowngradePlugin,
   DowngradeWithData |-> DowngradeWithData,
   InstallInspectedPackage |-> installInspectedPackage,
   UpdateInspectedPackage |-> updateInspectedPackage,
   UpdateInspectedWithData |-> updateInspectedWithData,
   EnablePlugin |-> enablePluginLocked,
   DisablePlugin |-> DisablePlugin,
   UninstallPlugin |-> UninstallPlugin,
   UninstallBlocked |-> UninstallBlocked,
   GrantPermission |-> GrantPermission,
   RevokePermission |-> RevokePermission,
   PutSecurityPolicy |-> PutSecurityPolicy,
   DeleteSecurityPolicy |-> DeleteSecurityPolicy,
   SetAutomaticUpdates |-> SetAutomaticUpdates,
   CommitRetainedRecovery |-> CommitRetainedRecovery,
   ApproveConnection |-> ApproveConnection,
   RevokeConnection |-> RevokeConnection,
   ApproveFileResource |-> ApproveFileResource,
   RevokeFileResource |-> RevokeFileResource,
   DeleteRetainedData |-> DeleteRetainedData,
   ExportPluginData |-> ExportPluginData,
   PatchPluginSettings |-> PatchPluginSettings,
   ImportPluginData |-> ImportPluginData,
   BindSecretRef |-> BindSecretRef,
   TestSecretRef |-> TestSecretRef,
   DeleteSecretRef |-> DeleteSecretRef,
   MintBridgeToken |-> MintBridgeToken,
   MintConnectionGrant |-> MintConnectionGrant,
   MintNetworkHandleGrant |-> MintNetworkHandleGrant,
   MintStorageHandleGrant |-> MintStorageHandleGrant,
   StartRuntime |-> startRuntimeFromCatalog,
   StopRuntime |-> StopRuntime,
   RevokePluginRuntime |-> revokePluginRuntimeCapabilities,
   InstallConnectivityPolicy |-> installConnectivityPolicy]

-----------------------------------------------------------------------------
TypeOK ==
  /\ op \in DOMAIN operations \union {"none"}
  /\ next \in 1..12
  /\ stage \in {"idle", "running", "completing", "returned", "down"}
  /\ label \in Outcomes \union {"none", "ok"}
  /\ committed \in BOOLEAN /\ satisfied \in BOOLEAN
  /\ journal \in Outcomes \union {"none", "pending"}
  /\ told \in Outcomes \union {"nothing", "ok"}
  /\ slip \in {"none", "commit", "secrets"}

Fresh ==
  /\ op = "none" /\ next = 1 /\ stage = "idle" /\ label = "ok"
  /\ committed = FALSE /\ satisfied = FALSE /\ journal = "none" /\ told = "nothing"
  /\ slip = "none"

Init == Fresh

Call ==
  /\ stage = "idle"
  /\ op' \in DOMAIN operations /\ stage' = "running"
  /\ UNCHANGED <<next, label, committed, satisfied, journal, told, slip>>

Current == operations[op][next]

Running == stage = "running" /\ next <= Len(operations[op])

\* A step succeeds: beginSecurityMutation leaves a pending entry, a commit lands.
StepSucceeds ==
  /\ Running /\ Current.kind # "blocked"
  /\ next' = next + 1
  /\ journal' = IF Current.kind = "begin" THEN "pending" ELSE journal
  /\ committed' = (committed \/ Current.kind \in {"commit", "rawCommit"})
  /\ UNCHANGED <<op, stage, label, satisfied, told, slip>>

\* The function returns success without doing anything.
ReturnSatisfied ==
  /\ Running /\ Current.kind = "satisfied"
  /\ satisfied' = TRUE /\ stage' = "completing"
  /\ UNCHANGED <<op, next, label, committed, journal, told, slip>>

\* What of the operation is in the store after its step failed with label l: an error
\* at the commit says what its label says, one without a label nothing unless the
\* function knows it for unknown; COMMIT's own error may have been applied; a failure
\* path that undoes the commit may fail itself.
Leaves(step, l) ==
  CASE step.kind = "rawCommit" -> BOOLEAN
    [] step.kind = "commit"    -> CASE Relabel(step.relabel, l) = "unknown"   -> BOOLEAN
                                    [] Relabel(step.relabel, l) = "committed" -> {TRUE}
                                    [] OTHER                                  -> {committed}
    [] step.kind = "unhealthy" -> IF l = "none" THEN {FALSE} ELSE BOOLEAN
    [] step.undo               -> {FALSE, committed}
    [] OTHER                   -> {committed}

\* A step fails and its function returns.
StepFails ==
  /\ Running
  /\ \E l \in Current.fails :
       /\ label' = Relabel(Current.relabel, l)
       /\ committed' \in Leaves(Current, l)
       /\ slip' = CASE Current.kind = "rawCommit" /\ l = "none" /\ committed' -> "commit"
                    [] Current.kind = "secrets" /\ l = "not_committed"       -> "secrets"
                    [] OTHER                                                -> slip
  /\ stage' = "completing"
  /\ UNCHANGED <<op, next, satisfied, journal, told>>

StepsDone ==
  /\ stage = "running" /\ next > Len(operations[op])
  /\ stage' = "completing"
  /\ UNCHANGED <<op, next, label, committed, satisfied, journal, told, slip>>

\* completeWithDetails: the entry gets the outcome of the function's error.
OutcomeOf(l) == IF l = "ok" THEN "committed" ELSE ForError(l)

\* The deferred completion: the entry is closed; that write, or the export after
\* it, can fail, and then an error with no label of its own is unknown.
Complete ==
  /\ stage = "completing"
  /\ \/ /\ journal = "none" /\ UNCHANGED journal
        /\ told' = IF label = "ok" THEN "ok" ELSE ForError(label)
     \/ /\ journal = "pending" /\ journal' = OutcomeOf(label)
        /\ told' = IF label = "ok" THEN "ok" ELSE ForError(label)
     \/ /\ journal = "pending" /\ journal' \in {"pending", OutcomeOf(label)}
        /\ told' = Unknown(IF label = "ok" THEN "none" ELSE label)
  /\ stage' = "returned"
  /\ UNCHANGED <<op, next, label, committed, satisfied, slip>>

\* The process dies while the operation runs.
Crash ==
  /\ stage \in {"running", "completing", "returned"}
  /\ stage' = "down"
  /\ UNCHANGED <<op, next, label, committed, satisfied, journal, told, slip>>

\* Open: ReconcilePendingSecurityAudits closes what a dead process left pending.
ReconcilePending(entry) == IF entry = "pending" THEN "unknown" ELSE entry

Open ==
  /\ stage = "down"
  /\ journal' = ReconcilePending(journal)
  /\ stage' = "returned"
  /\ UNCHANGED <<op, next, label, committed, satisfied, told, slip>>

Forget ==
  /\ stage = "returned" /\ journal # "pending"
  /\ op' = "none" /\ next' = 1 /\ stage' = "idle" /\ label' = "ok" /\ committed' = FALSE
  /\ satisfied' = FALSE /\ journal' = "none" /\ told' = "nothing" /\ slip' = "none"

Next ==
  Call \/ StepSucceeds \/ ReturnSatisfied \/ StepFails \/ StepsDone \/ Complete \/ Crash
  \/ Open \/ Forget

Spec == Init /\ [][Next]_vars

-----------------------------------------------------------------------------
Says(outcome) ==
  /\ outcome \in {"ok", "committed"} => committed \/ satisfied
  /\ outcome = "not_committed" => ~committed \/ slip # "none"

\* Whatever step of a Host operation fails, neither the error its caller gets nor the
\* journal entry it closes says "committed" of a commit that is not in the store, and
\* they say "not committed" of one that is in only two cases: COMMIT itself answered an
\* error after it was applied and the store returned that error without a label
\* (putPluginRecord, SetEnableState, ReplaceAuthorization, SetAutomaticUpdates,
\* pluginDataMutation), or an uninstall had committed and the secret adapter labelled
\* its own failure not committed (mutation.ForError, mutation.Unknown).
OutcomesTrue == Says(told) /\ Says(journal)

\* No commit of a journalled operation is ever in the store without a journal entry,
\* wherever the process dies, and once the Host has been opened again that entry has an
\* outcome (beginSecurityMutation comes before every commit).
CommitsJournalled ==
  /\ committed => journal # "none"
  /\ stage = "idle" => journal # "pending"
=============================================================================
