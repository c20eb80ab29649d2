-------------------------- MODULE InspectedInstall --------------------------
(***************************************************************************)
(* Installing a package from outside: bytes are staged under a quota       *)
(* (pkg/externalsource/stage.go), inspected and held for the user's review *)
(* (pkg/host/external_package.go), and installed once by an operation that *)
(* survives the session and the Host (pkg/host/inspected_install.go over   *)
(* internal/controlstore/inspected_install.go).                            *)
(*                                                                         *)
(* Reviews and staged bytes are lost with the process; operations and the  *)
(* plugin record are not.  What is fetched, parsed and shown is left out.  *)
(***************************************************************************)
EXTENDS Integers, FiniteSets, FiniteSetsExt

CONSTANTS Inspections, \* inspections, each with the artifact staged for it
          Requests,    \* request ids of installs
          Nil,         \* no inspection, no row
          MaxArtifact, \* MaxArtifactBytes
          MaxStaged    \* MaxStagedBytes

VARIABLES up,        \* the Host is open
          transfer,  \* transfers under way: bytes written and bytes reserved
          files,     \* bytes of each staged file
          quota,     \* the counters: staged and reserved bytes, and the artifact sizes
          insp,      \* the review of each inspection: its state, or "none"
          cleaning,  \* the state a cleanup claimed the review in
          orphans,   \* artifacts whose removal failed with no review to retry it
          strays,    \* files of broken transfers whose removal failed, which nobody counts
          starting,  \* per request: the inspection StartInspectedInstall has begun
          job,       \* per request: where its lifecycle job stands
          row,       \* per request: the operation row
          evidence,  \* requests the plugin record or its history names as approval
          did,       \* requests whose install was committed, ever
          unlabelled \* those whose COMMIT was applied and answered an error without an outcome

vars == <<up, transfer, files, quota, insp, cleaning, orphans, strays, starting, job, row,
          evidence, did, unlabelled>>

NoTransfer == [active |-> FALSE, written |-> 0, reserved |-> 0]

NoRow == [status |-> "none", insp |-> Nil, outcome |-> "unknown"]

NoQuota == [staged |-> 0, reserved |-> 0, artifacts |-> [i \in Inspections |-> 0]]

TypeOK ==
  /\ up \in BOOLEAN
  /\ insp \in [Inspections -> {"none", "pending", "committing", "failed", "cleaning"}]
  /\ files \in [Inspections -> 0..MaxArtifact]
  /\ \A q \in Requests : /\ row[q].status \in {"none", "running", "completed", "failed"}
                         /\ job[q] \in {"none", "run", "locked", "committed", "late", "lost", "tail", "removing", "finish"}
  /\ evidence \subseteq Requests /\ did \subseteq Requests /\ unlabelled \subseteq did

Init ==
  /\ up = TRUE /\ transfer = [i \in Inspections |-> NoTransfer]
  /\ files = [i \in Inspections |-> 0] /\ quota = NoQuota
  /\ insp = [i \in Inspections |-> "none"] /\ cleaning = [i \in Inspections |-> "none"]
  /\ orphans = {} /\ strays = {}
  /\ starting = [q \in Requests |-> Nil] /\ job = [q \in Requests |-> "none"]
  /\ row = [q \in Requests |-> NoRow] /\ evidence = {} /\ did = {} /\ unlabelled = {}

Operations == <<starting, job, row, evidence, did, unlabelled>>

Removals == <<cleaning, orphans, strays>>

Staging == <<transfer, files, quota>>

-----------------------------------------------------------------------------
(* Staging under the byte quota.                                           *)

reserveStageBytes(n) == quota.staged + quota.reserved + n =< MaxStaged

commitStageReservation(i, t) ==
  [quota EXCEPT !.reserved = @ - t.reserved, !.staged = @ + t.written, !.artifacts[i] = t.written]

releaseStagedArtifact(i) ==
  [quota EXCEPT !.staged = @ - quota.artifacts[i], !.artifacts[i] = 0]

Fresh(i) ==
  /\ insp[i] = "none" /\ files[i] = 0 /\ ~transfer[i].active /\ i \notin orphans \union strays
  /\ \A q \in Requests : row[q].insp # i /\ starting[q] # i

\* A fetch reserves its limit, an upload its declared size or nothing.
initialReservation == 0..MaxArtifact

BeginTransfer(i) ==
  /\ up /\ Fresh(i)
  /\ \E n \in initialReservation :
       /\ reserveStageBytes(n)
       /\ transfer' = [transfer EXCEPT ![i] = [active |-> TRUE, written |-> 0, reserved |-> n]]
       /\ quota' = [quota EXCEPT !.reserved = @ + n]
  /\ UNCHANGED <<up, files, insp, Removals, Operations>>

\* The writer reserves before each byte it retains; without room the transfer fails.
Write(i) ==
  LET t == transfer[i]
      more == IF t.written + 1 > t.reserved THEN 1 ELSE 0
  IN /\ up /\ t.active /\ t.written < MaxArtifact /\ reserveStageBytes(more)
     /\ transfer' = [transfer EXCEPT ![i].written = @ + 1, ![i].reserved = @ + more]
     /\ files' = [files EXCEPT ![i] = @ + 1]
     /\ quota' = [quota EXCEPT !.reserved = @ + more]
     /\ UNCHANGED <<up, insp, Removals, Operations>>

\* Empty, oversized, out of quota, or broken off: the reservation goes, and the file unless
\* its removal fails, which is not noticed.
TransferFails(i) ==
  /\ up /\ transfer[i].active
  /\ transfer' = [transfer EXCEPT ![i] = NoTransfer]
  /\ \/ files' = [files EXCEPT ![i] = 0] /\ UNCHANGED strays
     \/ files[i] > 0 /\ strays' = strays \union {i} /\ UNCHANGED files
  /\ quota' = [quota EXCEPT !.reserved = @ - transfer[i].reserved]
  /\ UNCHANGED <<up, insp, cleaning, orphans, Operations>>

\* Staged; then verified and put up for review, or removed again (which may fail).
inspectStagedExternalPackage(i) ==
  /\ up /\ transfer[i].active /\ transfer[i].written > 0
  /\ transfer' = [transfer EXCEPT ![i] = NoTransfer]
  /\ LET q == commitStageReservation(i, transfer[i])
     IN \/ /\ insp' = [insp EXCEPT ![i] = "pending"] /\ quota' = q /\ UNCHANGED <<files, orphans>>
        \/ /\ orphans' = orphans \union {i} /\ quota' = q /\ UNCHANGED <<files, insp>>
        \/ /\ files' = [files EXCEPT ![i] = 0]
           /\ quota' = [q EXCEPT !.staged = @ - q.artifacts[i], !.artifacts[i] = 0]
           /\ UNCHANGED <<insp, orphans>>
  /\ UNCHANGED <<up, cleaning, strays, Operations>>

\* The inspected package is not the one asked for.
InspectMismatch(i) ==
  /\ up /\ insp[i] = "pending"
  /\ \A q \in Requests : row[q].insp # i /\ starting[q] # i
  /\ insp' = [insp EXCEPT ![i] = "failed"]
  /\ UNCHANGED <<up, Staging, Removals, Operations>>

RemoveArtifact(i) ==
  /\ files' = [files EXCEPT ![i] = 0] /\ quota' = releaseStagedArtifact(i)

\* Remove the bytes and drop the review, or fail and keep both for the next cleanup.
removeExternalPackageInspectionArtifact(i, else) ==
  \/ /\ RemoveArtifact(i) /\ insp' = [insp EXCEPT ![i] = "none"]
  \/ /\ files[i] > 0 /\ insp[i] # "none" /\ insp' = [insp EXCEPT ![i] = else]
     /\ UNCHANGED <<files, quota>>

-----------------------------------------------------------------------------
(* Cleanup of expired reviews, and of a session's or the Host's at its end. *)

claimAnyCleanup(i) == insp[i] \notin {"none", "cleaning"}

claimCleanup(i) == insp[i] \in {"pending", "failed"}

CleanupClaim(i) ==
  /\ up /\ claimCleanup(i)
  /\ cleaning' = [cleaning EXCEPT ![i] = insp[i]] /\ insp' = [insp EXCEPT ![i] = "cleaning"]
  /\ UNCHANGED <<up, Staging, orphans, strays, Operations>>

\* The removal, then finishCleanup if the review is still the one claimed.
finishCleanup(i) ==
  /\ up /\ cleaning[i] # "none"
  /\ cleaning' = [cleaning EXCEPT ![i] = "none"]
  /\ \/ /\ RemoveArtifact(i)
        /\ insp' = [insp EXCEPT ![i] = IF @ = "cleaning" THEN "none" ELSE @]
     \/ /\ insp' = [insp EXCEPT ![i] = IF @ = "cleaning" THEN cleaning[i] ELSE @]
        /\ UNCHANGED <<files, quota>>
  /\ UNCHANGED <<up, transfer, orphans, strays, Operations>>

-----------------------------------------------------------------------------
(* The operation.                                                          *)

\* A request with a row is answered from it, whatever became of the review.
BeginInstall(q, i) ==
  /\ up /\ row[q].status = "none" /\ insp[i] = "pending"
  /\ \A p \in Requests : starting[p] = Nil          \* inspectedInstallMu
  /\ insp' = [insp EXCEPT ![i] = "committing"] /\ starting' = [starting EXCEPT ![q] = i]
  /\ UNCHANGED <<up, Staging, Removals, job, row, evidence, did, unlabelled>>

\* The unique index inspected_install_claim: one operation per inspection.
ClaimFree(q) == \A p \in Requests : row[p].insp # starting[q]

finish(i, state) == [insp EXCEPT ![i] = IF @ = "none" THEN @ ELSE state]

\* The row is inserted and the job started; a refused insert, or a Host that is closing
\* and refuses the job, gives the review back.
StartInspectedInstall(q) ==
  LET i == starting[q]
  IN /\ up /\ i # Nil /\ starting' = [starting EXCEPT ![q] = Nil]
     /\ \/ /\ ClaimFree(q) /\ UNCHANGED insp
           /\ row' = [row EXCEPT ![q] = [status |-> "running", insp |-> i, outcome |-> "unknown"]]
           /\ job' = [job EXCEPT ![q] = "run"]
        \/ /\ ClaimFree(q) /\ insp' = finish(i, "pending") /\ UNCHANGED job
           /\ row' = [row EXCEPT ![q] = [status |-> "failed", insp |-> i, outcome |-> "not_committed"]]
        \/ /\ insp' = finish(i, "pending") /\ UNCHANGED <<row, job>>
     /\ UNCHANGED <<up, Staging, Removals, evidence, did, unlabelled>>

\* The job's lock on the plugin: refused when its context ends, which gives the review back
\* before the failure takes it away.
JobLock(q) ==
  LET i == row[q].insp
  IN /\ up /\ job[q] = "run"
     /\ \/ /\ insp[i] = "committing" /\ job' = [job EXCEPT ![q] = "locked"] /\ UNCHANGED insp
        \/ /\ insp[i] = "committing" /\ job' = [job EXCEPT ![q] = "tail"]
           /\ insp' = finish(i, "pending")
        \/ /\ job' = [job EXCEPT ![q] = "tail"] /\ UNCHANGED insp
     /\ UNCHANGED <<up, Staging, Removals, starting, row, evidence, did, unlabelled>>

updateExternalPackageRecord(q) == evidence' = evidence \union {q} /\ did' = did \union {q}

\* The staged bytes are verified again and the record committed.  Only the upgrade of a
\* plugin's data labels a failed COMMIT unknown; an install or a plain update hands its error
\* back unlabelled, applied or not.  What cannot be rolled back or audited is unknown too.
JobCommit(q) ==
  /\ up /\ job[q] = "locked"
  /\ \/ /\ files[row[q].insp] > 0 /\ updateExternalPackageRecord(q)
        /\ \E at \in {"committed", "lost", "tail"} :
             /\ job' = [job EXCEPT ![q] = at]
             /\ unlabelled' = IF at = "tail" THEN unlabelled \union {q} ELSE unlabelled
     \/ /\ job' \in {[job EXCEPT ![q] = "tail"], [job EXCEPT ![q] = "lost"]}
        /\ UNCHANGED <<evidence, did, unlabelled>>
  /\ UNCHANGED <<up, Staging, insp, Removals, starting, row>>

Labelled(q, o) == [row EXCEPT ![q].outcome = o]

\* mutation.ForError of the job's failure: what carries no outcome was not committed.
ForError(at) == CASE at = "late" -> "committed" [] at = "lost" -> "unknown" [] OTHER -> "not_committed"

\* A failure fails the review; its outcome is kept with the job.
JobFails(q) ==
  /\ up /\ job[q] \in {"late", "lost", "tail"}
  /\ insp' = finish(row[q].insp, "failed")
  /\ row' = Labelled(q, ForError(job[q]))
  /\ job' = [job EXCEPT ![q] = "removing"]
  /\ UNCHANGED <<up, Staging, Removals, starting, evidence, did, unlabelled>>

\* Then the bytes go.  Once committed, a failure to activate the plugin or to remove the
\* bytes is told as committed, and one of the audit alone as unknown.
JobRemove(q) ==
  /\ up /\ job[q] \in {"committed", "removing"}
  /\ removeExternalPackageInspectionArtifact(row[q].insp, "failed")
  /\ \/ /\ job[q] = "committed" => insp'[row[q].insp] = "none"
        /\ row' = IF job[q] = "committed" THEN Labelled(q, "committed") ELSE row
        /\ job' = [job EXCEPT ![q] = "finish"]
     \/ /\ job[q] = "committed" /\ UNCHANGED row
        /\ job' \in {[job EXCEPT ![q] = "late"], [job EXCEPT ![q] = "lost"]}
        /\ insp'[row[q].insp] # "none" => job'[q] = "late"
  /\ UNCHANGED <<up, transfer, Removals, starting, evidence, did, unlabelled>>

\* The outcome is written once; if that fails the operation is left to the next start.
FinishInspectedInstall(q) ==
  /\ up /\ job[q] = "finish" /\ job' = [job EXCEPT ![q] = "none"]
  /\ \/ /\ row[q].outcome = "committed" /\ row' = [row EXCEPT ![q].status = "completed"]
     \/ row' = [row EXCEPT ![q].status = "failed"]
     \/ row' = Labelled(q, "unknown")
  /\ UNCHANGED <<up, Staging, insp, Removals, starting, evidence, did, unlabelled>>

\* The plugin is uninstalled, or its history drops the version.
ForgetEvidence(q) ==
  /\ up /\ q \in evidence /\ evidence' = evidence \ {q}
  /\ UNCHANGED <<up, Staging, insp, Removals, starting, job, row, did, unlabelled>>

-----------------------------------------------------------------------------
Crash ==
  /\ up /\ up' = FALSE
  /\ transfer' = [i \in Inspections |-> NoTransfer] /\ quota' = NoQuota
  /\ insp' = [i \in Inspections |-> "none"] /\ cleaning' = [i \in Inspections |-> "none"]
  /\ orphans' = {} /\ strays' = {}
  /\ starting' = [q \in Requests |-> Nil] /\ job' = [q \in Requests |-> "none"]
  /\ row' = [q \in Requests |-> IF row[q].status = "running" THEN [row[q] EXCEPT !.outcome = "unknown"]
                                ELSE row[q]]
  /\ UNCHANGED <<files, evidence, did, unlabelled>>

inspectedInstallAssumed(q) == "committed"

\* A running operation was committed exactly if the record or its history names it.
inspectedInstallCommitted(q) == IF q \in evidence THEN "committed" ELSE "unknown"

InspectedInstallRecovery == {q \in Requests : row[q].status = "running"}

\* Open: the stage directory is emptied and every running operation reconciled.
Open ==
  /\ ~up /\ up' = TRUE /\ files' = [i \in Inspections |-> 0]
  /\ row' = [q \in Requests |-> IF q \notin InspectedInstallRecovery THEN row[q] ELSE
               [row[q] EXCEPT !.outcome = inspectedInstallCommitted(q),
                 !.status = IF inspectedInstallCommitted(q) = "committed" THEN "completed" ELSE "failed"]]
  /\ UNCHANGED <<transfer, quota, insp, Removals, starting, job, evidence, did, unlabelled>>

Next ==
  \/ \E i \in Inspections : BeginTransfer(i) \/ Write(i) \/ TransferFails(i)
                            \/ inspectStagedExternalPackage(i) \/ InspectMismatch(i)
                            \/ CleanupClaim(i) \/ finishCleanup(i)
  \/ \E q \in Requests, i \in Inspections : BeginInstall(q, i)
  \/ \E q \in Requests : StartInspectedInstall(q) \/ JobLock(q) \/ JobCommit(q) \/ JobFails(q) \/ JobRemove(q)
                         \/ FinishInspectedInstall(q) \/ ForgetEvidence(q)
  \/ Crash \/ Open

Spec == Init /\ [][Next]_vars

-----------------------------------------------------------------------------
\* An operation's recorded outcome never lies, across a crash at any point between the
\* commit of the plugin and of the operation: committed was, not_committed was not, unless
\* the COMMIT that applied it answered an error without an outcome and the Host lived to tell
\* it; and no inspection is installed by two requests (FinishInspectedInstall,
\* inspectedInstallCommitted).
InstallOutcomeTrue ==
  /\ \A q \in Requests : row[q].status \in {"completed", "failed"} =>
       /\ row[q].outcome = "committed" => q \in did
       /\ row[q].outcome = "not_committed" => q \notin did \ unlabelled
  /\ \A p, q \in did : row[p].insp = row[q].insp => p = q

\* The stage never counts more than its quota, its counters are exactly the files it holds
\* besides the strays of broken transfers, and each of those files has someone to remove it:
\* a transfer, a review, or the error of a removal that failed.  A review the user can still
\* start has its bytes (commitStageReservation, claimCleanup,
\* removeExternalPackageInspectionArtifact).
StagedBytesOwned ==
  up =>
    /\ quota.staged = MapThenSumSet(LAMBDA i : IF transfer[i].active \/ i \in strays THEN 0 ELSE files[i], Inspections)
    /\ quota.reserved = MapThenSumSet(LAMBDA i : transfer[i].reserved, Inspections)
    /\ quota.staged + quota.reserved =< MaxStaged
    /\ \A i \in Inspections :
         /\ files[i] > 0 => transfer[i].active \/ insp[i] # "none" \/ i \in orphans \union strays
         /\ insp[i] = "pending" /\ (\A q \in Requests : row[q].insp # i) => files[i] > 0
         /\ insp[i] = "committing" /\ (\E q \in Requests : job[q] = "locked" /\ row[q].insp = i)
              => files[i] > 0
=============================================================================
