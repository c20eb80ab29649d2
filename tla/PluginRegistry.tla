---------------------------- MODULE PluginRegistry ----------------------------
(***************************************************************************)
(* The durable record of one installed plugin and the Host operations that *)
(* move it: install, update with its rollback, enable, disable and         *)
(* uninstall (under the plugin's lifecycle write lock), permission and     *)
(* policy changes (under no lock, by a compare-and-swap on the revisions), *)
(* method calls (which read the record, decide, and prepare the worker)    *)
(* and the one recovery pass of a Host start.  A record that is not        *)
(* approved for execution may have been left by an earlier version: a call,*)
(* a recovery or an enable that meets it is denied and revokes the plugin  *)
(* (canRun), under whatever lock it holds, usually none.                   *)
(*                                                                         *)
(* A row of plugin_records holds the revisions twice: in the columns that  *)
(* the compare-and-swap statements test (col) and in record_json, which    *)
(* every reader decodes (rev).  The database has one connection, so a      *)
(* transaction is one step, and two statements outside a transaction are   *)
(* two steps.  A COMMIT may return an error though it was applied; the     *)
(* operation then ends with the row changed and nothing else done.         *)
(***************************************************************************)
EXTENDS Naturals, FiniteSets, TLAPS

CONSTANTS
    Managers,       \* goroutines running lifecycle operations
    Authorizers,    \* goroutines changing grants or the security policy
    Callers,        \* goroutines running a method call
    Recoverers,     \* goroutines running RecoverEnabled
    Packages,       \* the packages of the plugin
    Denied,         \* packages whose record is not approved for execution
    ManagerOps,     \* the lifecycle operations requested
    AuthorizerOps,  \* the authorization operations requested
    MaxOps,         \* bound on the operations of a behaviour
    MaxFaults,      \* bound on the adapter and storage failures
    NoOne           \* no client, no package, no policy

VARIABLES
    row,            \* the plugin_records row
    grant,          \* the permission_grants row of the one permission
    policy,         \* the security_policies row
    catalog,        \* the package whose surfaces the product catalog shows
    connectivity,   \* the policy set the connectivity broker holds
    ready,          \* workerPreparation.ready
    gate,           \* the holder of workerPreparation.gate
    floor,          \* the epoch below which surface tokens are revoked
    lock,           \* the holder of the lifecycle write lock
    readers,        \* the holders of the lifecycle read lock
    recovered,      \* RecoverEnabled has run in this Host
    ops,            \* operations requested so far
    faults,         \* failures so far
    cl              \* the clients: program counter and locals

vars == <<row, grant, policy, catalog, connectivity, ready, gate, floor, lock,
          readers, recovered, ops, faults, cl>>

Clients == Managers \union Authorizers \union Callers \union Recoverers

Bigger(a, b) == IF a >= b THEN a ELSE b

(* AuthorizationRevisions *)
Revision(p, m, e) == [policy |-> p, management |-> m, epoch |-> e]

ZeroRevision == Revision(0, 0, 0)

(* getPluginRecord: what a reader decodes of the row *)
Installed == row.there /\ ~row.deleted

Record == [enabled |-> row.enabled, pkg |-> row.pkg, rev |-> row.rev, inst |-> row.inst]

NoRecord == [enabled |-> FALSE, pkg |-> NoOne, rev |-> ZeroRevision, inst |-> 0]

(* RunnablePluginRecord: the approval is recorded with the package *)
Runnable(pkg) == pkg \notin Denied

(* what a compiled connectivity policy and a worker preparation are bound to *)
Identity(rec) == [pkg |-> rec.pkg, rev |-> rec.rev]

Idle == [pc |-> "idle", op |-> "none", target |-> NoOne, from |-> NoOne,
         rec |-> NoRecord, exp |-> ZeroRevision, grant |-> "none",
         policy |-> "none", bound |-> FALSE, real |-> FALSE]

(* a grant and a policy under which the call is permitted *)
Allows(g, p) == g = "granted" /\ p # "deny"

EvaluateGrantOnly(g, p) == g = "granted"

(* evaluateAuthorizationDecision, of what the three queries have read *)
Evaluate(g, p) == p # "deny" /\ g = "granted"

(* row.inst counts the installations and row.rewound says that an enable or *)
(* a disable has overwritten a later epoch; both are history and in no      *)
(* column of the table.                                                     *)
NoRow == [there |-> FALSE, deleted |-> FALSE, enabled |-> FALSE, pkg |-> NoOne,
          rev |-> ZeroRevision, col |-> ZeroRevision, inst |-> 0, rewound |-> FALSE]

(* a record an earlier process left; one of a package that may not run was  *)
(* written by an earlier version, without an approval                       *)
OldRow(pkg, on) ==
    [there |-> TRUE, deleted |-> FALSE, enabled |-> on, pkg |-> pkg,
     rev |-> Revision(1, 1, 1), col |-> Revision(1, 1, 1), inst |-> 1, rewound |-> FALSE]

Init ==
    /\ \/ row = NoRow
       \/ \E pkg \in Packages, on \in BOOLEAN : row = OldRow(pkg, on)
    /\ grant = "none" /\ policy = "none"
    /\ catalog = NoOne /\ connectivity = NoOne /\ ready = NoOne /\ gate = NoOne
    /\ floor = 0 /\ lock = NoOne /\ readers = {} /\ recovered = FALSE /\ ops = 0
    /\ faults = 0
    /\ cl = [c \in Clients |-> Idle]

At(c, pc) == cl[c].pc = pc

Move(c, pc) == cl' = [cl EXCEPT ![c].pc = pc]

(* the operation returns; a manager or a preparing caller drops its lock *)
Return(c) ==
    /\ cl' = [cl EXCEPT ![c] = Idle]
    /\ lock' = IF lock = c THEN NoOne ELSE lock
    /\ readers' = readers \ {c}

Derived == <<catalog, connectivity, ready, gate, floor>>
Durable == <<row, grant, policy>>
Locks == <<lock, readers>>
Counts == <<recovered, ops>>

(* a storage, audit, context or adapter error *)
Fails == faults < MaxFaults /\ faults' = faults + 1
Works == UNCHANGED faults

(* after a COMMIT: the operation goes on as next says, or the COMMIT was    *)
(* applied and returned an error                                            *)
Applied(c, next) ==
    \/ Works /\ cl' = next /\ UNCHANGED Locks
    \/ Fails /\ Return(c)

-----------------------------------------------------------------------------
(* The request names the revisions its caller last saw. *)

Request(c, op, target) ==
    /\ At(c, "idle") /\ ops < MaxOps
    /\ ops' = ops + 1
    /\ cl' = [cl EXCEPT ![c] = [Idle EXCEPT
                !.pc = IF c \in Managers THEN "want" ELSE "read",
                !.op = op, !.target = target, !.exp = row.rev]]
    /\ Works /\ UNCHANGED <<Durable, Derived, Locks, recovered>>

(* acquireWrite, then getPluginRecord and requireManagementRevision *)
AcquireWrite(m) ==
    LET op == cl[m].op
        refused == \/ op = "install" /\ Installed
                   \/ op # "install" /\ ~Installed
                   \/ op # "install" /\ row.rev.management # cl[m].exp.management
                   \/ op = "enable" /\ row.enabled
        next == CASE op \in {"enable", "disable"} -> "setRead"
                  [] op = "update" /\ row.enabled -> "prepare"
                  [] op = "update" /\ ~row.enabled -> "put"
                  [] OTHER -> "commit"
    IN  /\ At(m, "want") /\ lock = NoOne /\ readers = {}
        /\ IF refused
           THEN Return(m)
           ELSE /\ lock' = m
                /\ cl' = [cl EXCEPT ![m].pc = next, ![m].rec = Record,
                                    ![m].from = row.pkg]
                /\ UNCHANGED readers
        /\ Works /\ UNCHANGED <<Durable, Derived, Counts>>

(* a storage, audit or context error before the durable step *)
Abort(m) ==
    /\ cl[m].pc \in {"setRead", "setWrite", "put", "commit"}
    /\ Fails /\ Return(m)
    /\ UNCHANGED <<Durable, Derived, Counts>>

-----------------------------------------------------------------------------
(* RegistryView.SetEnableState: a read, then an UPDATE that tests nothing. *)

SetEnableRead(m) ==
    /\ At(m, "setRead")
    /\ cl' = [cl EXCEPT ![m].pc = "setWrite", ![m].rec = Record]
    /\ Works /\ UNCHANGED <<Durable, Derived, Locks, Counts>>

(* PrepareEnableState *)
Enabled(rec, on) ==
    [rec EXCEPT !.enabled = on, !.rev = Revision(@.policy, @.management + 1, @.epoch + 1)]

SetEnableWrite(m) ==
    LET next == Enabled(cl[m].rec, cl[m].op = "enable")
    IN  /\ At(m, "setWrite")
        /\ row' = [row EXCEPT !.enabled = next.enabled, !.pkg = next.pkg,
                              !.rev = next.rev,
                              !.col = [next.rev EXCEPT !.policy = row.col.policy],
                              !.rewound = @ \/ next.rev.epoch <= row.rev.epoch]
        /\ Applied(m, [cl EXCEPT ![m].rec = next,
                         ![m].op = IF next.enabled /\ ~Runnable(next.pkg) THEN "deny" ELSE @,
                         ![m].pc = CASE ~next.enabled -> "unpublish"
                                     [] Runnable(next.pkg) -> "bind"
                                     [] OTHER -> "bump"])
        /\ UNCHANGED <<grant, policy, Derived, Counts>>

(* Store.InstallCommit: a reinstallation continues the tombstone's epoch *)
InstallCommit(m) ==
    LET epoch == IF row.there THEN row.rev.epoch ELSE 1
        rec == [enabled |-> TRUE, pkg |-> cl[m].target, rev |-> Revision(1, 1, epoch),
                inst |-> row.inst + 1]
    IN  /\ At(m, "commit") /\ cl[m].op = "install"
        /\ row' = [there |-> TRUE, deleted |-> FALSE, enabled |-> TRUE,
                   pkg |-> rec.pkg, rev |-> rec.rev, col |-> rec.rev,
                   inst |-> rec.inst, rewound |-> row.rewound]
        /\ Applied(m, [cl EXCEPT ![m].rec = rec, ![m].pc = "bind"])
        /\ UNCHANGED <<grant, policy, Derived, Counts>>

(* Store.CommitUninstall: tombstone, no grants, no policy; then the         *)
(* in-memory preparation of the plugin is dropped                           *)
CommitUninstall(m) ==
    LET rev == Revision(row.rev.policy, row.rev.management + 1, row.rev.epoch + 1)
    IN  /\ At(m, "commit") /\ cl[m].op = "uninstall"
        /\ IF ~Installed \/ row.rev.management # cl[m].rec.rev.management
           THEN Return(m) /\ Works /\ UNCHANGED <<row, grant, policy, ready, gate>>
           ELSE /\ row' = [row EXCEPT !.deleted = TRUE, !.rev = rev, !.col = rev]
                /\ grant' = "none" /\ policy' = "none"
                /\ Applied(m, [cl EXCEPT ![m].rec.rev = rev, ![m].pc = "unpolicy"])
                /\ IF faults' = faults THEN ready' = NoOne /\ gate' = NoOne
                   ELSE UNCHANGED <<ready, gate>>
        /\ UNCHANGED <<catalog, connectivity, floor, Counts>>

(* updateResolvedPackage before the commit: the successor's connectivity    *)
(* policy is installed with the revisions the commit is expected to give    *)
PrepareUpdate(m) ==
    LET rev == [cl[m].rec.rev EXCEPT !.management = @ + 1, !.epoch = @ + 1]
    IN  /\ At(m, "prepare")
        /\ \/ /\ connectivity' = [pkg |-> cl[m].target, rev |-> rev]
              /\ Works /\ Move(m, "put") /\ UNCHANGED Locks
           \/ Fails /\ connectivity' \in {connectivity, NoOne} /\ Return(m)
        /\ UNCHANGED <<Durable, catalog, ready, gate, floor, Counts>>

PutRowJSONOnly(pkg) ==
    LET rev == Revision(row.rev.policy, row.rev.management + 1, row.rev.epoch + 1)
    IN  row' = [row EXCEPT !.pkg = pkg, !.rev = rev]

(* RegistryView.PutPlugin: one transaction, on the record it reads itself *)
PutRow(pkg) ==
    LET rev == Revision(row.rev.policy, row.rev.management + 1, row.rev.epoch + 1)
    IN  row' = [row EXCEPT !.pkg = pkg, !.rev = rev, !.col = rev]

PutPlugin(m) ==
    /\ At(m, "put") /\ Installed
    /\ PutRow(cl[m].target)
    /\ Applied(m, [cl EXCEPT ![m].rec = Record', ![m].pc = IF row.enabled THEN "publish" ELSE "revoke"])
    /\ UNCHANGED <<grant, policy, Derived, Counts>>

(* rollbackVersionSwitch: put the predecessor back and publish it; neither  *)
(* its errors nor the prepared connectivity policy are looked at            *)
RollbackPut(m) ==
    /\ At(m, "rollback")
    /\ \/ /\ PutRow(cl[m].from)
          /\ Applied(m, [cl EXCEPT ![m].pc = "rollbackPublish", ![m].rec.pkg = cl[m].from])
       \/ Fails /\ Return(m) /\ UNCHANGED row
    /\ UNCHANGED <<grant, policy, Derived, Counts>>

RollbackPublish(m) ==
    /\ At(m, "rollbackPublish")
    /\ \/ Works /\ catalog' = IF cl[m].rec.enabled THEN cl[m].rec.pkg ELSE catalog
       \/ Fails /\ UNCHANGED catalog
    /\ Return(m)
    /\ UNCHANGED <<Durable, connectivity, ready, gate, floor, Counts>>

-----------------------------------------------------------------------------
(* prepareWorkerBinding: under the gate, forget the readiness, prewarm,     *)
(* install the connectivity policy, then publish the readiness.  A refresh  *)
(* (every client but a caller) never takes the shortcut.                    *)

Matches(rec) == ready = Identity(rec)

(* a caller goes on to the admission of the execution, which checks again *)
Bound(c) ==
    cl' = [cl EXCEPT ![c].pc = IF c \in Callers THEN "read" ELSE "activate",
                     ![c].bound = TRUE]

(* activation failed: install still publishes, the others return *)
BindFailed(c) ==
    IF cl[c].op = "install" THEN Move(c, "publish") /\ UNCHANGED Locks
    ELSE Return(c)

BindStart(c) ==
    /\ At(c, "bind") /\ gate = NoOne
    /\ \/ /\ c \in Callers /\ Matches(cl[c].rec)
          /\ Bound(c) /\ readers' = readers \ {c}
          /\ Works /\ UNCHANGED <<connectivity, ready, gate, lock>>
       \/ /\ ~(c \in Callers /\ Matches(cl[c].rec))
          /\ ready' = NoOne /\ gate' = c
          /\ connectivity' = Identity(cl[c].rec)
          /\ Move(c, "bindReady") /\ Works /\ UNCHANGED Locks
       \/ \* startup, binding, prewarm or policy installation failed
          /\ ready' \in {ready, NoOne}
          /\ connectivity' \in {connectivity, NoOne}
          /\ connectivity' = NoOne => ready' = NoOne
          /\ Fails /\ BindFailed(c) /\ UNCHANGED gate
    /\ UNCHANGED <<Durable, catalog, floor, Counts>>

(* the preparation an uninstallation has dropped is nobody's any more *)
BindReady(c) ==
    /\ At(c, "bindReady")
    /\ gate' = IF gate = c THEN NoOne ELSE gate
    /\ \/ /\ ready' = IF gate = c THEN Identity(cl[c].rec) ELSE ready
          /\ Bound(c)
          /\ readers' = readers \ {c} /\ Works /\ UNCHANGED lock
       \/ Fails /\ BindFailed(c) /\ UNCHANGED ready     \* the runtime binding changed
    /\ UNCHANGED <<Durable, catalog, connectivity, floor, Counts>>

(* activateEnabledRuntimeState: prepareEnabledRuntimeState once more, then  *)
(* the background entry                                                     *)
Activate(c) ==
    /\ At(c, "activate")
    /\ \/ /\ Works /\ connectivity' = Identity(cl[c].rec)
          /\ IF c \in Recoverers THEN Return(c)
             ELSE Move(c, "publish") /\ UNCHANGED Locks
       \/ Fails /\ connectivity' \in {connectivity, NoOne} /\ BindFailed(c)
    /\ UNCHANGED <<Durable, catalog, ready, gate, floor, Counts>>

(* publishEnabledSurfaces *)
Publish(m) ==
    /\ At(m, "publish")
    /\ \/ /\ Works /\ catalog' = cl[m].rec.pkg
          /\ IF cl[m].op = "update" THEN Move(m, "revoke") /\ UNCHANGED Locks
             ELSE Return(m)
       \/ /\ Fails /\ UNCHANGED catalog
          /\ IF cl[m].op = "update" THEN Move(m, "rollback") /\ UNCHANGED Locks
             ELSE Return(m)
    /\ UNCHANGED <<Durable, connectivity, ready, gate, floor, Counts>>

(* PublishSurfaces of no surface: DisablePlugin returns when it fails, the  *)
(* others go on                                                             *)
Unpublish(c) ==
    LET next == IF cl[c].op = "deny" THEN "unpolicy" ELSE "revoke"
    IN  /\ At(c, "unpublish")
        /\ \/ Works /\ catalog' = NoOne /\ Move(c, next) /\ UNCHANGED Locks
           \/ /\ Fails /\ UNCHANGED catalog
              /\ IF cl[c].op = "disable" THEN Return(c)
                 ELSE Move(c, next) /\ UNCHANGED Locks
        /\ UNCHANGED <<Durable, connectivity, ready, gate, floor, Counts>>

(* revokePluginRuntimeCapabilities: the token service's floor only rises;   *)
(* a later step of it may fail after the floor has risen                    *)
RevokeCapabilities(c) ==
    /\ At(c, "revoke")
    /\ \/ /\ Works /\ floor' = Bigger(floor, cl[c].rec.rev.epoch)
          /\ IF cl[c].op = "disable" THEN Move(c, "unpolicy") /\ UNCHANGED Locks
             ELSE Return(c)
       \/ /\ Fails /\ floor' \in {floor, Bigger(floor, cl[c].rec.rev.epoch)}
          /\ CASE cl[c].op = "update" -> Move(c, "rollback") /\ UNCHANGED Locks
               [] cl[c].op = "disable" -> Move(c, "unpolicy") /\ UNCHANGED Locks
               [] OTHER -> Return(c)
    /\ UNCHANGED <<Durable, catalog, connectivity, ready, gate, Counts>>

(* connectivity.RemovePolicy *)
RemovePolicy(c) ==
    /\ At(c, "unpolicy")
    /\ \/ Works /\ connectivity' = NoOne
       \/ Fails /\ UNCHANGED connectivity
    /\ CASE cl[c].op = "uninstall" -> Move(c, "unpublish") /\ UNCHANGED Locks
         [] cl[c].op = "deny" -> Move(c, "revoke") /\ UNCHANGED Locks
         [] OTHER -> Return(c)
    /\ UNCHANGED <<Durable, catalog, ready, gate, floor, Counts>>

(* canRun of a record that is not runnable goes on to                       *)
(* revokeDeniedPluginRuntime, which takes no lock                           *)
Deny(c) == cl' = [cl EXCEPT ![c].op = "deny", ![c].pc = "bump", ![c].rec = Record]

BumpedRow ==
    [row EXCEPT !.rev = [row.rev EXCEPT !.epoch = @ + 1],
                !.col = [row.col EXCEPT !.epoch = @ + 1]]

(* BumpRevokeEpoch, in one transaction; when it fails, or its COMMIT does,  *)
(* the plugin is revoked below an epoch that only this call knows.  The     *)
(* surfaces, the policy and the capabilities follow.                        *)
BumpRevokeEpoch(c) ==
    /\ At(c, "bump")
    /\ \/ /\ Works /\ Installed /\ row' = BumpedRow
          /\ cl' = [cl EXCEPT ![c].rec = Record', ![c].pc = "unpublish"]
       \/ /\ \/ Fails /\ UNCHANGED row
             \/ Fails /\ Installed /\ row' = BumpedRow
             \/ Works /\ ~Installed /\ UNCHANGED row
          /\ cl' = [cl EXCEPT ![c].rec.rev.epoch = @ + 1, ![c].pc = "unpublish"]
    /\ UNCHANGED <<grant, policy, Derived, Locks, Counts>>

-----------------------------------------------------------------------------
(* GetAuthorization: the record, the grants and the policy are three        *)
(* queries.  Authorizers check the revisions of the request on the first; a *)
(* call authorizes twice, in resolveMethodCall and, once its worker is      *)
(* bound, in validateExecutionBinding, which compares the revisions.        *)

RecordRefused(c) ==
    \/ ~Installed
    \/ c \in Authorizers /\ row.rev # cl[c].exp
    \/ c \notin Authorizers /\ ~row.enabled
    \/ cl[c].bound /\ Identity(Record) # Identity(cl[c].rec)

(* a change of the authorization does not ask canRun; the second check of a *)
(* call asks it first, and compares after that                              *)
RecordDenied(c) ==
    /\ c \notin Authorizers /\ Installed /\ ~Runnable(row.pkg)
    /\ row.enabled \/ cl[c].bound

(* the second check compares the record with the first and keeps that one *)
ReadRecord(c) ==
    /\ At(c, "read")
    /\ CASE RecordDenied(c) -> Deny(c) /\ UNCHANGED Locks
         [] RecordRefused(c) /\ ~RecordDenied(c) -> Return(c)
         [] OTHER ->
              /\ cl' = [cl EXCEPT ![c].rec = IF cl[c].bound THEN @ ELSE Record,
                          ![c].pc = IF c \in Recoverers THEN "bind" ELSE "grants",
                          ![c].real = @ \/ (c \in Callers /\ Allows(grant, policy))]
              /\ UNCHANGED Locks
    /\ recovered' = (recovered \/ c \in Recoverers)
    /\ Works /\ UNCHANGED <<Durable, Derived, ops>>

ReadGrants(c) ==
    /\ At(c, "grants")
    /\ cl' = [cl EXCEPT ![c].grant = grant, ![c].pc = "policy"]
    /\ Works /\ UNCHANGED <<Durable, Derived, Locks, Counts>>

(* the last query; a mutation computes its successor, a call its decision *)
ReadPolicy(c) ==
    /\ At(c, "policy")
    /\ IF c \in Callers
       THEN IF Evaluate(cl[c].grant, policy)
            THEN cl' = [cl EXCEPT ![c].policy = policy,
                          ![c].pc = IF cl[c].bound THEN "dispatch" ELSE "prepared"]
                 /\ UNCHANGED Locks
            ELSE Return(c)
       ELSE IF cl[c].op = "revoke" /\ cl[c].grant = "none"
            THEN Return(c)
            ELSE cl' = [cl EXCEPT ![c].policy = policy, ![c].pc = "replace"]
                 /\ UNCHANGED Locks
    /\ Works /\ UNCHANGED <<Durable, Derived, Counts>>

(* PreparePermissionGrant, PreparePermissionRevoke, PrepareSecurityPolicyPut *)
(* and PrepareSecurityPolicyDelete                                           *)
NextRevision(op, rev) ==
    IF op = "grant" THEN [rev EXCEPT !.policy = @ + 1]
    ELSE [rev EXCEPT !.policy = @ + 1, !.epoch = @ + 1]

NextGrant(op, g) ==
    CASE op = "grant" -> "granted"
      [] op = "revoke" -> "revoked"
      [] OTHER -> g

NextPolicy(op, p) ==
    CASE op = "putPolicy" -> "deny"
      [] op = "deletePolicy" -> "none"
      [] OTHER -> p

SwapAllowedPolicyOnly(exp) == row.there /\ row.col.policy = exp.policy
SwapAllowedManagementOnly(exp) == row.there /\ row.col.management = exp.management

(* the columns the UPDATE of ReplaceAuthorization tests *)
SwapAllowed(exp) == row.there /\ row.col = exp

(* RegistryView.ReplaceAuthorization: compare the columns, write the whole  *)
(* record, the grants and the policy of the prepared snapshot               *)
ReplaceAuthorization(a) ==
    LET me == cl[a]
        rev == NextRevision(me.op, me.rec.rev)
        g == NextGrant(me.op, me.grant)
        p == NextPolicy(me.op, me.policy)
    IN  /\ At(a, "replace")
        /\ IF SwapAllowed(me.exp)
           THEN /\ row' = [row EXCEPT !.enabled = me.rec.enabled, !.pkg = me.rec.pkg,
                                      !.rev = rev, !.col = rev]
                /\ grant' = g /\ policy' = p
                /\ \E mine \in {[me EXCEPT !.rec.rev = rev, !.pc = "refresh"], Idle} :
                     /\ cl' = [c \in Clients |->
                                 IF c = a THEN mine
                                 ELSE [cl[c] EXCEPT !.real =
                                   @ \/ (c \in Callers /\ cl[c].pc # "idle" /\ Allows(g, p))]]
                     /\ IF mine = Idle THEN Fails ELSE Works
                /\ UNCHANGED Locks
           ELSE Return(a) /\ Works /\ UNCHANGED Durable
        /\ UNCHANGED <<Derived, Counts>>

(* refreshConnectivityPolicy with the committed record, after the commit *)
RefreshConnectivity(a) ==
    /\ At(a, "refresh")
    /\ \/ Works /\ connectivity' = IF cl[a].rec.enabled THEN Identity(cl[a].rec) ELSE NoOne
       \/ Fails /\ connectivity' \in {connectivity, NoOne}
    /\ IF cl[a].op = "grant" THEN Return(a)
       ELSE Move(a, "revoke") /\ UNCHANGED Locks
    /\ UNCHANGED <<Durable, catalog, ready, gate, floor, Counts>>

-----------------------------------------------------------------------------
(* bindPreparedWorkerRuntime: the lock-free shortcut, or the preparation    *)
(* under the lifecycle read lock with the record checked again              *)

BindPreparedUnchecked(c) ==
    /\ At(c, "prepared")
    /\ \/ Matches(cl[c].rec) /\ Bound(c) /\ UNCHANGED Locks
       \/ /\ ~Matches(cl[c].rec) /\ lock = NoOne
          /\ Move(c, "bind") /\ readers' = readers \union {c} /\ UNCHANGED lock
    /\ Works /\ UNCHANGED <<Durable, Derived, Counts>>

BindPrepared(c) ==
    /\ At(c, "prepared")
    /\ \/ Matches(cl[c].rec) /\ Bound(c) /\ UNCHANGED Locks
       \/ /\ ~Matches(cl[c].rec) /\ lock = NoOne
          /\ IF Installed /\ row.enabled /\ Identity(Record) = Identity(cl[c].rec)
             THEN /\ IF Runnable(row.pkg) THEN Move(c, "bind") ELSE Deny(c)
                  /\ readers' = readers \union {c} /\ UNCHANGED lock
             ELSE Return(c)
    /\ Works /\ UNCHANGED <<Durable, Derived, Counts>>

(* the worker call leaves for the runtime *)
Dispatch(c) ==
    /\ At(c, "dispatch")
    /\ Return(c)
    /\ Works /\ UNCHANGED <<Durable, Derived, Counts>>

-----------------------------------------------------------------------------
ManagerStep(m) ==
    \/ \E op \in ManagerOps :
          \/ /\ op \in {"install", "update"}
             /\ \E p \in Packages \ {row.pkg} : Runnable(p) /\ Request(m, op, p)
          \/ op \notin {"install", "update"} /\ Request(m, op, NoOne)
    \/ AcquireWrite(m) \/ Abort(m) \/ SetEnableRead(m) \/ SetEnableWrite(m)
    \/ InstallCommit(m) \/ CommitUninstall(m) \/ PrepareUpdate(m) \/ PutPlugin(m)
    \/ RollbackPut(m) \/ RollbackPublish(m)
    \/ BindStart(m) \/ BindReady(m) \/ Activate(m) \/ Publish(m) \/ Unpublish(m)
    \/ RevokeCapabilities(m) \/ RemovePolicy(m) \/ BumpRevokeEpoch(m)

AuthorizerStep(a) ==
    \/ \E op \in AuthorizerOps : Request(a, op, NoOne)
    \/ ReadRecord(a) \/ ReadGrants(a) \/ ReadPolicy(a) \/ ReplaceAuthorization(a)
    \/ RefreshConnectivity(a) \/ RevokeCapabilities(a)

(* revokeDeniedPluginRuntime, of a call or of the recovery *)
DeniedStep(c) ==
    \/ BumpRevokeEpoch(c) \/ Unpublish(c) \/ RemovePolicy(c) \/ RevokeCapabilities(c)

CallerStep(c) ==
    \/ Request(c, "call", NoOne) \/ DeniedStep(c)
    \/ ReadRecord(c) \/ ReadGrants(c) \/ ReadPolicy(c) \/ BindPrepared(c)
    \/ BindStart(c) \/ BindReady(c) \/ Dispatch(c)

RecovererStep(r) ==
    \/ ~recovered /\ Request(r, "recover", NoOne)
    \/ DeniedStep(r)
    \/ ReadRecord(r) \/ BindStart(r) \/ BindReady(r) \/ Activate(r)

Next ==
    \/ \E m \in Managers : ManagerStep(m)
    \/ \E a \in Authorizers : AuthorizerStep(a)
    \/ \E c \in Callers : CallerStep(c)
    \/ \E r \in Recoverers : RecovererStep(r)

Spec == Init /\ [][Next]_vars

-----------------------------------------------------------------------------
Revisions == [policy : Nat, management : Nat, epoch : Nat]
Records == [enabled : BOOLEAN, pkg : Packages \union {NoOne}, rev : Revisions, inst : Nat]
Rows == [there : BOOLEAN, deleted : BOOLEAN, enabled : BOOLEAN, pkg : Packages \union {NoOne},
         rev : Revisions, col : Revisions, inst : Nat, rewound : BOOLEAN]
Identities == [pkg : Packages \union {NoOne}, rev : Revisions] \union {NoOne}
Grants == {"none", "granted", "revoked"}
Policies == {"none", "deny"}
PCs == {"idle", "want", "setRead", "setWrite", "prepare", "put", "commit", "bind",
        "bindReady", "activate", "publish", "unpublish", "revoke", "unpolicy",
        "rollback", "rollbackPublish", "read", "grants", "policy", "replace",
        "refresh", "prepared", "dispatch", "bump"}
Locals == [pc : PCs,
           op : ManagerOps \union AuthorizerOps \union {"none", "call", "recover", "deny"},
           target : Packages \union {NoOne}, from : Packages \union {NoOne},
           rec : Records, exp : Revisions, grant : Grants, policy : Policies,
           bound : BOOLEAN, real : BOOLEAN]

(* The type of the registry's row, of the state derived from it, and of the *)
(* locals of every Host operation.                                          *)
TypeOK ==
    /\ row \in Rows /\ grant \in Grants /\ policy \in Policies
    /\ catalog \in Packages \union {NoOne}
    /\ connectivity \in Identities /\ ready \in Identities
    /\ gate \in Clients \union {NoOne} /\ lock \in Managers \union {NoOne}
    /\ readers \subseteq Callers
    /\ floor \in Nat /\ ops \in 0..MaxOps /\ faults \in 0..MaxFaults /\ recovered \in BOOLEAN
    /\ cl \in [Clients -> Locals]

(* The step commits a's prepared authorization.                             *)
Commits(a) == At(a, "replace") /\ cl'[a].pc # "replace" /\ row' # row

(* What c read is of this installation, or no enable or disable has ever    *)
(* overwritten a later epoch: only then do the revisions tell c's record    *)
(* from a later one (EpochMonotone is violated by the code).                *)
Comparable(c) == cl[c].rec.inst = row.inst \/ ~row.rewound

(* A permission or policy change writes back the whole record it read with  *)
(* no lifecycle lock held, yet it never undoes an enable, a disable, an     *)
(* update or an uninstall that committed in between.                        *)
AuthorizationKeepsLifecycle ==
    \A a \in Authorizers : Commits(a) /\ Comparable(a) =>
        /\ ~row.deleted
        /\ row'.enabled = row.enabled /\ row'.pkg = row.pkg
        /\ row'.rev.management = row.rev.management

(* A change that commits prepared its successor from the grant and the      *)
(* policy that stand, though it read the snapshot in three queries.         *)
BuildsOnCurrent ==
    \A a \in Authorizers : Commits(a) /\ Comparable(a) =>
        cl[a].grant = grant /\ cl[a].policy = policy

(* No permission or policy change that committed earlier is lost by a later *)
(* one, and no enable, disable, update or uninstall is undone by one        *)
(* (ReplaceAuthorization): except by a change that outlived a reinstallation*)
(* of a plugin whose epoch an enable or a disable has turned back.          *)
NoLostAuthorization == [][BuildsOnCurrent /\ AuthorizationKeepsLifecycle]_vars

(* An uninstalled plugin has no grant and no policy left, whatever          *)
(* authorization change was under way: a reinstallation starts from none.   *)
(* (With the same exception: it takes an earlier installation.)             *)
NoAuthorityAfterUninstall ==
    row.deleted /\ (row.inst = 1 \/ ~row.rewound) => grant = "none" /\ policy = "none"

(* The tokens minted for the installed record are never below the floor the *)
(* token service has revoked, so a plugin that may run can be opened; a     *)
(* denial whose BumpRevokeEpoch failed has revoked one epoch more.          *)
FloorReachable ==
    Installed /\ ~row.rewound =>
        floor <= row.rev.epoch + (IF Runnable(row.pkg) THEN 0 ELSE 1)

(* The column the compare-and-swap tests is never behind the record a reader*)
(* decodes, so a change prepared from an earlier record cannot pass.  After *)
(* an enable or a disable that raced a grant it is ahead.                   *)
ColumnsCover ==
    /\ row.col.management = row.rev.management /\ row.col.epoch = row.rev.epoch
    /\ row.rev.policy <= row.col.policy

(* Lifecycle operations exclude each other and every caller that prepares a *)
(* worker, and one client at a time holds the preparation gate.             *)
SerialLifecycle ==
    /\ \A m \in Managers :
         cl[m].pc \notin {"idle", "want"} => lock = m /\ readers = {}
    /\ \A c \in Callers : cl[c].pc \in {"bind", "bindReady"} => c \in readers
    /\ \A c \in Clients : gate = c => At(c, "bindReady")

(* A caller prepares a worker under the read lock only for the record that  *)
(* is installed and enabled, up to the authorization revisions.             *)
PreparesCurrentPackage ==
    \A c \in Callers : cl[c].pc \in {"bind", "bindReady"} =>
        /\ Installed /\ row.enabled /\ row.pkg = cl[c].rec.pkg
        /\ row.rev.management = cl[c].rec.rev.management

(* A call that is let through was allowed by a grant and a policy that      *)
(* stood together at some instant of the call, though neither of its two    *)
(* authorization checks reads them in one transaction: unless the call      *)
(* outlived a reinstallation of a plugin whose epoch was turned back.       *)
DecisionStood ==
    \A c \in Callers : At(c, "dispatch") =>
        cl[c].real \/ (row.rewound /\ cl[c].rec.inst < row.inst)

-----------------------------------------------------------------------------
(* Proofs, for any number of goroutines of each kind.  A client that has    *)
(* read the record is either overtaken by a later revision or still         *)
(* current; a commit makes every current client an overtaken one, and the   *)
(* compare-and-swap and the second check of a call admit only a current one. *)

(* The goroutines of the four kinds are different ones, and NoOne is none of*)
(* them.                                                                    *)
RolesApart ==
    /\ Managers \cap Authorizers = {} /\ Managers \cap Callers = {}
    /\ Managers \cap Recoverers = {} /\ Authorizers \cap Callers = {}
    /\ Authorizers \cap Recoverers = {} /\ Callers \cap Recoverers = {}
    /\ NoOne \notin Clients

(* c has read the record and goes on to use what it read.                   *)
Holding(c) ==
    \/ cl[c].pc \in {"grants", "policy", "replace", "prepared", "bind", "bindReady", "dispatch"}
    \/ cl[c].pc = "read" /\ cl[c].bound

(* The order of the revisions of one installation: every commit moves to a  *)
(* later one, even if the epoch, or with a later management revision the    *)
(* policy revision, goes back.                                              *)
Later(r, s) ==
    \/ s.management < r.management
    \/ /\ s.management = r.management
       /\ s.policy < r.policy \/ (s.policy = r.policy /\ s.epoch < r.epoch)

(* The row has moved past the record c read: it is of a later installation, *)
(* or later in the same one; and as long as no epoch was turned back it has a*)
(* later epoch, or, if installed, the same epoch and a later policy revision.*)
Overtaken(c) ==
    LET old == cl[c].rec
    IN  /\ \/ old.inst < row.inst
           \/ old.inst = row.inst /\ Later(row.rev, old.rev)
        /\ \/ row.rewound
           \/ old.rev.epoch < row.rev.epoch
           \/ Installed /\ old.rev.epoch = row.rev.epoch /\ old.rev.policy < row.rev.policy

(* The row is still the record c read, and so are the grant and the policy it*)
(* has read since; a call that was let through by the first check would be let*)
(* through now.                                                             *)
Current(c) ==
    /\ Installed /\ cl[c].rec = Record
    /\ cl[c].pc \in {"policy", "replace"} => cl[c].grant = grant
    /\ cl[c].pc = "replace" => cl[c].policy = policy
    /\ cl[c].pc \in {"prepared", "bind", "bindReady", "read"} => Allows(grant, policy)

(* Between its read and its write of the record an enable or a disable is   *)
(* passed only by commits that keep the management revision (SetEnableState).*)
SetInv(c) ==
    LET old == cl[c].rec
    IN  /\ old.inst = row.inst /\ old.rev.management = row.rev.management
        /\ old.rev.policy <= row.col.policy /\ old.rev.epoch <= row.rev.epoch

(* A lifecycle operation past its lock holds it, and finds the row an install*)
(* needs (none, or a tombstone) or leaves one.                              *)
ManagerInv(c) ==
    /\ cl[c].pc \notin {"idle", "want"} => lock = c
    /\ cl[c].pc \in {"setRead", "setWrite"} => Installed
    /\ cl[c].pc = "setWrite" => SetInv(c)
    /\ cl[c].pc \notin {"idle", "want", "commit"} => row.there
    /\ cl[c].pc = "commit" /\ cl[c].op = "install" => ~Installed

CasInv(c) == Holding(c) => cl[c].rec.inst >= 1 /\ (Overtaken(c) \/ Current(c))

(* The revisions a change is swapped against are those of the record it read.*)
AuthorizerInv(c) == Holding(c) => cl[c].exp = cl[c].rec.rev /\ ~cl[c].bound

(* A call for which no grant and policy have stood together would not be let*)
(* through now; a call whose binding was compared has had its instant, or   *)
(* was compared with another installation.                                  *)
CallerInv(c) ==
    /\ Holding(c) /\ ~cl[c].real => ~Allows(grant, policy)
    /\ cl[c].bound /\ cl[c].pc \in {"grants", "policy", "dispatch"} =>
          cl[c].real \/ (row.rewound /\ cl[c].rec.inst < row.inst)
    /\ cl[c].pc = "dispatch" => cl[c].bound
    /\ cl[c].pc # "replace"

(* How far a denial whose BumpRevokeEpoch failed may be ahead of the row.   *)
Slack == IF Installed /\ ~Runnable(row.pkg) THEN 1 ELSE 0

(* The epoch c may still revoke: a denial may go one beyond what it read.   *)
Reach(c) == cl[c].rec.rev.epoch + (IF cl[c].pc = "bump" THEN 1 ELSE 0)

ClientInv(c) ==
    /\ row.rewound \/ Reach(c) <= row.rev.epoch + Slack
    /\ c \in Managers => ManagerInv(c)
    /\ c \in Authorizers \union Callers => CasInv(c)
    /\ c \in Authorizers => AuthorizerInv(c)
    /\ c \in Callers => CallerInv(c)

TypeInv ==
    /\ row \in Rows /\ grant \in Grants /\ policy \in Policies
    /\ floor \in Nat /\ cl \in [Clients -> Locals]

(* The floor of the token service has not passed the epoch, but for a denial.*)
FloorInv == row.rewound \/ floor <= row.rev.epoch + Slack

(* The row: what CommitUninstall clears stays cleared, the columns cover the*)
(* record, and an installed row is of some installation.                    *)
RowInv ==
    /\ row.deleted => row.there
    /\ row.there => row.inst >= 1
    /\ ~row.there => row.rev.epoch = 0 /\ row.inst = 0
    /\ ColumnsCover /\ NoAuthorityAfterUninstall
    /\ FloorInv

(* The inductive invariant.                                                 *)
RegistryInv == TypeInv /\ RowInv /\ \A c \in Clients : ClientInv(c)

(* A step that leaves the row, the grant and the policy alone, and replaces *)
(* the locals of one client, keeps the invariant if that client's part holds*)
(* afterwards: the parts of the others read nothing that has changed.       *)
LEMMA Quiet ==
  ASSUME RolesApart, RegistryInv, NEW c \in Clients, UNCHANGED <<row, grant, policy>>,
         NEW x \in Locals, cl' = [cl EXCEPT ![c] = x],
         floor' \in Nat, FloorInv',
         \/ lock' = lock
         \/ lock = NoOne /\ lock' = c
         \/ lock = c,
         ClientInv(c)'
  PROVE  RegistryInv'
<1>1. TypeInv'
  BY Zenon DEF RegistryInv, TypeInv
<1>2. RowInv'
  BY Zenon DEF RegistryInv, RowInv, ColumnsCover, NoAuthorityAfterUninstall
<1>3. ASSUME NEW d \in Clients, d # c PROVE ClientInv(d)'
  <2>1. cl'[d] = cl[d] /\ ClientInv(d)
    BY <1>3, Zenon DEF RegistryInv, TypeInv
  <2>2. d \in Managers => ManagerInv(d)'
    BY <1>3, <2>1, Zenon DEF ClientInv, ManagerInv, SetInv, RolesApart, Installed
  <2>3. d \in Authorizers \union Callers => CasInv(d)'
    BY <2>1, Zenon DEF ClientInv, CasInv, Holding, Overtaken, Current, Installed, Record
  <2>4. d \in Authorizers => AuthorizerInv(d)'
    BY <2>1, Zenon DEF ClientInv, AuthorizerInv, Holding
  <2>5. d \in Callers => CallerInv(d)'
    BY <2>1, Zenon DEF ClientInv, CallerInv, Holding
  <2>6. (row.rewound \/ Reach(d) <= row.rev.epoch + Slack)'
    BY <2>1, Zenon DEF ClientInv, Reach, Slack, Installed
  <2> QED BY <2>2, <2>3, <2>4, <2>5, <2>6, Zenon DEF ClientInv
<1> QED BY <1>1, <1>2, <1>3, Zenon DEF RegistryInv

(* The locals of a client with no operation have their type.                *)
LEMMA IdleLocals == Idle \in Locals
BY Zenon DEF Locals, Idle, PCs, NoRecord, Records, Revisions, ZeroRevision, Revision, Grants,
   Policies

(* A step that changes neither the row nor the floor of the token service   *)
(* leaves the floor where it may be.                                        *)
LEMMA Floor ==
  ASSUME RegistryInv, UNCHANGED <<row, floor>>
  PROVE  floor' \in Nat /\ FloorInv'
BY Zenon DEF RegistryInv, TypeInv, RowInv, FloorInv, Slack, Installed

(* After a step that ends c's operation, c's part holds whatever the row is.*)
LEMMA IdleInv ==
  ASSUME NEW c \in Clients, cl'[c] = Idle, row' \in Rows
  PROVE  ClientInv(c)'
<1>1. row'.rev.epoch \in Nat
  BY Zenon DEF Rows, Revisions
<1>2. Slack' \in Nat
  BY DEF Slack
<1>3. cl'[c].pc = "idle" /\ cl'[c].rec.rev.epoch = 0 /\ ~cl'[c].bound
  BY SMT DEF Idle, NoRecord, ZeroRevision, Revision
<1>4. Reach(c)' = 0
  BY <1>3 DEF Reach
<1>5. (Reach(c) <= row.rev.epoch + Slack)'
  BY <1>1, <1>2, <1>4
<1> QED BY <1>3, <1>5, Zenon DEF ClientInv, ManagerInv, CasInv, AuthorizerInv, CallerInv, Holding

(* An operation may return at any point (Return drops its lock).            *)
LEMMA Returned ==
  ASSUME RolesApart, RegistryInv, NEW c \in Clients, UNCHANGED <<row, grant, policy>>,
         floor' \in Nat, FloorInv', Return(c)
  PROVE  RegistryInv'
<1>1. cl' = [cl EXCEPT ![c] = Idle] /\ cl'[c] = Idle
  BY Zenon DEF RegistryInv, TypeInv, Return
<1>2. row' \in Rows
  BY Zenon DEF RegistryInv, TypeInv
<1>3. ClientInv(c)'
  BY <1>1, <1>2, IdleInv
<1>4. lock' = lock \/ lock = c
  BY Zenon DEF Return
<1> QED BY <1>1, <1>3, <1>4, IdleLocals, Quiet, Zenon

(* A client past its reads may move on to a step that reads no more of the  *)
(* authorization (Move), and to the preparation of a worker if it is no     *)
(* authorization change.                                                    *)
LEMMA Moved ==
  ASSUME RolesApart, RegistryInv, NEW c \in Clients, UNCHANGED <<row, grant, policy>>,
         floor' \in Nat, FloorInv', lock' = lock,
         NEW p \in {"put", "bind", "bindReady", "activate", "publish", "unpublish",
                    "revoke", "unpolicy", "rollback", "rollbackPublish", "refresh"},
         Move(c, p), cl[c].pc \notin {"idle", "want", "commit", "bump"},
         p \in {"bind", "bindReady"} =>
            /\ c \notin Authorizers
            /\ c \in Callers => cl[c].pc \in {"prepared", "bind"}
  PROVE  RegistryInv'
<1> DEFINE x == [cl[c] EXCEPT !.pc = p]
<1>1. cl[c] \in Locals /\ p \in PCs
  BY Zenon DEF RegistryInv, TypeInv, PCs
<1>2. x \in Locals /\ x.pc = p
  BY <1>1, Zenon DEF Locals
<1>3. cl' = [cl EXCEPT ![c] = x] /\ cl'[c] = x
  BY <1>1, Zenon DEF RegistryInv, TypeInv, Move
<1>4. /\ cl'[c].pc = p /\ cl'[c].rec = cl[c].rec /\ cl'[c].op = cl[c].op
      /\ cl'[c].bound = cl[c].bound /\ cl'[c].real = cl[c].real /\ cl'[c].exp = cl[c].exp
  BY <1>1, <1>3 DEF Locals
<1>5. ClientInv(c)'
  <2>1. ClientInv(c)
    BY Zenon DEF RegistryInv
  <2>2. c \in Managers => ManagerInv(c)'
    BY <1>4, <2>1, Zenon DEF ClientInv, ManagerInv
  <2>3. c \in Authorizers \union Callers => CasInv(c)'
    BY <1>4, <2>1, Zenon DEF ClientInv, CasInv, Holding, Overtaken, Current, Installed, Record
  <2>4. c \in Authorizers => AuthorizerInv(c)'
    BY <1>4, <2>1, Zenon DEF ClientInv, AuthorizerInv, Holding
  <2>5. c \in Callers => CallerInv(c)'
    BY <1>4, <2>1, Zenon DEF ClientInv, CallerInv, Holding
  <2>6. (row.rewound \/ Reach(c) <= row.rev.epoch + Slack)'
    BY <1>4, <2>1, Zenon DEF ClientInv, Reach, Slack, Installed
  <2> QED BY <2>2, <2>3, <2>4, <2>5, <2>6, Zenon DEF ClientInv
<1> HIDE DEF x
<1> QED BY <1>2, <1>3, <1>5, Quiet, Zenon

(* Binding a prepared worker keeps the invariant (Bound): the call goes on  *)
(* to its second check with the record of the first.                        *)
LEMMA BoundKept ==
  ASSUME RolesApart, RegistryInv, NEW c \in Clients,
         UNCHANGED <<row, grant, policy, floor, lock>>,
         Bound(c), c \notin Authorizers, cl[c].pc \in {"prepared", "bind", "bindReady"}
  PROVE  RegistryInv'
<1> DEFINE p == IF c \in Callers THEN "read" ELSE "activate"
           x == [cl[c] EXCEPT !.pc = p, !.bound = TRUE]
<1>1. cl[c] \in Locals /\ p \in PCs
  BY Zenon DEF RegistryInv, TypeInv, PCs
<1>2. x \in Locals /\ x.pc = p /\ x.rec = cl[c].rec /\ x.op = cl[c].op /\ x.real = cl[c].real
  <2> HIDE DEF p
  <2> QED BY <1>1, Zenon DEF Locals
<1>3. cl' = [cl EXCEPT ![c] = x] /\ cl'[c] = x
  BY <1>1, Zenon DEF RegistryInv, TypeInv, Bound, Locals
<1> HIDE DEF x
<1>4. /\ cl'[c].pc = p /\ cl'[c].rec = cl[c].rec /\ cl'[c].op = cl[c].op
      /\ cl'[c].real = cl[c].real
  BY <1>2, <1>3, Zenon
<1>5. ClientInv(c)'
  <2>1. ClientInv(c)
    BY Zenon DEF RegistryInv
  <2>2. c \in Managers => ManagerInv(c)'
    BY <1>4, <2>1, Zenon DEF ClientInv, ManagerInv, RolesApart
  <2>3. c \in Authorizers \union Callers => CasInv(c)'
    BY <1>4, <2>1, Zenon DEF ClientInv, CasInv, Holding, Overtaken, Current, Installed, Record
  <2>4. c \in Callers => CallerInv(c)'
    BY <1>4, <2>1, Zenon DEF ClientInv, CallerInv, Holding
  <2>5. (row.rewound \/ Reach(c) <= row.rev.epoch + Slack)'
    BY <1>4, <2>1, Zenon DEF ClientInv, Reach, Slack, Installed
  <2> QED BY <2>2, <2>3, <2>4, <2>5, Zenon DEF ClientInv
<1>6. floor' \in Nat /\ FloorInv'
  BY Floor, Zenon
<1> QED BY <1>2, <1>3, <1>5, <1>6, Quiet, Zenon

(* A request keeps the invariant: nothing has been read yet (Request).      *)
LEMMA Requested ==
  ASSUME RolesApart, RegistryInv, NEW c \in Clients, NEW target \in Packages \union {NoOne},
         NEW op \in ManagerOps \union AuthorizerOps \union {"call", "recover"},
         Request(c, op, target)
  PROVE  RegistryInv'
<1> DEFINE p == IF c \in Managers THEN "want" ELSE "read"
           x == [Idle EXCEPT !.pc = p, !.op = op, !.target = target, !.exp = row.rev]
<1>1. x.pc = p /\ x.rec = NoRecord /\ x.bound = FALSE /\ x.real = FALSE
  BY Zenon DEF Idle
<1>2. x \in Locals
  <2>1. row.rev \in Revisions
    BY Zenon DEF RegistryInv, TypeInv, Rows
  <2>2. p \in PCs
    BY Zenon DEF PCs
  <2> HIDE DEF p
  <2> QED BY <2>1, <2>2, IdleLocals, Zenon DEF Locals
<1>3. cl' = [cl EXCEPT ![c] = x] /\ cl'[c] = x
  BY Zenon DEF RegistryInv, TypeInv, Request
<1>4. UNCHANGED <<row, grant, policy, floor, lock>>
  BY Zenon DEF Request, Durable, Derived, Locks
<1>5. row.rev.epoch \in Nat /\ Slack \in Nat
  BY Zenon DEF RegistryInv, TypeInv, Rows, Revisions, Slack
<1> HIDE DEF x
<1>6. cl'[c].pc \in {"want", "read"} /\ cl'[c].rec = NoRecord /\ ~cl'[c].bound
  BY <1>1, <1>3, Zenon
<1>7. (Reach(c) = 0)'
  BY <1>6 DEF Reach, NoRecord, ZeroRevision, Revision
<1>8. (Reach(c) <= row.rev.epoch + Slack)'
  <2>1. Slack' = Slack /\ row' = row
    BY <1>4, Zenon DEF Slack, Installed
  <2> QED BY <1>5, <1>7, <2>1
<1>9. c \in Managers => cl'[c].pc = "want"
  BY <1>1, <1>3, Zenon
<1>10. ClientInv(c)'
  BY <1>6, <1>8, <1>9, Zenon DEF ClientInv, ManagerInv, CasInv, AuthorizerInv, CallerInv, Holding
<1>11. floor' \in Nat /\ FloorInv'
  BY <1>4, Floor, Zenon
<1> QED BY <1>2, <1>3, <1>4, <1>10, <1>11, Quiet, Zenon

(* A commit moves the row to a later installation, or to later revisions of *)
(* this one; unless it turns the epoch back, the epoch rises, or an installed*)
(* record gets a later policy revision, and no denial is left further ahead.*)
Advances ==
    /\ row'.there /\ row'.inst >= 1
    /\ row.rewound => row'.rewound
    /\ row.inst < row'.inst \/ (row.inst = row'.inst /\ Later(row'.rev, row.rev))
    /\ \/ row'.rewound
       \/ /\ row.rev.epoch + Slack <= row'.rev.epoch + Slack'
          /\ \/ row.rev.epoch < row'.rev.epoch
             \/ /\ row.rev.epoch = row'.rev.epoch /\ Installed'
                /\ Installed => row.rev.policy < row'.rev.policy

(* What a commit outside the lifecycle lock leaves to the operation inside. *)
KeepsLifecycle ==
    /\ row'.inst = row.inst /\ row'.there = row.there /\ row'.deleted = row.deleted
    /\ row'.rev.management = row.rev.management
    /\ row.col.policy <= row'.col.policy /\ row.rev.epoch <= row'.rev.epoch

(* The locals of another client across a commit: a call may only note that  *)
(* it is allowed now.                                                       *)
OtherKept(d) ==
    /\ cl'[d].pc = cl[d].pc /\ cl'[d].rec = cl[d].rec /\ cl'[d].op = cl[d].op
    /\ cl'[d].exp = cl[d].exp /\ cl'[d].bound = cl[d].bound /\ (cl[d].real => cl'[d].real)
    /\ d \in Callers /\ Holding(d) /\ ~cl'[d].real /\ Allows(grant', policy') =>
          Allows(grant, policy)

(* A commit overtakes every client that was overtaken or current.           *)
LEMMA Overtakes ==
  ASSUME row \in Rows, row' \in Rows, Advances, NEW d \in Clients, cl[d] \in Locals,
         cl'[d].rec = cl[d].rec, Overtaken(d) \/ (Installed /\ cl[d].rec = Record)
  PROVE  Overtaken(d)'
<1> DEFINE old == cl[d].rec
<1>1. /\ old.inst \in Nat /\ row.inst \in Nat /\ row'.inst \in Nat
      /\ old.rev \in Revisions /\ row.rev \in Revisions /\ row'.rev \in Revisions
  BY Zenon DEF Locals, Records, Rows
<1>2. old.inst < row'.inst \/ (old.inst = row'.inst /\ Later(row'.rev, old.rev))
  <2>1. CASE Overtaken(d)
    BY <1>1, <2>1 DEF Overtaken, Advances, Later, Revisions
  <2>2. CASE Installed /\ cl[d].rec = Record
    <3>1. old.inst = row.inst /\ old.rev = row.rev
      BY <2>2 DEF Record
    <3> QED BY <3>1 DEF Advances
  <2> QED BY <2>1, <2>2, Zenon
<1>3. \/ row'.rewound
      \/ old.rev.epoch < row'.rev.epoch
      \/ Installed' /\ old.rev.epoch = row'.rev.epoch /\ old.rev.policy < row'.rev.policy
  <2>1. CASE row'.rewound
    BY <2>1, Zenon
  <2>2. CASE ~row'.rewound /\ Overtaken(d)
    <3>1. \/ old.rev.epoch < row.rev.epoch
          \/ Installed /\ old.rev.epoch = row.rev.epoch /\ old.rev.policy < row.rev.policy
      BY <2>2, Zenon DEF Overtaken, Advances
    <3>2. \/ row.rev.epoch < row'.rev.epoch
          \/ /\ row.rev.epoch = row'.rev.epoch /\ Installed'
             /\ Installed => row.rev.policy < row'.rev.policy
      BY <2>2, Zenon DEF Advances
    <3> HIDE DEF old
    <3> QED BY <1>1, <3>1, <3>2 DEF Revisions
  <2>3. CASE ~row'.rewound /\ Installed /\ cl[d].rec = Record
    <3>1. old.rev = row.rev
      BY <2>3 DEF Record
    <3> QED BY <2>3, <3>1 DEF Advances
  <2> QED BY <2>1, <2>2, <2>3, Zenon
<1> QED BY <1>2, <1>3, Zenon DEF Overtaken

(* A commit keeps the invariant, if the part of the committing client holds *)
(* afterwards.                                                              *)
LEMMA Committed ==
  ASSUME RolesApart, RegistryInv, NEW c \in Clients,
         row' \in Rows, grant' \in Grants, policy' \in Policies, floor' = floor,
         Advances, ColumnsCover', NoAuthorityAfterUninstall',
         \/ lock = c /\ c \in Managers
         \/ lock' = lock /\ KeepsLifecycle,
         cl' \in [Clients -> Locals], \A d \in Clients \ {c} : OtherKept(d),
         ClientInv(c)'
  PROVE  RegistryInv'
<1>0. row \in Rows /\ floor \in Nat /\ FloorInv /\ Slack \in Nat /\ Slack' \in Nat
  BY Zenon DEF RegistryInv, TypeInv, RowInv, Slack
<1>1. row.rev.epoch \in Nat /\ row'.rev.epoch \in Nat
  BY <1>0, Zenon DEF Rows, Revisions
<1>2. TypeInv'
  BY <1>0, Zenon DEF TypeInv
<1>3. FloorInv'
  <2>1. CASE row'.rewound
    BY <2>1, Zenon DEF FloorInv
  <2>2. CASE ~row'.rewound
    <3>1. row.rev.epoch + Slack <= row'.rev.epoch + Slack' /\ floor <= row.rev.epoch + Slack
      BY <1>0, <2>2, Zenon DEF FloorInv, Advances
    <3>2. floor' <= row'.rev.epoch + Slack'
      BY <1>0, <1>1, <3>1
    <3> QED BY <3>2, Zenon DEF FloorInv
  <2> QED BY <2>1, <2>2, Zenon
<1>4. RowInv'
  BY <1>3, Zenon DEF RowInv, Advances
<1>5. ASSUME NEW d \in Clients, d # c PROVE ClientInv(d)'
  <2>1. OtherKept(d) /\ ClientInv(d) /\ cl[d] \in Locals
    BY <1>5, Zenon DEF RegistryInv, TypeInv
  <2>2. (row.rewound \/ Reach(d) <= row.rev.epoch + Slack)'
    <3>1. CASE row'.rewound
      BY <3>1, Zenon
    <3>2. CASE ~row'.rewound
      <4>1. row.rev.epoch + Slack <= row'.rev.epoch + Slack' /\ Reach(d) <= row.rev.epoch + Slack
        BY <2>1, <3>2, Zenon DEF ClientInv, Advances
      <4>2. Reach(d)' = Reach(d)
        BY <2>1, Zenon DEF OtherKept, Reach
      <4>3. Reach(d) \in Nat
        <5>1. cl[d].rec.rev.epoch \in Nat
          BY <2>1, Zenon DEF Locals, Records, Revisions
        <5> QED BY <5>1 DEF Reach
      <4> QED BY <1>0, <1>1, <4>1, <4>2, <4>3
    <3> QED BY <3>1, <3>2, Zenon
  <2>3. d \in Managers => ManagerInv(d)'
    <3>1. CASE lock = c
      BY <1>5, <2>1, <3>1, Zenon DEF ClientInv, ManagerInv, OtherKept
    <3>2. CASE lock' = lock /\ KeepsLifecycle
      <4>1. cl'[d].pc = "setWrite" /\ d \in Managers => SetInv(d)'
        <5>1. SUFFICES ASSUME cl'[d].pc = "setWrite", d \in Managers PROVE SetInv(d)'
          BY Zenon
        <5>2. SetInv(d)
          BY <2>1, <5>1, Zenon DEF ClientInv, ManagerInv, OtherKept
        <5>3. cl'[d].rec = cl[d].rec
          BY <2>1, Zenon DEF OtherKept
        <5>4. /\ cl[d].rec.rev.policy \in Nat /\ cl[d].rec.rev.epoch \in Nat
              /\ row.col.policy \in Nat /\ row'.col.policy \in Nat
          BY <1>0, <2>1, Zenon DEF Locals, Records, Revisions, Rows
        <5> QED BY <1>1, <3>2, <5>2, <5>3, <5>4 DEF SetInv, KeepsLifecycle
      <4> QED BY <2>1, <3>2, <4>1, Zenon DEF ClientInv, ManagerInv, OtherKept, KeepsLifecycle, Installed
    <3> QED BY <3>1, <3>2, Zenon
  <2>4. d \in Authorizers \union Callers => CasInv(d)'
    <3>1. SUFFICES ASSUME d \in Authorizers \union Callers, Holding(d)'
                   PROVE  cl'[d].rec.inst >= 1 /\ Overtaken(d)'
      BY Zenon DEF CasInv
    <3>2. Holding(d) /\ cl'[d].rec = cl[d].rec
      BY <2>1, <3>1, Zenon DEF Holding, OtherKept
    <3>3. cl[d].rec.inst >= 1 /\ (Overtaken(d) \/ Current(d))
      BY <2>1, <3>1, <3>2, Zenon DEF ClientInv, CasInv
    <3>4. Overtaken(d) \/ (Installed /\ cl[d].rec = Record)
      BY <3>3, Zenon DEF Current
    <3>5. Overtaken(d)'
      BY <1>0, <2>1, <3>2, <3>4, Overtakes, Zenon
    <3> QED BY <3>2, <3>3, <3>5, Zenon
  <2>5. d \in Authorizers => AuthorizerInv(d)'
    BY <2>1, Zenon DEF ClientInv, AuthorizerInv, Holding, OtherKept
  <2>6. d \in Callers => CallerInv(d)'
    <3>1. row.inst \in Nat /\ row'.inst \in Nat /\ cl[d].rec.inst \in Nat
      BY <1>0, <2>1, Zenon DEF Rows, Locals, Records
    <3>2. row.inst <= row'.inst
      BY <3>1 DEF Advances
    <3>3. row.rewound /\ cl[d].rec.inst < row.inst => row'.rewound /\ cl'[d].rec.inst < row'.inst
      BY <2>1, <3>1, <3>2 DEF Advances, OtherKept
    <3> QED BY <2>1, <3>3, Zenon DEF ClientInv, CallerInv, Holding, OtherKept
  <2> QED BY <2>2, <2>3, <2>4, <2>5, <2>6, Zenon DEF ClientInv
<1> QED BY <1>2, <1>4, <1>5, Zenon DEF RegistryInv

(* A commit of a lifecycle operation keeps the invariant, whether its COMMIT*)
(* reports success and the operation goes on, or an error and it returns.   *)
LEMMA LifecycleCommitted ==
  ASSUME RolesApart, RegistryInv, NEW c \in Managers, lock = c,
         row' \in Rows, grant' \in Grants, policy' \in Policies, floor' = floor,
         Allows(grant', policy') => Allows(grant, policy),
         Advances, ColumnsCover', NoAuthorityAfterUninstall',
         NEW x \in Locals, x.pc \notin {"idle", "want", "setRead", "setWrite", "commit"},
         \/ row'.rewound
         \/ x.rec.rev.epoch + (IF x.pc = "bump" THEN 1 ELSE 0) <= row'.rev.epoch + Slack',
         \/ cl' = [cl EXCEPT ![c] = x] /\ lock' = lock
         \/ Return(c)
  PROVE  RegistryInv'
<1>1. c \in Clients /\ cl \in [Clients -> Locals]
  BY Zenon DEF Clients, RegistryInv, TypeInv
<1>2. CASE cl' = [cl EXCEPT ![c] = x] /\ lock' = lock
  <2>1. cl'[c] = x /\ cl' \in [Clients -> Locals] /\ \A d \in Clients \ {c} : cl'[d] = cl[d]
    BY <1>1, <1>2, Zenon
  <2>2. ManagerInv(c)'
    BY <1>2, <2>1, Zenon DEF ManagerInv, Advances
  <2>3. (row.rewound \/ Reach(c) <= row.rev.epoch + Slack)'
    BY <2>1, Zenon DEF Reach
  <2>4. ClientInv(c)'
    BY <2>2, <2>3, Zenon DEF ClientInv, RolesApart
  <2>5. \A d \in Clients \ {c} : OtherKept(d)
    BY <2>1, Zenon DEF OtherKept
  <2> QED BY <1>1, <2>1, <2>4, <2>5, Committed, Zenon
<1>3. CASE Return(c)
  <2>1. /\ cl'[c] = Idle /\ cl' \in [Clients -> Locals]
        /\ \A d \in Clients \ {c} : cl'[d] = cl[d]
    BY <1>1, <1>3, IdleLocals, Zenon DEF Return
  <2>2. ClientInv(c)'
    BY <1>1, <2>1, IdleInv, Zenon
  <2>3. \A d \in Clients \ {c} : OtherKept(d)
    BY <2>1, Zenon DEF OtherKept
  <2> QED BY <1>1, <2>1, <2>2, <2>3, Committed, Zenon
<1> QED BY <1>2, <1>3, Zenon

(* Taking the lifecycle lock keeps the invariant (acquireWrite).            *)
LEMMA AcquireWriteKeeps ==
  ASSUME RolesApart, RegistryInv, NEW c \in Managers, AcquireWrite(c)
  PROVE  RegistryInv'
<1>1. c \in Clients /\ UNCHANGED <<row, grant, policy, floor>>
  BY Zenon DEF Clients, AcquireWrite, Durable, Derived
<1>2. floor' \in Nat /\ FloorInv'
  BY <1>1, Floor, Zenon
<1>3. CASE Return(c)
  BY <1>1, <1>2, <1>3, Returned, Zenon
<1>4. CASE ~Return(c)
  <2> DEFINE q == CASE cl[c].op \in {"enable", "disable"} -> "setRead"
                    [] cl[c].op = "update" /\ row.enabled -> "prepare"
                    [] cl[c].op = "update" /\ ~row.enabled -> "put"
                    [] OTHER -> "commit"
             x == [cl[c] EXCEPT !.pc = q, !.rec = Record, !.from = row.pkg]
  <2>1. cl[c] \in Locals /\ row \in Rows
    BY <1>1, Zenon DEF RegistryInv, TypeInv
  <2>2. /\ lock = NoOne /\ lock' = c /\ (cl[c].op = "install" <=> ~Installed)
        /\ cl' = [cl EXCEPT ![c].pc = q, ![c].rec = Record, ![c].from = row.pkg]
    BY <1>4, Zenon DEF AcquireWrite
  <2>3. q \in {"setRead", "prepare", "put", "commit"}
    BY Zenon
  <2>4. cl[c].op = "install" => q = "commit"
    BY Zenon
  <2>5. Record \in Records /\ row.pkg \in Packages \union {NoOne} /\ row.rev.epoch \in Nat
    BY <2>1, Zenon DEF Rows, Records, Record, Revisions
  <2> HIDE DEF q
  <2>6. x \in Locals /\ x.pc = q /\ x.rec = Record /\ x.op = cl[c].op
    <3>1. q \in PCs
      BY <2>3, Zenon DEF PCs
    <3> QED BY <2>1, <2>5, <3>1, Zenon DEF Locals
  <2>7. cl' = [cl EXCEPT ![c] = x] /\ cl'[c] = x
    BY <1>1, <2>1, <2>2, Zenon DEF RegistryInv, TypeInv, Locals
  <2> HIDE DEF x
  <2>8. cl'[c].pc = q /\ cl'[c].rec = Record /\ cl'[c].op = cl[c].op
    BY <2>6, <2>7, Zenon
  <2>9. ManagerInv(c)'
    BY <1>1, <2>2, <2>3, <2>4, <2>8, Zenon DEF ManagerInv, Installed
  <2>10. (Reach(c) <= row.rev.epoch + Slack)'
    <3>1. Reach(c)' = row.rev.epoch
      BY <2>3, <2>5, <2>8 DEF Reach, Record
    <3>2. Slack' \in Nat /\ row' = row
      BY <1>1, Zenon DEF Slack
    <3> QED BY <2>5, <3>1, <3>2
  <2>11. ClientInv(c)'
    BY <2>9, <2>10, Zenon DEF ClientInv, RolesApart
  <2> QED BY <1>1, <1>2, <2>2, <2>6, <2>7, <2>11, Quiet, Zenon
<1> QED BY <1>3, <1>4, Zenon

(* The read of SetEnableState keeps the invariant.                          *)
LEMMA SetEnableReadKeeps ==
  ASSUME RolesApart, RegistryInv, NEW c \in Managers, SetEnableRead(c)
  PROVE  RegistryInv'
<1> DEFINE x == [cl[c] EXCEPT !.pc = "setWrite", !.rec = Record]
<1>1. /\ c \in Clients /\ UNCHANGED <<row, grant, policy, floor, lock>>
      /\ cl' = [cl EXCEPT ![c].pc = "setWrite", ![c].rec = Record] /\ cl[c].pc = "setRead"
  BY Zenon DEF Clients, SetEnableRead, Durable, Derived, Locks, At
<1>2. cl[c] \in Locals /\ row \in Rows /\ ClientInv(c) /\ RowInv
  BY <1>1, Zenon DEF RegistryInv, TypeInv
<1>3. floor' \in Nat /\ FloorInv'
  BY <1>1, Floor, Zenon
<1>4. Record \in Records /\ row.rev \in Revisions /\ row.col \in Revisions
  BY <1>2, Zenon DEF Rows, Records, Record
<1>5. x \in Locals /\ x.pc = "setWrite" /\ x.rec = Record /\ x.op = cl[c].op
  BY <1>2, <1>4, Zenon DEF Locals, PCs
<1>6. cl' = [cl EXCEPT ![c] = x] /\ cl'[c] = x
  BY <1>1, <1>2, Zenon DEF RegistryInv, TypeInv, Locals
<1> HIDE DEF x
<1>7. cl'[c].pc = "setWrite" /\ cl'[c].rec = Record /\ row' = row
  BY <1>1, <1>5, <1>6, Zenon
<1>8. SetInv(c)'
  BY <1>2, <1>4, <1>7 DEF SetInv, Record, RowInv, ColumnsCover, Revisions
<1>9. ManagerInv(c)'
  BY <1>1, <1>2, <1>7, <1>8, Zenon DEF ClientInv, ManagerInv, Installed
<1>10. (Reach(c) <= row.rev.epoch + Slack)'
  <2>1. Reach(c)' = row.rev.epoch
    BY <1>4, <1>7 DEF Reach, Record, Revisions
  <2>2. Slack' \in Nat /\ row.rev.epoch \in Nat
    BY <1>4, Zenon DEF Slack, Revisions
  <2> QED BY <1>7, <2>1, <2>2
<1>11. ClientInv(c)'
  BY <1>9, <1>10, Zenon DEF ClientInv, RolesApart
<1> QED BY <1>1, <1>3, <1>5, <1>6, <1>11, Quiet, Zenon

(* The unguarded UPDATE of SetEnableState keeps the invariant: it writes the*)
(* next management revision, and if its epoch is no later than the row's it *)
(* says so.                                                                 *)
LEMMA SetEnableWriteKeeps ==
  ASSUME RolesApart, RegistryInv, NEW c \in Managers, SetEnableWrite(c)
  PROVE  RegistryInv'
<1> DEFINE old == cl[c].rec
           next == Enabled(old, cl[c].op = "enable")
           q == CASE ~next.enabled -> "unpublish"
                  [] Runnable(next.pkg) -> "bind"
                  [] OTHER -> "bump"
           o == IF next.enabled /\ ~Runnable(next.pkg) THEN "deny" ELSE cl[c].op
           x == [cl[c] EXCEPT !.rec = next, !.op = o, !.pc = q]
<1>1. /\ c \in Clients /\ cl[c] \in Locals /\ row \in Rows /\ ClientInv(c) /\ RowInv
      /\ At(c, "setWrite")
  BY Zenon DEF Clients, RegistryInv, TypeInv, SetEnableWrite
<1>2. Installed /\ SetInv(c) /\ lock = c
  BY <1>1, Zenon DEF ClientInv, ManagerInv, At
<1>3. /\ old \in Records /\ old.rev.policy \in Nat /\ old.rev.management \in Nat
      /\ old.rev.epoch \in Nat /\ old.inst \in Nat /\ old.pkg \in Packages \union {NoOne}
  BY <1>1, Zenon DEF Locals, Records, Revisions
<1>4. /\ next \in Records /\ next.rev \in Revisions /\ next.rev.policy = old.rev.policy
      /\ next.rev.management = old.rev.management + 1 /\ next.rev.epoch = old.rev.epoch + 1
      /\ next.pkg = old.pkg
  <2> DEFINE r == Revision(old.rev.policy, old.rev.management + 1, old.rev.epoch + 1)
  <2> HIDE DEF old
  <2>1. /\ r \in Revisions /\ r.policy = old.rev.policy
        /\ r.management = old.rev.management + 1 /\ r.epoch = old.rev.epoch + 1
    BY <1>3 DEF Revision, Revisions
  <2>2. next = [old EXCEPT !.enabled = (cl[c].op = "enable"), !.rev = r]
    BY <1>3, Zenon DEF Enabled, Records
  <2> HIDE DEF r, next
  <2>3. next \in Records /\ next.rev = r /\ next.pkg = old.pkg
    BY <1>3, <2>1, <2>2, Zenon DEF Records
  <2> QED BY <2>1, <2>3, Zenon
<1>5. /\ row' = [row EXCEPT !.enabled = next.enabled, !.pkg = next.pkg, !.rev = next.rev,
                            !.col = [next.rev EXCEPT !.policy = row.col.policy],
                            !.rewound = @ \/ next.rev.epoch <= row.rev.epoch]
      /\ UNCHANGED <<grant, policy, floor>>
      /\ \/ /\ cl' = [cl EXCEPT ![c].rec = next, ![c].op = o, ![c].pc = q]
            /\ lock' = lock
         \/ Return(c)
  BY Zenon DEF SetEnableWrite, Applied, Derived, Locks
<1>6. q \in {"unpublish", "bind", "bump"} /\ (q = "bump" => ~Runnable(next.pkg))
  <2> HIDE DEF next
  <2> QED BY Zenon
<1>7. o \in ManagerOps \union AuthorizerOps \union {"none", "call", "recover", "deny"}
  BY <1>1, Zenon DEF Locals
<1> HIDE DEF next, q, o
<1>8. row.rev \in Revisions /\ row.col \in Revisions /\ row.inst \in Nat
  BY <1>1, Zenon DEF Rows
<1>9. /\ row' \in Rows /\ row'.rev = next.rev /\ row'.pkg = next.pkg
      /\ row'.inst = row.inst /\ row'.there = row.there /\ row'.deleted = row.deleted
      /\ row'.col.policy = row.col.policy /\ row'.col.management = next.rev.management
      /\ row'.col.epoch = next.rev.epoch
      /\ row'.rewound = (row.rewound \/ next.rev.epoch <= row.rev.epoch)
  <2>1. next.enabled \in BOOLEAN /\ next.pkg \in Packages \union {NoOne}
    BY <1>4, Zenon DEF Records
  <2> DEFINE k == [next.rev EXCEPT !.policy = row.col.policy]
             w == row.rewound \/ next.rev.epoch <= row.rev.epoch
  <2>2. /\ k \in Revisions /\ k.policy = row.col.policy
        /\ k.management = next.rev.management /\ k.epoch = next.rev.epoch
    BY <1>4, <1>8, Zenon DEF Revisions
  <2>3. w \in BOOLEAN
    BY Zenon
  <2>4. row' = [row EXCEPT !.enabled = next.enabled, !.pkg = next.pkg, !.rev = next.rev,
                           !.col = k, !.rewound = w]
    BY <1>1, <1>5, Zenon DEF Rows
  <2> HIDE DEF k, w
  <2>5. /\ row' \in Rows /\ row'.rev = next.rev /\ row'.pkg = next.pkg
        /\ row'.inst = row.inst /\ row'.there = row.there /\ row'.deleted = row.deleted
        /\ row'.col = k /\ row'.rewound = w
    BY <1>1, <1>4, <2>1, <2>2, <2>3, <2>4, ZenonT(40) DEF Rows
  <2> QED BY <2>2, <2>5, Zenon DEF w
<1>10. x \in Locals /\ x.pc = q /\ x.rec = next
  <2>1. q \in PCs
    BY <1>6, Zenon DEF PCs
  <2> QED BY <1>1, <1>4, <1>7, <2>1, Zenon DEF Locals
<1>11. (cl' = [cl EXCEPT ![c] = x] /\ lock' = lock) \/ Return(c)
  BY <1>1, <1>5, Zenon DEF RegistryInv, TypeInv, Locals
<1> HIDE DEF x
<1>12. Slack \in {0, 1} /\ Slack' \in {0, 1}
  BY Zenon DEF Slack
<1>13. Advances
  <2>1. Later(row'.rev, row.rev) /\ row'.inst = row.inst
    BY <1>2, <1>4, <1>8, <1>9 DEF Later, SetInv, Revisions
  <2>2. row'.there /\ row'.inst >= 1 /\ (row.rewound => row'.rewound)
    BY <1>1, <1>2, <1>9, Zenon DEF Installed, RowInv
  <2>3. CASE row'.rewound
    BY <2>1, <2>2, <2>3, Zenon DEF Advances
  <2>4. CASE ~row'.rewound
    <3>1. row'.rev.epoch = row.rev.epoch + 1
      <4>1. ~(next.rev.epoch <= row.rev.epoch) /\ row'.rev.epoch = next.rev.epoch
        BY <1>9, <2>4, Zenon
      <4>2. old.rev.epoch <= row.rev.epoch /\ next.rev.epoch = old.rev.epoch + 1
        BY <1>2, <1>4, Zenon DEF SetInv
      <4> HIDE DEF old
      <4> QED BY <1>3, <1>8, <4>1, <4>2 DEF Revisions
    <3>2. row.rev.epoch + Slack <= row'.rev.epoch + Slack' /\ row.rev.epoch < row'.rev.epoch
      BY <1>8, <1>12, <3>1 DEF Revisions
    <3> QED BY <2>1, <2>2, <3>2, Zenon DEF Advances
  <2> QED BY <2>3, <2>4, Zenon
<1>14. ColumnsCover'
  BY <1>2, <1>4, <1>9 DEF ColumnsCover, SetInv
<1>15. NoAuthorityAfterUninstall'
  BY <1>2, <1>9, Zenon DEF NoAuthorityAfterUninstall, Installed
<1>16. x.rec.rev.epoch + (IF x.pc = "bump" THEN 1 ELSE 0) <= row'.rev.epoch + Slack'
  <2>1. next.rev.epoch \in Nat /\ x.rec.rev.epoch = next.rev.epoch /\ row'.rev.epoch = next.rev.epoch
    BY <1>4, <1>9, <1>10, Zenon DEF Revisions
  <2>2. x.pc = "bump" => Slack' = 1
    BY <1>2, <1>6, <1>9, <1>10, Zenon DEF Slack, Installed
  <2> QED BY <1>12, <2>1, <2>2
<1>17. x.pc \notin {"idle", "want", "setRead", "setWrite", "commit"}
  BY <1>6, <1>10, Zenon
<1>18. grant' \in Grants /\ policy' \in Policies
  BY <1>5, Zenon DEF RegistryInv, TypeInv
<1> QED BY <1>2, <1>5, <1>9, <1>10, <1>11, <1>13, <1>14, <1>15, <1>16, <1>17, <1>18,
           LifecycleCommitted, Zenon

(* Store.InstallCommit keeps the invariant: it leaves the epoch of a tombstone*)
(* as it is, and starts another installation.                               *)
LEMMA InstallCommitKeeps ==
  ASSUME RolesApart, RegistryInv, NEW c \in Managers, InstallCommit(c)
  PROVE  RegistryInv'
<1> DEFINE epoch == IF row.there THEN row.rev.epoch ELSE 1
           rec == [enabled |-> TRUE, pkg |-> cl[c].target, rev |-> Revision(1, 1, epoch),
                   inst |-> row.inst + 1]
           x == [cl[c] EXCEPT !.rec = rec, !.pc = "bind"]
<1>1. c \in Clients /\ cl[c] \in Locals /\ row \in Rows /\ ClientInv(c) /\ RowInv
  BY Zenon DEF Clients, RegistryInv, TypeInv
<1>2. row.rev.epoch \in Nat /\ row.inst \in Nat
  BY <1>1, Zenon DEF Rows, Revisions
<1>3. ~Installed /\ lock = c
  BY <1>1, Zenon DEF InstallCommit, At, ClientInv, ManagerInv
<1>4. /\ epoch \in Nat /\ row.rev.epoch <= epoch
      /\ ~row.there => row.rev.epoch < epoch
  BY <1>1, <1>2 DEF RowInv
<1> HIDE DEF epoch
<1>5. /\ rec \in Records /\ rec.rev \in Revisions /\ rec.rev.epoch = epoch
      /\ rec.inst = row.inst + 1 /\ rec.inst \in Nat /\ rec.pkg \in Packages \union {NoOne}
  BY <1>1, <1>2, <1>4 DEF Records, Revisions, Revision, Locals
<1>6. /\ row' = [there |-> TRUE, deleted |-> FALSE, enabled |-> TRUE,
                 pkg |-> rec.pkg, rev |-> rec.rev, col |-> rec.rev,
                 inst |-> rec.inst, rewound |-> row.rewound]
      /\ UNCHANGED <<grant, policy, floor>>
      /\ (cl' = [cl EXCEPT ![c].rec = rec, ![c].pc = "bind"] /\ lock' = lock) \/ Return(c)
  BY Zenon DEF InstallCommit, Applied, Derived, Locks, epoch
<1> HIDE DEF rec
<1>7. x \in Locals /\ x.pc = "bind" /\ x.rec = rec
  BY <1>1, <1>5, ZenonT(40) DEF Locals, PCs
<1>8. (cl' = [cl EXCEPT ![c] = x] /\ lock' = lock) \/ Return(c)
  BY <1>1, <1>6, Zenon DEF RegistryInv, TypeInv, Locals
<1> HIDE DEF x
<1>9. row.rewound \in BOOLEAN
  BY <1>1, Zenon DEF Rows
<1>10. /\ row' \in Rows /\ row'.rev = rec.rev /\ row'.there /\ ~row'.deleted
       /\ row'.col = rec.rev /\ row'.inst = row.inst + 1 /\ row'.rewound = row.rewound
  BY <1>5, <1>6, <1>9, Zenon DEF Rows
<1>11. Slack = 0 /\ Slack' \in Nat /\ Installed'
  BY <1>3, <1>10, Zenon DEF Slack, Installed
<1>12. Advances
  <2>1. row'.inst >= 1 /\ row.inst < row'.inst
    BY <1>2, <1>10
  <2>2. row.rev.epoch + Slack <= row'.rev.epoch + Slack'
    BY <1>2, <1>4, <1>5, <1>10, <1>11
  <2>3. row.rev.epoch < row'.rev.epoch \/ row.rev.epoch = row'.rev.epoch
    BY <1>2, <1>4, <1>5, <1>10
  <2> QED BY <1>3, <1>10, <1>11, <2>1, <2>2, <2>3, Zenon DEF Advances
<1>13. ColumnsCover'
  BY <1>5, <1>10 DEF ColumnsCover, Revisions
<1>14. NoAuthorityAfterUninstall'
  BY <1>10, Zenon DEF NoAuthorityAfterUninstall
<1>15. x.rec.rev.epoch + (IF x.pc = "bump" THEN 1 ELSE 0) <= row'.rev.epoch + Slack'
  BY <1>4, <1>5, <1>7, <1>10, <1>11
<1>16. grant' \in Grants /\ policy' \in Policies
  BY <1>6, Zenon DEF RegistryInv, TypeInv
<1> QED BY <1>3, <1>6, <1>7, <1>8, <1>10, <1>12, <1>13, <1>14, <1>15, <1>16,
           LifecycleCommitted, Zenon

(* Store.CommitUninstall keeps the invariant.                               *)
LEMMA CommitUninstallKeeps ==
  ASSUME RolesApart, RegistryInv, NEW c \in Managers, CommitUninstall(c)
  PROVE  RegistryInv'
<1> DEFINE rev == Revision(row.rev.policy, row.rev.management + 1, row.rev.epoch + 1)
           x == [cl[c] EXCEPT !.rec = [cl[c].rec EXCEPT !.rev = rev], !.pc = "unpolicy"]
<1>1. /\ c \in Clients /\ cl[c] \in Locals /\ row \in Rows /\ ClientInv(c) /\ RowInv
      /\ row.rev \in Revisions /\ floor' = floor
  BY Zenon DEF Clients, RegistryInv, TypeInv, Rows, CommitUninstall
<1>2. CASE Return(c) /\ UNCHANGED <<row, grant, policy>>
  <2>1. floor' \in Nat /\ FloorInv'
    BY <1>1, <1>2, Floor, Zenon
  <2> QED BY <1>1, <1>2, <2>1, Returned, Zenon
<1>3. CASE ~(Return(c) /\ UNCHANGED <<row, grant, policy>>)
  <2>1. /\ rev \in Revisions /\ rev.epoch = row.rev.epoch + 1 /\ rev.policy = row.rev.policy
        /\ rev.management = row.rev.management + 1
    BY <1>1 DEF Revision, Revisions
  <2>2. /\ row' = [row EXCEPT !.deleted = TRUE, !.rev = rev, !.col = rev]
        /\ grant' = "none" /\ policy' = "none" /\ row.there
        /\ \/ cl' = [cl EXCEPT ![c].rec.rev = rev, ![c].pc = "unpolicy"] /\ lock' = lock
           \/ Return(c)
    BY <1>3, Zenon DEF CommitUninstall, Applied, Locks, Installed
  <2>3. lock = c
    BY <1>1, Zenon DEF CommitUninstall, At, ClientInv, ManagerInv
  <2> HIDE DEF rev
  <2>4. /\ row' \in Rows /\ row'.there = row.there /\ row'.rev = rev /\ row'.col = rev
        /\ row'.inst = row.inst /\ row'.rewound = row.rewound /\ row'.deleted
    BY <1>1, <2>1, <2>2, Zenon DEF Rows
  <2>5. x \in Locals /\ x.pc = "unpolicy" /\ x.rec.rev = rev
    BY <1>1, <2>1, ZenonT(40) DEF Locals, Records, PCs
  <2>6. (cl' = [cl EXCEPT ![c] = x] /\ lock' = lock) \/ Return(c)
    BY <1>1, <2>2, Zenon DEF RegistryInv, TypeInv, Locals, Records
  <2> HIDE DEF x
  <2>7. Slack \in {0, 1} /\ Slack' = 0 /\ row.rev.epoch \in Nat
    BY <1>1, <2>4, Zenon DEF Slack, Installed, Revisions
  <2>8. Advances
    <3>1. Later(row'.rev, row.rev)
      BY <1>1, <2>1, <2>4 DEF Later, Revisions
    <3>2. row.rev.epoch < row'.rev.epoch /\ row.rev.epoch + Slack <= row'.rev.epoch + Slack'
      BY <2>1, <2>4, <2>7
    <3> QED BY <1>1, <2>2, <2>4, <3>1, <3>2, Zenon DEF Advances, RowInv
  <2>9. ColumnsCover' /\ NoAuthorityAfterUninstall'
    BY <2>1, <2>2, <2>4 DEF ColumnsCover, NoAuthorityAfterUninstall, Revisions
  <2>10. x.rec.rev.epoch + (IF x.pc = "bump" THEN 1 ELSE 0) <= row'.rev.epoch + Slack'
    BY <2>1, <2>4, <2>5, <2>7
  <2>11. grant' \in Grants /\ policy' \in Policies /\ ~Allows(grant', policy')
    BY <2>2 DEF Grants, Policies, Allows
  <2> QED BY <1>1, <2>3, <2>4, <2>5, <2>6, <2>8, <2>9, <2>10, <2>11, LifecycleCommitted, Zenon
<1> QED BY <1>2, <1>3, Zenon

(* RegistryView.PutPlugin keeps the invariant, for an update and its rollback.*)
LEMMA PutRowKeeps ==
  ASSUME RolesApart, RegistryInv, NEW c \in Managers,
         NEW pkg \in Packages \union {NoOne}, PutRow(pkg),
         row.there, lock = c, UNCHANGED <<grant, policy, floor>>,
         NEW rec \in Records, row'.rewound \/ rec.rev.epoch <= row'.rev.epoch,
         NEW p \in {"publish", "revoke", "rollbackPublish"},
         \/ cl' = [cl EXCEPT ![c].rec = rec, ![c].pc = p] /\ lock' = lock
         \/ Return(c)
  PROVE  RegistryInv'
<1> DEFINE rev == Revision(row.rev.policy, row.rev.management + 1, row.rev.epoch + 1)
           x == [cl[c] EXCEPT !.rec = rec, !.pc = p]
<1>1. /\ c \in Clients /\ cl[c] \in Locals /\ row \in Rows /\ RowInv /\ row.rev \in Revisions
      /\ grant' \in Grants /\ policy' \in Policies
  BY Zenon DEF Clients, RegistryInv, TypeInv, Rows
<1>2. /\ rev \in Revisions /\ rev.epoch = row.rev.epoch + 1 /\ rev.policy = row.rev.policy
      /\ rev.management = row.rev.management + 1
  BY <1>1 DEF Revision, Revisions
<1>3. row' = [row EXCEPT !.pkg = pkg, !.rev = rev, !.col = rev]
  BY Zenon DEF PutRow
<1> HIDE DEF rev
<1>4. /\ row' \in Rows /\ row'.there = row.there /\ row'.rev = rev /\ row'.col = rev
      /\ row'.inst = row.inst /\ row'.rewound = row.rewound /\ row'.deleted = row.deleted
  BY <1>1, <1>2, <1>3, Zenon DEF Rows
<1>5. x \in Locals /\ x.pc = p /\ x.rec = rec
  BY <1>1, ZenonT(40) DEF Locals, PCs
<1>6. (cl' = [cl EXCEPT ![c] = x] /\ lock' = lock) \/ Return(c)
  BY <1>1, Zenon DEF RegistryInv, TypeInv, Locals
<1> HIDE DEF x
<1>7. Slack \in {0, 1} /\ Slack' \in {0, 1} /\ row.rev.epoch \in Nat
  BY <1>1, Zenon DEF Slack, Revisions
<1>8. Advances
  <2>1. Later(row'.rev, row.rev)
    BY <1>1, <1>2, <1>4 DEF Later, Revisions
  <2>2. row.rev.epoch < row'.rev.epoch /\ row.rev.epoch + Slack <= row'.rev.epoch + Slack'
    BY <1>2, <1>4, <1>7
  <2> QED BY <1>1, <1>4, <2>1, <2>2, Zenon DEF Advances, RowInv
<1>9. ColumnsCover'
  BY <1>2, <1>4 DEF ColumnsCover, Revisions
<1>10. NoAuthorityAfterUninstall'
  BY <1>1, <1>4, Zenon DEF NoAuthorityAfterUninstall, RowInv
<1>11. rec.rev.epoch \in Nat
  BY Zenon DEF Records, Revisions
<1>12. \/ row'.rewound
       \/ x.rec.rev.epoch + (IF x.pc = "bump" THEN 1 ELSE 0) <= row'.rev.epoch + Slack'
  BY <1>2, <1>4, <1>5, <1>7, <1>11
<1>13. x.pc \notin {"idle", "want", "setRead", "setWrite", "commit"}
  BY <1>5, Zenon
<1> QED BY <1>1, <1>4, <1>5, <1>6, <1>8, <1>9, <1>10, <1>12, <1>13, LifecycleCommitted, Zenon

(* A failed preparation keeps the invariant (BindFailed).                   *)
LEMMA BindFailedKeeps ==
  ASSUME RolesApart, RegistryInv, NEW c \in Clients, c \notin Authorizers,
         UNCHANGED <<row, grant, policy, floor>>,
         BindFailed(c), cl[c].pc \in {"bind", "bindReady", "activate"}
  PROVE  RegistryInv'
<1>1. floor' \in Nat /\ FloorInv'
  BY Floor, Zenon
<1>2. CASE Return(c)
  BY <1>1, <1>2, Returned, Zenon
<1>3. CASE Move(c, "publish") /\ lock' = lock
  BY <1>1, <1>3, Moved, Zenon
<1> QED BY <1>2, <1>3, Zenon DEF BindFailed, Locks

(* The start of a preparation keeps the invariant (prepareWorkerBinding).   *)
LEMMA BindStartKeeps ==
  ASSUME RolesApart, RegistryInv, NEW c \in Clients, c \notin Authorizers, BindStart(c)
  PROVE  RegistryInv'
<1>1. UNCHANGED <<row, grant, policy, floor>> /\ cl[c].pc = "bind"
  BY Zenon DEF BindStart, Durable, At
<1>a. floor' \in Nat /\ FloorInv'
  BY <1>1, Floor, Zenon
<1>2. CASE Bound(c) /\ lock' = lock
  BY <1>1, <1>2, BoundKept, Zenon
<1>3. CASE Move(c, "bindReady") /\ lock' = lock
  BY <1>1, <1>a, <1>3, Moved, Zenon
<1>4. CASE BindFailed(c)
  BY <1>1, <1>4, BindFailedKeeps, Zenon
<1> QED BY <1>2, <1>3, <1>4, Zenon DEF BindStart, Locks

(* The end of a preparation keeps the invariant (prepareWorkerBinding).     *)
LEMMA BindReadyKeeps ==
  ASSUME RolesApart, RegistryInv, NEW c \in Clients, c \notin Authorizers, BindReady(c)
  PROVE  RegistryInv'
<1>1. UNCHANGED <<row, grant, policy, floor>> /\ cl[c].pc = "bindReady"
  BY Zenon DEF BindReady, Durable, At
<1>2. CASE Bound(c) /\ lock' = lock
  BY <1>1, <1>2, BoundKept, Zenon
<1>3. CASE BindFailed(c)
  BY <1>1, <1>3, BindFailedKeeps, Zenon
<1> QED BY <1>2, <1>3, Zenon DEF BindReady

(* activateEnabledRuntimeState keeps the invariant.                         *)
LEMMA ActivateKeeps ==
  ASSUME RolesApart, RegistryInv, NEW c \in Clients, c \notin Authorizers, Activate(c)
  PROVE  RegistryInv'
<1>1. UNCHANGED <<row, grant, policy, floor>> /\ cl[c].pc = "activate"
  BY Zenon DEF Activate, Durable, At
<1>a. floor' \in Nat /\ FloorInv'
  BY <1>1, Floor, Zenon
<1>2. CASE Return(c)
  BY <1>1, <1>a, <1>2, Returned, Zenon
<1>3. CASE Move(c, "publish") /\ lock' = lock
  BY <1>1, <1>a, <1>3, Moved, Zenon
<1>4. CASE BindFailed(c)
  BY <1>1, <1>4, BindFailedKeeps, Zenon
<1> QED BY <1>2, <1>3, <1>4, Zenon DEF Activate, Locks

(* revokePluginRuntimeCapabilities keeps the invariant: it raises the floor *)
(* to an epoch the row has had, or that a denial may reach.                 *)
LEMMA RevokeCapabilitiesKeeps ==
  ASSUME RolesApart, RegistryInv, NEW c \in Clients, RevokeCapabilities(c)
  PROVE  RegistryInv'
<1>1. /\ floor' \in {floor, Bigger(floor, cl[c].rec.rev.epoch)} /\ cl[c].pc = "revoke"
      /\ UNCHANGED <<row, grant, policy>>
  BY Zenon DEF RevokeCapabilities, At, Durable
<1>2. cl[c].rec.rev.epoch \in Nat /\ floor \in Nat /\ FloorInv /\ ClientInv(c)
  BY Zenon DEF RegistryInv, TypeInv, Locals, Records, Revisions, RowInv
<1>3. floor' \in Nat
  BY <1>1, <1>2, Zenon DEF Bigger
<1>4. FloorInv'
  <2>1. row' = row /\ Slack' = Slack
    BY <1>1, Zenon DEF Slack, Installed
  <2>2. row.rewound \/ cl[c].rec.rev.epoch <= row.rev.epoch + Slack
    <3>1. Reach(c) = cl[c].rec.rev.epoch
      BY <1>1, <1>2 DEF Reach
    <3> QED BY <1>2, <3>1, Zenon DEF ClientInv
  <2> QED BY <1>1, <1>2, <2>1, <2>2, Zenon DEF FloorInv, Bigger
<1>5. CASE Return(c)
  BY <1>1, <1>3, <1>4, <1>5, Returned, Zenon
<1>6. CASE (Move(c, "unpolicy") \/ Move(c, "rollback")) /\ lock' = lock
  BY <1>1, <1>3, <1>4, <1>6, Moved, Zenon
<1> QED BY <1>5, <1>6, Zenon DEF RevokeCapabilities, Locks

(* PublishSurfaces of no surface keeps the invariant.                       *)
LEMMA UnpublishKeeps ==
  ASSUME RolesApart, RegistryInv, NEW c \in Clients, Unpublish(c)
  PROVE  RegistryInv'
<1>1. UNCHANGED <<row, grant, policy, floor>> /\ cl[c].pc = "unpublish"
  BY Zenon DEF Unpublish, Durable, At
<1>2. floor' \in Nat /\ FloorInv'
  BY <1>1, Floor, Zenon
<1>3. CASE Return(c)
  BY <1>1, <1>2, <1>3, Returned, Zenon
<1>4. CASE (Move(c, "revoke") \/ Move(c, "unpolicy")) /\ lock' = lock
  BY <1>1, <1>2, <1>4, Moved, Zenon
<1> QED BY <1>3, <1>4, Zenon DEF Unpublish, Locks

(* connectivity.RemovePolicy keeps the invariant.                           *)
LEMMA RemovePolicyKeeps ==
  ASSUME RolesApart, RegistryInv, NEW c \in Clients, RemovePolicy(c)
  PROVE  RegistryInv'
<1>1. UNCHANGED <<row, grant, policy, floor>> /\ cl[c].pc = "unpolicy"
  BY Zenon DEF RemovePolicy, Durable, At
<1>2. floor' \in Nat /\ FloorInv'
  BY <1>1, Floor, Zenon
<1>3. CASE Return(c)
  BY <1>1, <1>2, <1>3, Returned, Zenon
<1>4. CASE (Move(c, "unpublish") \/ Move(c, "revoke")) /\ lock' = lock
  BY <1>1, <1>2, <1>4, Moved, Zenon
<1> QED BY <1>3, <1>4, Zenon DEF RemovePolicy, Locks

(* canRun of a record that is not runnable keeps the invariant: the denial  *)
(* may go one epoch beyond the row.                                         *)
LEMMA DenyKeeps ==
  ASSUME RolesApart, RegistryInv, NEW c \in Clients \ Managers, Deny(c),
         UNCHANGED <<row, grant, policy, floor, lock>>, Installed, ~Runnable(row.pkg)
  PROVE  RegistryInv'
<1> DEFINE x == [cl[c] EXCEPT !.op = "deny", !.pc = "bump", !.rec = Record]
<1>1. cl[c] \in Locals /\ row \in Rows /\ floor' \in Nat /\ FloorInv'
  BY Floor, Zenon DEF RegistryInv, TypeInv
<1>2. Record \in Records /\ row.rev.epoch \in Nat /\ Record.rev = row.rev
  BY <1>1 DEF Rows, Records, Record, Revisions
<1>3. x \in Locals /\ x.pc = "bump" /\ x.rec = Record
  BY <1>1, <1>2, ZenonT(40) DEF Locals, PCs
<1>4. cl' = [cl EXCEPT ![c] = x] /\ cl'[c] = x
  BY <1>1, Zenon DEF Deny, RegistryInv, TypeInv, Locals
<1> HIDE DEF x
<1>5. cl'[c].pc = "bump" /\ cl'[c].rec.rev.epoch = row.rev.epoch
  BY <1>2, <1>3, <1>4, Zenon
<1>6. Slack' = 1 /\ row' = row
  BY Zenon DEF Slack, Installed
<1>7. (Reach(c) <= row.rev.epoch + Slack)'
  BY <1>2, <1>5, <1>6 DEF Reach
<1>8. ClientInv(c)'
  BY <1>5, <1>7, Zenon DEF ClientInv, CasInv, AuthorizerInv, CallerInv, Holding
<1> QED BY <1>1, <1>3, <1>4, <1>8, Quiet, Zenon

(* The row after BumpRevokeEpoch: the epoch and nothing else has risen.     *)
LEMMA Bumped ==
  ASSUME RegistryInv, Installed, row' = BumpedRow, UNCHANGED <<grant, policy>>
  PROVE  /\ row' \in Rows /\ Advances /\ KeepsLifecycle /\ ColumnsCover'
         /\ NoAuthorityAfterUninstall' /\ Slack' = Slack
         /\ row'.rev.epoch = row.rev.epoch + 1
<1> DEFINE r == [row.rev EXCEPT !.epoch = row.rev.epoch + 1]
           k == [row.col EXCEPT !.epoch = row.col.epoch + 1]
<1>1. row \in Rows /\ RowInv /\ row.rev \in Revisions /\ row.col \in Revisions
  BY Zenon DEF RegistryInv, TypeInv, Rows
<1>2. /\ r \in Revisions /\ k \in Revisions
      /\ r.epoch = row.rev.epoch + 1 /\ r.policy = row.rev.policy
      /\ r.management = row.rev.management
      /\ k.epoch = row.col.epoch + 1 /\ k.policy = row.col.policy
      /\ k.management = row.col.management
  BY <1>1 DEF Revisions
<1>3. row' = [row EXCEPT !.rev = r, !.col = k]
  BY DEF BumpedRow
<1> HIDE DEF r, k
<1>4. /\ row' \in Rows /\ row'.rev = r /\ row'.col = k /\ row'.there = row.there
      /\ row'.deleted = row.deleted /\ row'.inst = row.inst /\ row'.rewound = row.rewound
      /\ row'.pkg = row.pkg
  BY <1>1, <1>2, <1>3, ZenonT(40) DEF Rows
<1>5. Slack' = Slack /\ Slack \in Nat /\ row.rev.epoch \in Nat
  BY <1>1, <1>4, Zenon DEF Slack, Installed, Revisions
<1>6. Advances
  <2>1. Later(row'.rev, row.rev)
    BY <1>1, <1>2, <1>4 DEF Later, Revisions
  <2>2. row.rev.epoch < row'.rev.epoch /\ row.rev.epoch + Slack <= row'.rev.epoch + Slack'
    BY <1>2, <1>4, <1>5
  <2> QED BY <1>1, <1>4, <2>1, <2>2, Zenon DEF Advances, RowInv, Installed
<1>7. KeepsLifecycle
  BY <1>1, <1>2, <1>4 DEF KeepsLifecycle, Revisions
<1>8. ColumnsCover'
  BY <1>1, <1>2, <1>4, Zenon DEF ColumnsCover, RowInv
<1>9. NoAuthorityAfterUninstall'
  BY <1>1, <1>4, Zenon DEF NoAuthorityAfterUninstall, RowInv
<1> QED BY <1>2, <1>4, <1>5, <1>6, <1>7, <1>8, <1>9, Zenon

(* BumpRevokeEpoch keeps the invariant, whether or not it commits.          *)
LEMMA BumpRevokeEpochKeeps ==
  ASSUME RolesApart, RegistryInv, NEW c \in Clients, BumpRevokeEpoch(c)
  PROVE  RegistryInv'
<1>1. /\ cl[c].pc = "bump" /\ UNCHANGED <<grant, policy, floor, lock>>
      /\ \/ Installed /\ row' = BumpedRow
         \/ UNCHANGED row
  BY Zenon DEF BumpRevokeEpoch, At, Derived, Locks
<1>2. /\ cl[c] \in Locals /\ ClientInv(c) /\ row \in Rows /\ row.rev.epoch \in Nat
      /\ cl[c].rec \in Records /\ cl[c].rec.rev \in Revisions
  BY Zenon DEF RegistryInv, TypeInv, Locals, Records, Rows, Revisions
<1>3. /\ row' \in Rows /\ Slack' = Slack /\ Slack \in Nat
      /\ row'.rewound = row.rewound /\ row'.there = row.there
      /\ row'.rev.epoch \in {row.rev.epoch, row.rev.epoch + 1}
  <2>1. CASE UNCHANGED row
    BY <1>2, <2>1, Zenon DEF Slack, Installed
  <2>2. CASE Installed /\ row' = BumpedRow
    <3>1. row' \in Rows /\ Slack' = Slack /\ row'.rev.epoch = row.rev.epoch + 1
      BY <1>1, <2>2, Bumped, Zenon
    <3>2. row'.rewound = row.rewound /\ row'.there = row.there
      BY <1>2, <2>2, Zenon DEF BumpedRow, Rows
    <3> QED BY <3>1, <3>2, Zenon DEF Slack
  <2> QED BY <1>1, <2>1, <2>2, Zenon
<1>4. PICK rec \in Records :
         /\ cl' = [cl EXCEPT ![c].rec = rec, ![c].pc = "unpublish"]
         /\ rec.rev.epoch \in {row'.rev.epoch, cl[c].rec.rev.epoch + 1}
  <2>1. CASE cl' = [cl EXCEPT ![c].rec = Record', ![c].pc = "unpublish"]
    <3>1. Record' \in Records /\ Record'.rev.epoch = row'.rev.epoch
      BY <1>3 DEF Record, Records, Rows
    <3> QED BY <2>1, <3>1, Zenon
  <2>2. CASE cl' = [cl EXCEPT ![c].rec.rev.epoch = @ + 1, ![c].pc = "unpublish"]
    <3> DEFINE v == [cl[c].rec.rev EXCEPT !.epoch = cl[c].rec.rev.epoch + 1]
               s == [cl[c].rec EXCEPT !.rev = v]
    <3>1. v \in Revisions /\ v.epoch = cl[c].rec.rev.epoch + 1
      BY <1>2 DEF Revisions
    <3>2. s \in Records /\ s.rev = v
      <4> HIDE DEF v
      <4> QED BY <1>2, <3>1, Zenon DEF Records
    <3>3. cl' = [cl EXCEPT ![c].rec = s, ![c].pc = "unpublish"]
      BY <1>2, <2>2, ZenonT(40) DEF RegistryInv, TypeInv, Locals, Records, Revisions
    <3> HIDE DEF s, v
    <3> QED BY <3>1, <3>2, <3>3, Zenon
  <2> QED BY <2>1, <2>2, Zenon DEF BumpRevokeEpoch
<1> DEFINE x == [cl[c] EXCEPT !.rec = rec, !.pc = "unpublish"]
<1>5. x \in Locals /\ x.pc = "unpublish" /\ x.rec = rec
  BY <1>2, ZenonT(40) DEF Locals, PCs
<1>6. cl' = [cl EXCEPT ![c] = x] /\ cl'[c] = x
  BY <1>2, <1>4, Zenon DEF RegistryInv, TypeInv, Locals
<1> HIDE DEF x
<1>7. cl'[c].pc = "unpublish" /\ cl'[c].rec = rec
  BY <1>5, <1>6, Zenon
<1>8. (row.rewound \/ Reach(c) <= row.rev.epoch + Slack)'
  <2>1. CASE row.rewound
    BY <1>3, <2>1, Zenon
  <2>2. CASE ~row.rewound
    <3>1. cl[c].rec.rev.epoch \in Nat
      BY <1>2, Zenon DEF Revisions
    <3>2. cl[c].rec.rev.epoch + 1 <= row.rev.epoch + Slack
      BY <1>1, <1>2, <2>2, <3>1 DEF ClientInv, Reach
    <3>3. Reach(c)' = rec.rev.epoch /\ rec.rev.epoch \in Nat
      BY <1>7 DEF Reach, Records, Revisions
    <3> QED BY <1>2, <1>3, <1>4, <3>1, <3>2, <3>3
  <2> QED BY <2>1, <2>2, Zenon
<1>9. ClientInv(c)'
  BY <1>1, <1>2, <1>3, <1>7, <1>8, Zenon
     DEF ClientInv, ManagerInv, CasInv, AuthorizerInv, CallerInv, Holding
<1>10. CASE UNCHANGED row
  <2>1. floor' \in Nat /\ FloorInv'
    BY <1>1, <1>10, Floor, Zenon
  <2> QED BY <1>1, <1>5, <1>6, <1>9, <1>10, <2>1, Quiet, Zenon
<1>11. CASE Installed /\ row' = BumpedRow
  <2>1. Advances /\ KeepsLifecycle /\ ColumnsCover' /\ NoAuthorityAfterUninstall'
    BY <1>1, <1>11, Bumped, Zenon
  <2>2. grant' \in Grants /\ policy' \in Policies
    BY <1>1, Zenon DEF RegistryInv, TypeInv
  <2>3. cl' \in [Clients -> Locals] /\ \A d \in Clients \ {c} : cl'[d] = cl[d]
    BY <1>5, <1>6, Zenon DEF RegistryInv, TypeInv
  <2>4. \A d \in Clients \ {c} : OtherKept(d)
    BY <1>1, <2>3, Zenon DEF OtherKept
  <2> QED BY <1>1, <1>3, <1>9, <2>1, <2>2, <2>3, <2>4, Committed, Zenon
<1> QED BY <1>1, <1>10, <1>11, Zenon

(* Every step of a lifecycle operation keeps the invariant.                 *)
LEMMA ManagerStepKeeps ==
  ASSUME RolesApart, RegistryInv, NEW c \in Managers, ManagerStep(c)
  PROVE  RegistryInv'
<1>a. /\ c \in Clients /\ c \notin Authorizers /\ c \notin Callers /\ ClientInv(c)
      /\ ManagerInv(c) /\ cl[c] \in Locals /\ row \in Rows
  BY Zenon DEF Clients, RolesApart, RegistryInv, TypeInv, ClientInv
<1>b. ASSUME UNCHANGED <<row, floor>> PROVE floor' \in Nat /\ FloorInv'
  BY <1>b, Floor, Zenon
<1>1. ASSUME NEW op \in ManagerOps, NEW p \in Packages \union {NoOne}, Request(c, op, p)
      PROVE  RegistryInv'
  BY <1>a, <1>1, Requested, Zenon
<1>2. CASE AcquireWrite(c)
  BY <1>2, AcquireWriteKeeps, Zenon
<1>3. CASE Abort(c)
  BY <1>3, <1>a, <1>b, Returned, Zenon DEF Abort, Durable, Derived
<1>4. CASE SetEnableRead(c) \/ SetEnableWrite(c)
  BY <1>4, SetEnableReadKeeps, SetEnableWriteKeeps, Zenon
<1>5. CASE InstallCommit(c)
  BY <1>5, InstallCommitKeeps, Zenon
<1>6. CASE CommitUninstall(c)
  BY <1>6, CommitUninstallKeeps, Zenon
<1>7. CASE PrepareUpdate(c)
  <2>1. UNCHANGED <<row, grant, policy, floor>> /\ cl[c].pc = "prepare"
    BY <1>7, Zenon DEF PrepareUpdate, Durable, At
  <2>2. CASE Return(c)
    BY <1>a, <1>b, <2>1, <2>2, Returned, Zenon
  <2>3. CASE Move(c, "put") /\ lock' = lock
    BY <1>a, <1>b, <2>1, <2>3, Moved, Zenon
  <2> QED BY <1>7, <2>2, <2>3, Zenon DEF PrepareUpdate, Locks
<1>8. CASE PutPlugin(c)
  <2> DEFINE p == IF row.enabled THEN "publish" ELSE "revoke"
  <2>1. cl[c].target \in Packages \union {NoOne} /\ row.there /\ lock = c
    BY <1>8, <1>a, Zenon DEF Locals, PutPlugin, Installed, ManagerInv, At
  <2>2. /\ PutRow(cl[c].target) /\ UNCHANGED <<grant, policy, floor>>
        /\ (cl' = [cl EXCEPT ![c].rec = Record', ![c].pc = p] /\ lock' = lock) \/ Return(c)
    BY <1>8, Zenon DEF PutPlugin, Applied, Derived, Locks
  <2>3. row' \in Rows
    <3> DEFINE rev == Revision(row.rev.policy, row.rev.management + 1, row.rev.epoch + 1)
    <3>1. row.rev \in Revisions
      BY <1>a, Zenon DEF Rows
    <3>2. rev \in Revisions /\ row' = [row EXCEPT !.pkg = cl[c].target, !.rev = rev, !.col = rev]
      BY <2>2, <3>1 DEF PutRow, Revision, Revisions
    <3> HIDE DEF rev
    <3> QED BY <1>a, <2>1, <3>2, Zenon DEF Rows
  <2>4. Record' \in Records /\ Record'.rev = row'.rev /\ row'.rev.epoch \in Nat
    BY <2>3 DEF Record, Records, Rows, Revisions
  <2>5. Record'.rev.epoch <= row'.rev.epoch /\ p \in {"publish", "revoke", "rollbackPublish"}
    BY <2>4
  <2> HIDE DEF p
  <2> QED BY <2>1, <2>2, <2>4, <2>5, PutRowKeeps, Zenon
<1>9. CASE RollbackPut(c)
  <2>1. CASE Return(c) /\ UNCHANGED row
    BY <1>9, <1>a, <1>b, <2>1, Returned, Zenon DEF RollbackPut, Derived
  <2>2. CASE ~(Return(c) /\ UNCHANGED row)
    <3> DEFINE rec == [cl[c].rec EXCEPT !.pkg = cl[c].from]
    <3>1. /\ PutRow(cl[c].from) /\ UNCHANGED <<grant, policy, floor>> /\ cl[c].pc = "rollback"
          /\ \/ /\ cl' = [cl EXCEPT ![c].pc = "rollbackPublish", ![c].rec.pkg = cl[c].from]
                /\ lock' = lock
             \/ Return(c)
      BY <1>9, <2>2, Zenon DEF RollbackPut, Applied, Derived, Locks, At
    <3>2. cl[c].from \in Packages \union {NoOne} /\ row.there /\ lock = c
      BY <1>a, <3>1, Zenon DEF Locals, ManagerInv
    <3>3. rec \in Records /\ rec.rev = cl[c].rec.rev /\ rec.rev.epoch \in Nat
      BY <1>a, <3>2, Zenon DEF Locals, Records, Revisions
    <3>4. row'.rev.epoch = row.rev.epoch + 1 /\ row.rev.epoch \in Nat /\ row'.rewound = row.rewound
      BY <1>a, <3>1, Zenon DEF PutRow, Rows, Revision, Revisions
    <3>5. row'.rewound \/ rec.rev.epoch <= row'.rev.epoch
      <4>1. Slack \in {0, 1} /\ Reach(c) = rec.rev.epoch
        BY <3>1, <3>3 DEF Slack, Reach
      <4>2. row.rewound \/ rec.rev.epoch <= row.rev.epoch + Slack
        BY <1>a, <4>1, Zenon DEF ClientInv
      <4> HIDE DEF rec
      <4> QED BY <3>3, <3>4, <4>1, <4>2
    <3>6. \/ cl' = [cl EXCEPT ![c].rec = rec, ![c].pc = "rollbackPublish"] /\ lock' = lock
          \/ Return(c)
      BY <1>a, <3>1, ZenonT(40) DEF RegistryInv, TypeInv, Locals
    <3> HIDE DEF rec
    <3> QED BY <3>1, <3>2, <3>3, <3>5, <3>6, PutRowKeeps, Zenon
  <2> QED BY <2>1, <2>2, Zenon
<1>10. CASE RollbackPublish(c)
  BY <1>10, <1>a, <1>b, Returned, Zenon DEF RollbackPublish, Durable
<1>11. CASE BindStart(c)
  BY <1>11, <1>a, BindStartKeeps, Zenon
<1>12. CASE BindReady(c)
  BY <1>12, <1>a, BindReadyKeeps, Zenon
<1>13. CASE Activate(c)
  BY <1>13, <1>a, ActivateKeeps, Zenon
<1>14. CASE Publish(c)
  <2>1. UNCHANGED <<row, grant, policy, floor>> /\ cl[c].pc = "publish"
    BY <1>14, Zenon DEF Publish, Durable, At
  <2>2. CASE Return(c)
    BY <1>a, <1>b, <2>1, <2>2, Returned, Zenon
  <2>3. CASE (Move(c, "revoke") \/ Move(c, "rollback")) /\ lock' = lock
    BY <1>a, <1>b, <2>1, <2>3, Moved, Zenon
  <2> QED BY <1>14, <2>2, <2>3, Zenon DEF Publish, Locks
<1>15. CASE Unpublish(c)
  BY <1>15, <1>a, UnpublishKeeps, Zenon
<1>16. CASE RevokeCapabilities(c)
  BY <1>16, <1>a, RevokeCapabilitiesKeeps, Zenon
<1>17. CASE RemovePolicy(c)
  BY <1>17, <1>a, RemovePolicyKeeps, Zenon
<1>18. CASE BumpRevokeEpoch(c)
  BY <1>18, <1>a, BumpRevokeEpochKeeps, Zenon
<1> QED BY <1>1, <1>2, <1>3, <1>4, <1>5, <1>6, <1>7, <1>8, <1>9, <1>10, <1>11, <1>12, <1>13,
           <1>14, <1>15, <1>16, <1>17, <1>18, ZenonT(40) DEF ManagerStep

(* The query for the record keeps the invariant; the second one of a call   *)
(* compares the record with the first, so that nothing was committed in     *)
(* between, or the call is of an earlier installation (GetAuthorization,    *)
(* validateExecutionBinding).                                               *)
LEMMA ReadRecordKeeps ==
  ASSUME RolesApart, RegistryInv, NEW c \in Clients \ Managers, ReadRecord(c)
  PROVE  RegistryInv'
<1>a. /\ UNCHANGED <<row, grant, policy, floor>> /\ cl[c].pc = "read"
      /\ cl[c] \in Locals /\ ClientInv(c) /\ row \in Rows /\ RowInv
  BY Zenon DEF ReadRecord, Durable, Derived, At, RegistryInv, TypeInv
<1>b. floor' \in Nat /\ FloorInv'
  BY <1>a, Floor, Zenon
<1>1. CASE Return(c)
  BY <1>1, <1>a, <1>b, Returned, Zenon
<1>2. CASE RecordDenied(c)
  <2>1. Deny(c) /\ lock' = lock /\ Installed /\ ~Runnable(row.pkg)
    BY <1>2 DEF ReadRecord, Locks, RecordDenied
  <2> QED BY <1>a, <2>1, DenyKeeps, Zenon
<1>3. CASE ~Return(c) /\ ~RecordDenied(c)
  <2> DEFINE q == IF c \in Recoverers THEN "bind" ELSE "grants"
             b == cl[c].real \/ (c \in Callers /\ Allows(grant, policy))
             s == IF cl[c].bound THEN cl[c].rec ELSE Record
             x == [cl[c] EXCEPT !.rec = s, !.pc = q, !.real = b]
  <2>1. /\ cl' = [cl EXCEPT ![c].rec = s, ![c].pc = q, ![c].real = b]
        /\ lock' = lock /\ ~RecordRefused(c)
    BY <1>3 DEF ReadRecord, Locks
  <2>2. /\ Record \in Records /\ q \in PCs /\ b \in BOOLEAN /\ row.rev \in Revisions
        /\ Record.rev = row.rev /\ Record.inst = row.inst /\ row.rev.epoch \in Nat
    BY <1>a DEF Rows, Revisions, Records, Record, PCs, Locals
  <2>3. s \in Records
    BY <1>a, <2>2, Zenon DEF Locals
  <2>4. /\ x \in Locals /\ x.pc = q /\ x.rec = s /\ x.real = b
        /\ x.exp = cl[c].exp /\ x.bound = cl[c].bound
    <3> HIDE DEF q, b, s
    <3> QED BY <1>a, <2>2, <2>3, Zenon DEF Locals
  <2>5. cl' = [cl EXCEPT ![c] = x] /\ cl'[c] = x
    BY <1>a, <2>1, ZenonT(40) DEF RegistryInv, TypeInv, Locals
  <2> HIDE DEF x
  <2>6. /\ cl'[c].pc = q /\ cl'[c].rec = s /\ cl'[c].real = b
        /\ cl'[c].exp = cl[c].exp /\ cl'[c].bound = cl[c].bound
    BY <2>4, <2>5, Zenon
  <2>7. Installed /\ row.inst >= 1
    BY <1>a, <2>1, Zenon DEF RecordRefused, Installed, RowInv
  <2>8. (row.rewound \/ Reach(c) <= row.rev.epoch + Slack)'
    <3>1. Slack' = Slack /\ Slack \in Nat /\ row' = row
      BY <1>a, Zenon DEF Slack, Installed
    <3>2. cl[c].rec.rev.epoch \in Nat
      BY <1>a, Zenon DEF Locals, Records, Revisions
    <3>3. Reach(c)' = s.rev.epoch /\ Reach(c) = cl[c].rec.rev.epoch /\ s.rev.epoch \in Nat
      BY <1>a, <2>2, <2>6, <3>2 DEF Reach
    <3>4. CASE cl[c].bound
      BY <1>a, <3>1, <3>3, <3>4, Zenon DEF ClientInv
    <3>5. CASE ~cl[c].bound
      <4>1. Reach(c)' = row.rev.epoch
        BY <2>2, <3>3, <3>5, Zenon
      <4> QED BY <2>2, <3>1, <4>1
    <3> QED BY <3>4, <3>5, Zenon
  <2>9. c \in Authorizers \union Callers => CasInv(c)'
    <3>1. SUFFICES ASSUME c \in Authorizers \union Callers
                   PROVE  cl'[c].rec.inst >= 1 /\ (Overtaken(c)' \/ Current(c)')
      BY Zenon DEF CasInv
    <3>2. cl'[c].pc = "grants"
      BY <2>6, <3>1, Zenon DEF RolesApart
    <3>3. CASE ~cl[c].bound
      BY <1>a, <2>2, <2>6, <2>7, <3>2, <3>3, Zenon DEF Current, Installed, Record
    <3>4. CASE cl[c].bound
      <4>1. cl[c].rec.inst >= 1 /\ (Overtaken(c) \/ Current(c)) /\ cl'[c].rec = cl[c].rec
        BY <1>a, <2>6, <3>1, <3>4, Zenon DEF ClientInv, CasInv, Holding
      <4> QED BY <1>a, <3>2, <4>1, Zenon DEF Overtaken, Current, Installed, Record
    <3> QED BY <3>3, <3>4, Zenon
  <2>10. c \in Authorizers => AuthorizerInv(c)'
    <3>1. SUFFICES ASSUME c \in Authorizers PROVE cl'[c].exp = cl'[c].rec.rev /\ ~cl'[c].bound
      BY Zenon DEF AuthorizerInv
    <3>2. ~cl[c].bound
      BY <1>a, <3>1, Zenon DEF ClientInv, AuthorizerInv, Holding
    <3> QED BY <2>1, <2>2, <2>6, <3>1, <3>2, Zenon DEF RecordRefused
  <2>11. c \in Callers => CallerInv(c)'
    <3>1. ASSUME c \in Callers, cl[c].bound
          PROVE  b \/ (row.rewound /\ cl[c].rec.inst < row.inst)
      <4>1. cl[c].rec.rev = row.rev
        BY <2>1, <3>1 DEF RecordRefused, Identity, Record
      <4>2. Overtaken(c) \/ Current(c)
        BY <1>a, <3>1, Zenon DEF ClientInv, CasInv, Holding
      <4>3. CASE Current(c)
        BY <1>a, <3>1, <4>3, Zenon DEF Current
      <4>4. CASE Overtaken(c)
        <5> HIDE DEF b
        <5> QED BY <2>2, <4>1, <4>4 DEF Overtaken, Later, Revisions
      <4> QED BY <4>2, <4>3, <4>4, Zenon
    <3> QED BY <1>a, <2>6, <3>1, Zenon DEF CallerInv, Holding, RolesApart
  <2>12. ClientInv(c)'
    BY <2>8, <2>9, <2>10, <2>11, Zenon DEF ClientInv
  <2> QED BY <1>a, <1>b, <2>1, <2>4, <2>5, <2>12, Quiet, Zenon
<1> QED BY <1>1, <1>2, <1>3, Zenon

(* The query for the grants keeps the invariant (GetAuthorization).         *)
LEMMA ReadGrantsKeeps ==
  ASSUME RolesApart, RegistryInv, NEW c \in Authorizers \union Callers, ReadGrants(c)
  PROVE  RegistryInv'
<1> DEFINE x == [cl[c] EXCEPT !.grant = grant, !.pc = "policy"]
<1>a. /\ UNCHANGED <<row, grant, policy, floor, lock>> /\ cl[c].pc = "grants"
      /\ c \in Clients \ Managers /\ cl[c] \in Locals /\ ClientInv(c) /\ grant \in Grants
  BY Zenon DEF ReadGrants, Durable, Derived, Locks, At, RegistryInv, TypeInv, Clients, RolesApart
<1>b. floor' \in Nat /\ FloorInv'
  BY <1>a, Floor, Zenon
<1>1. /\ x \in Locals /\ x.pc = "policy" /\ x.grant = grant /\ x.rec = cl[c].rec
      /\ x.exp = cl[c].exp /\ x.bound = cl[c].bound /\ x.real = cl[c].real
  BY <1>a, ZenonT(40) DEF Locals, PCs
<1>2. cl' = [cl EXCEPT ![c] = x] /\ cl'[c] = x
  BY <1>a, Zenon DEF ReadGrants, RegistryInv, TypeInv, Locals
<1> HIDE DEF x
<1>3. CasInv(c)'
  BY <1>a, <1>1, <1>2, Zenon DEF ClientInv, CasInv, Holding, Overtaken, Current, Installed, Record
<1>4. c \in Authorizers => AuthorizerInv(c)'
  BY <1>a, <1>1, <1>2, Zenon DEF ClientInv, AuthorizerInv, Holding
<1>5. c \in Callers => CallerInv(c)'
  BY <1>a, <1>1, <1>2, Zenon DEF ClientInv, CallerInv, Holding
<1>6. (row.rewound \/ Reach(c) <= row.rev.epoch + Slack)'
  BY <1>a, <1>1, <1>2, Zenon DEF ClientInv, Reach, Slack, Installed
<1>7. ClientInv(c)'
  BY <1>a, <1>3, <1>4, <1>5, <1>6, Zenon DEF ClientInv
<1> QED BY <1>a, <1>b, <1>1, <1>2, <1>7, Quiet, Zenon

(* The query for the policy, and the decision or the successor computed from*)
(* it, keep the invariant (GetAuthorization, evaluateAuthorization).        *)
LEMMA ReadPolicyKeeps ==
  ASSUME RolesApart, RegistryInv, NEW c \in Authorizers \union Callers, ReadPolicy(c)
  PROVE  RegistryInv'
<1>a. /\ UNCHANGED <<row, grant, policy, floor>> /\ cl[c].pc = "policy"
      /\ c \in Clients \ Managers /\ cl[c] \in Locals /\ ClientInv(c) /\ policy \in Policies
  BY Zenon DEF ReadPolicy, Durable, Derived, At, RegistryInv, TypeInv, Clients, RolesApart
<1>b. floor' \in Nat /\ FloorInv'
  BY <1>a, Floor, Zenon
<1>1. CASE Return(c)
  BY <1>1, <1>a, <1>b, Returned, Zenon
<1>2. CASE ~Return(c)
  <2> DEFINE q == IF c \in Callers THEN IF cl[c].bound THEN "dispatch" ELSE "prepared"
                  ELSE "replace"
             x == [cl[c] EXCEPT !.policy = policy, !.pc = q]
  <2>1. /\ cl' = [cl EXCEPT ![c].policy = policy, ![c].pc = q]
        /\ lock' = lock /\ (c \in Callers => Allows(cl[c].grant, policy))
    BY <1>2, Zenon DEF ReadPolicy, Locks, Evaluate, Allows
  <2>2. q \in PCs
    BY Zenon DEF PCs
  <2>3. /\ x \in Locals /\ x.pc = q /\ x.policy = policy /\ x.rec = cl[c].rec
        /\ x.grant = cl[c].grant /\ x.exp = cl[c].exp /\ x.bound = cl[c].bound
        /\ x.real = cl[c].real
    <3> HIDE DEF q
    <3> QED BY <1>a, <2>2, Zenon DEF Locals
  <2>4. cl' = [cl EXCEPT ![c] = x] /\ cl'[c] = x
    BY <1>a, <2>1, Zenon DEF RegistryInv, TypeInv, Locals
  <2> HIDE DEF x
  <2>5. CasInv(c)'
    BY <1>a, <2>1, <2>3, <2>4, Zenon
       DEF ClientInv, CasInv, Holding, Overtaken, Current, Installed, Record, Allows
  <2>6. c \in Authorizers => AuthorizerInv(c)'
    BY <1>a, <2>3, <2>4, ZenonT(40) DEF ClientInv, AuthorizerInv, Holding
  <2>7. c \in Callers => CallerInv(c)'
    BY <1>a, <2>3, <2>4, Zenon DEF ClientInv, CallerInv, Holding
  <2>8. (row.rewound \/ Reach(c) <= row.rev.epoch + Slack)'
    BY <1>a, <2>3, <2>4, Zenon DEF ClientInv, Reach, Slack, Installed
  <2>9. ClientInv(c)'
    BY <1>a, <2>5, <2>6, <2>7, <2>8, Zenon DEF ClientInv
  <2> QED BY <1>a, <1>b, <2>1, <2>3, <2>4, <2>9, Quiet, ZenonT(40)
<1> QED BY <1>1, <1>2, Zenon

(* When the columns are those a change expects, and its record can be told  *)
(* from a later one, the row, the grant and the policy are the ones it read *)
(* (the UPDATE of ReplaceAuthorization).                                    *)
LEMMA SwapIsCurrent ==
  ASSUME RegistryInv, NEW c \in Authorizers, cl[c].pc = "replace", SwapAllowed(cl[c].exp),
         Comparable(c)
  PROVE  Current(c)
<1>1. /\ c \in Clients /\ ClientInv(c) /\ cl[c].rec.inst \in Nat /\ row.inst \in Nat
      /\ row.rev \in Revisions /\ row.col \in Revisions /\ ColumnsCover
  BY Zenon DEF Clients, RegistryInv, TypeInv, RowInv, Locals, Records, Rows
<1>2. cl[c].rec.rev = row.col
  BY <1>1, Zenon DEF ClientInv, AuthorizerInv, Holding, SwapAllowed
<1>3. ~Later(row.rev, cl[c].rec.rev)
  BY <1>1, <1>2 DEF Later, ColumnsCover, Revisions
<1>4. /\ ~(cl[c].rec.rev.epoch < row.rev.epoch)
      /\ ~(cl[c].rec.rev.policy < row.rev.policy)
  BY <1>1, <1>2 DEF ColumnsCover, Revisions
<1>5. ~Overtaken(c)
  <2>1. CASE cl[c].rec.inst = row.inst
    BY <1>1, <1>3, <2>1 DEF Overtaken
  <2>2. CASE ~row.rewound
    BY <1>4, <2>2, Zenon DEF Overtaken
  <2> QED BY <2>1, <2>2, Zenon DEF Comparable
<1> QED BY <1>1, <1>5, Zenon DEF ClientInv, CasInv, Holding

(* A change of the authorization raises the policy revision, keeps the      *)
(* management revision and does not lower the epoch (PreparePermissionGrant and*)
(* its siblings).                                                           *)
LEMMA NextRevisionGrows ==
  ASSUME NEW op, NEW r \in Revisions
  PROVE  /\ NextRevision(op, r) \in Revisions
         /\ NextRevision(op, r).policy = r.policy + 1
         /\ NextRevision(op, r).management = r.management
         /\ NextRevision(op, r).epoch \in {r.epoch, r.epoch + 1}
<1>1. CASE op = "grant"
  BY <1>1 DEF NextRevision, Revisions
<1>2. CASE op # "grant"
  <2> DEFINE n == [r EXCEPT !.policy = @ + 1, !.epoch = @ + 1]
  <2>1. NextRevision(op, r) = n
    BY <1>2, Zenon DEF NextRevision
  <2>2. n.policy = r.policy + 1 /\ n.management = r.management /\ n.epoch = r.epoch + 1
    BY Zenon DEF Revisions
  <2>3. n \in Revisions
    <3> DEFINE q == [r EXCEPT !.policy = @ + 1]
    <3>1. q \in Revisions /\ n = [q EXCEPT !.epoch = @ + 1]
      BY DEF Revisions
    <3> HIDE DEF q, n
    <3>2. [q EXCEPT !.epoch = @ + 1] \in Revisions
      BY <3>1 DEF Revisions
    <3> QED BY <3>1, <3>2, Zenon
  <2> HIDE DEF n
  <2> QED BY <2>1, <2>2, <2>3, Zenon
<1> QED BY <1>1, <1>2, Zenon

(* The row after ReplaceAuthorization: the policy revision and perhaps the  *)
(* epoch have risen, and a lifecycle operation finds what it left.          *)
LEMMA Replaced ==
  ASSUME RegistryInv, NEW c \in Authorizers, cl[c].pc = "replace", SwapAllowed(cl[c].exp),
         NEW rev, rev = NextRevision(cl[c].op, cl[c].rec.rev),
         row' = [row EXCEPT !.enabled = cl[c].rec.enabled, !.pkg = cl[c].rec.pkg,
                            !.rev = rev, !.col = rev]
  PROVE  /\ row' \in Rows /\ rev \in Revisions /\ row'.rev = rev
         /\ Advances /\ KeepsLifecycle /\ ColumnsCover' /\ NoAuthorityAfterUninstall'
<1>1. /\ c \in Clients /\ ClientInv(c) /\ cl[c].rec \in Records /\ cl[c].rec.inst \in Nat
      /\ cl[c].rec.rev \in Revisions /\ cl[c].rec.enabled \in BOOLEAN
      /\ cl[c].rec.pkg \in Packages \union {NoOne}
      /\ row \in Rows /\ row.inst \in Nat /\ row.rev \in Revisions /\ row.col \in Revisions
      /\ RowInv /\ ColumnsCover
  BY Zenon DEF Clients, RegistryInv, TypeInv, RowInv, Locals, Records, Rows
<1>2. cl[c].rec.rev = row.col /\ row.there /\ cl[c].rec.inst >= 1
  BY <1>1, Zenon DEF ClientInv, AuthorizerInv, CasInv, Holding, SwapAllowed
<1>3. /\ rev \in Revisions /\ rev.policy = row.col.policy + 1
      /\ rev.management = row.col.management
      /\ rev.epoch \in {row.col.epoch, row.col.epoch + 1}
  <2> DEFINE n == NextRevision(cl[c].op, row.col)
  <2>1. row.col \in Revisions
    BY <1>1, Zenon
  <2>2. /\ n \in Revisions /\ n.policy = row.col.policy + 1
        /\ n.management = row.col.management /\ n.epoch \in {row.col.epoch, row.col.epoch + 1}
    BY <2>1, NextRevisionGrows
  <2>3. rev = n
    BY <1>2, Zenon
  <2> HIDE DEF n
  <2> QED BY <2>2, <2>3, Zenon
<1>4. /\ row' \in Rows /\ row'.rev = rev /\ row'.col = rev /\ row'.there = row.there
      /\ row'.deleted = row.deleted /\ row'.inst = row.inst /\ row'.rewound = row.rewound
      /\ row'.pkg = cl[c].rec.pkg
  BY <1>1, <1>3, ZenonT(40) DEF Rows
<1>5. Later(row'.rev, row.rev)
  BY <1>1, <1>3, <1>4 DEF Later, ColumnsCover, Revisions
<1>6. KeepsLifecycle
  BY <1>1, <1>3, <1>4 DEF KeepsLifecycle, ColumnsCover, Revisions
<1>7. ColumnsCover'
  BY <1>3, <1>4 DEF ColumnsCover, Revisions
<1>8. ASSUME Comparable(c) PROVE Installed /\ cl[c].rec.pkg = row.pkg
  <2>1. Current(c)
    BY <1>8, SwapIsCurrent, Zenon
  <2> QED BY <2>1 DEF Current, Record
<1>9. Advances
  <2>1. row'.there /\ row'.inst >= 1
    BY <1>1, <1>2, <1>4, Zenon DEF RowInv
  <2>2. CASE row.rewound
    BY <1>4, <1>5, <2>1, <2>2, Zenon DEF Advances
  <2>3. CASE ~row.rewound
    <3>1. Installed /\ row'.pkg = row.pkg
      BY <1>4, <1>8, <2>3, Zenon DEF Comparable
    <3>2. Installed' /\ Slack' = Slack /\ Slack \in Nat
      BY <1>4, <3>1, Zenon DEF Installed, Slack
    <3>3. /\ row.rev.policy < row'.rev.policy
          /\ row'.rev.epoch \in {row.rev.epoch, row.rev.epoch + 1} /\ row.rev.epoch \in Nat
      BY <1>1, <1>3, <1>4 DEF ColumnsCover, Revisions
    <3>4. /\ row.rev.epoch + Slack <= row'.rev.epoch + Slack'
          /\ row.rev.epoch < row'.rev.epoch \/ row.rev.epoch = row'.rev.epoch
      BY <3>2, <3>3
    <3> QED BY <1>4, <1>5, <2>1, <3>1, <3>2, <3>3, <3>4, Zenon DEF Advances
  <2> QED BY <2>2, <2>3, Zenon
<1>10. NoAuthorityAfterUninstall'
  <2>1. SUFFICES ASSUME row.deleted, row.inst = 1 \/ ~row.rewound PROVE FALSE
    BY <1>4, Zenon DEF NoAuthorityAfterUninstall
  <2>2. ~Comparable(c)
    BY <1>8, <2>1, Zenon DEF Installed
  <2>3. cl[c].rec.inst # row.inst /\ row.rewound /\ row.inst = 1
    BY <2>1, <2>2, Zenon DEF Comparable
  <2>4. cl[c].rec.inst <= row.inst
    BY <1>1, <2>3 DEF ClientInv, CasInv, Holding, Overtaken, Current, Record
  <2> QED BY <1>1, <1>2, <2>3, <2>4
<1> QED BY <1>3, <1>4, <1>6, <1>7, <1>9, <1>10, Zenon

(* RegistryView.ReplaceAuthorization keeps the invariant.                   *)
LEMMA ReplaceAuthorizationKeeps ==
  ASSUME RolesApart, RegistryInv, NEW c \in Authorizers, ReplaceAuthorization(c)
  PROVE  RegistryInv'
<1> DEFINE rev == NextRevision(cl[c].op, cl[c].rec.rev)
           g == NextGrant(cl[c].op, cl[c].grant)
           p == NextPolicy(cl[c].op, cl[c].policy)
           x == [cl[c] EXCEPT !.rec.rev = rev, !.pc = "refresh"]
           b(d) == cl[d].real \/ (d \in Callers /\ cl[d].pc # "idle" /\ Allows(g, p))
           y(d) == [cl[d] EXCEPT !.real = b(d)]
<1>a. /\ c \in Clients /\ c \notin Managers /\ c \notin Callers /\ cl[c] \in Locals
      /\ cl[c].pc = "replace" /\ floor' = floor
  BY Zenon DEF Clients, RolesApart, RegistryInv, TypeInv, ReplaceAuthorization, At, Derived
<1>1. CASE ~SwapAllowed(cl[c].exp)
  <2>1. UNCHANGED <<row, grant, policy>> /\ Return(c)
    BY <1>1, Zenon DEF ReplaceAuthorization, Durable
  <2>2. floor' \in Nat /\ FloorInv'
    BY <1>a, <2>1, Floor, Zenon
  <2> QED BY <1>a, <2>1, <2>2, Returned, Zenon
<1>2. CASE SwapAllowed(cl[c].exp)
  <2>1. PICK mine \in {x, Idle} :
           /\ row' = [row EXCEPT !.enabled = cl[c].rec.enabled, !.pkg = cl[c].rec.pkg,
                                 !.rev = rev, !.col = rev]
           /\ grant' = g /\ policy' = p /\ lock' = lock
           /\ cl' = [d \in Clients |-> IF d = c THEN mine ELSE y(d)]
    BY <1>2, ZenonT(40) DEF ReplaceAuthorization, Locks
  <2>2. g \in Grants /\ p \in Policies
    BY <1>a, Zenon DEF NextGrant, NextPolicy, Grants, Policies, Locals
  <2>3. /\ row' \in Rows /\ rev \in Revisions /\ row'.rev = rev
        /\ Advances /\ KeepsLifecycle /\ ColumnsCover' /\ NoAuthorityAfterUninstall'
    BY <1>a, <1>2, <2>1, Replaced, Zenon
  <2> HIDE DEF rev, g, p
  <2>4. x \in Locals /\ x.pc = "refresh" /\ x.rec.rev = rev
    BY <1>a, <2>3, ZenonT(40) DEF Locals, Records, PCs
  <2>5. ASSUME NEW d \in Clients
        PROVE  /\ y(d) \in Locals /\ y(d).real = b(d) /\ y(d).pc = cl[d].pc
               /\ y(d).rec = cl[d].rec /\ y(d).bound = cl[d].bound /\ y(d).exp = cl[d].exp
               /\ y(d).op = cl[d].op
    <3>1. cl[d] \in Locals /\ b(d) \in BOOLEAN
      BY Zenon DEF RegistryInv, TypeInv, Locals
    <3> HIDE DEF b
    <3> QED BY <3>1, Zenon DEF Locals
  <2> HIDE DEF x, y, b
  <2>6. cl' \in [Clients -> Locals] /\ cl'[c] = mine
    BY <1>a, <2>1, <2>4, <2>5, IdleLocals, Zenon
  <2>7. ClientInv(c)'
    <3>1. CASE mine = Idle
      BY <1>a, <2>3, <2>6, <3>1, IdleInv, Zenon
    <3>2. CASE mine = x
      <4>1. cl'[c].pc = "refresh" /\ cl'[c].rec.rev = row'.rev
        BY <2>3, <2>4, <2>6, <3>2, Zenon
      <4>2. row'.rev.epoch \in Nat /\ Slack' \in Nat
        BY <2>3, Zenon DEF Slack, Revisions
      <4>3. (Reach(c) <= row.rev.epoch + Slack)'
        BY <4>1, <4>2 DEF Reach
      <4> QED BY <1>a, <4>1, <4>3, Zenon DEF ClientInv, CasInv, AuthorizerInv, Holding
    <3> QED BY <2>1, <3>1, <3>2, Zenon
  <2>8. ASSUME NEW d \in Clients \ {c} PROVE OtherKept(d)
    <3>1. cl'[d] = y(d)
      BY <2>1, Zenon
    <3>2. /\ cl'[d].pc = cl[d].pc /\ cl'[d].rec = cl[d].rec /\ cl'[d].bound = cl[d].bound
          /\ cl'[d].exp = cl[d].exp /\ cl'[d].op = cl[d].op /\ cl'[d].real = b(d)
      BY <2>5, <3>1, ZenonT(40)
    <3>3. Holding(d) => cl[d].pc # "idle"
      BY Zenon DEF Holding
    <3> QED BY <2>1, <3>2, <3>3, Zenon DEF OtherKept, b
  <2> QED BY <1>a, <2>1, <2>2, <2>3, <2>6, <2>7, <2>8, Committed, Zenon
<1> QED BY <1>1, <1>2, Zenon

(* Every step of a permission or policy change keeps the invariant.         *)
LEMMA AuthorizerStepKeeps ==
  ASSUME RolesApart, RegistryInv, NEW c \in Authorizers, AuthorizerStep(c)
  PROVE  RegistryInv'
<1>a. c \in Clients \ (Managers \union Callers)
  BY Zenon DEF Clients, RolesApart
<1>b. ASSUME UNCHANGED <<row, floor>> PROVE floor' \in Nat /\ FloorInv'
  BY <1>b, Floor, Zenon
<1>1. ASSUME NEW op \in AuthorizerOps, Request(c, op, NoOne) PROVE RegistryInv'
  BY <1>1, <1>a, Requested, Zenon
<1>2. CASE ReadRecord(c)
  BY <1>2, <1>a, ReadRecordKeeps, Zenon
<1>3. CASE ReadGrants(c)
  BY <1>3, ReadGrantsKeeps, Zenon
<1>4. CASE ReadPolicy(c)
  BY <1>4, ReadPolicyKeeps, Zenon
<1>5. CASE ReplaceAuthorization(c)
  BY <1>5, ReplaceAuthorizationKeeps, Zenon
<1>6. CASE RefreshConnectivity(c)
  <2>1. UNCHANGED <<row, grant, policy, floor>> /\ cl[c].pc = "refresh"
    BY <1>6, Zenon DEF RefreshConnectivity, Durable, At
  <2>2. CASE Return(c)
    BY <1>a, <1>b, <2>1, <2>2, Returned, Zenon
  <2>3. CASE Move(c, "revoke") /\ lock' = lock
    BY <1>a, <1>b, <2>1, <2>3, Moved
  <2> QED BY <1>6, <2>2, <2>3, Zenon DEF RefreshConnectivity, Locks
<1>7. CASE RevokeCapabilities(c)
  BY <1>7, <1>a, RevokeCapabilitiesKeeps, Zenon
<1> QED BY <1>1, <1>2, <1>3, <1>4, <1>5, <1>6, <1>7, ZenonT(40) DEF AuthorizerStep

(* Every step of a method call keeps the invariant.                         *)
LEMMA CallerStepKeeps ==
  ASSUME RolesApart, RegistryInv, NEW c \in Callers, CallerStep(c)
  PROVE  RegistryInv'
<1>a. c \in Clients \ (Managers \union Authorizers)
  BY Zenon DEF Clients, RolesApart
<1>b. ASSUME UNCHANGED <<row, floor>> PROVE floor' \in Nat /\ FloorInv'
  BY <1>b, Floor, Zenon
<1>1. CASE Request(c, "call", NoOne)
  BY <1>1, <1>a, Requested
<1>2. CASE ReadRecord(c)
  BY <1>2, <1>a, ReadRecordKeeps, Zenon
<1>3. CASE ReadGrants(c)
  BY <1>3, ReadGrantsKeeps, Zenon
<1>4. CASE ReadPolicy(c)
  BY <1>4, ReadPolicyKeeps, Zenon
<1>5. CASE BindPrepared(c)
  <2>1. UNCHANGED <<row, grant, policy, floor>> /\ cl[c].pc = "prepared"
    BY <1>5, Zenon DEF BindPrepared, Durable, Derived, At
  <2>2. CASE Return(c)
    BY <1>a, <1>b, <2>1, <2>2, Returned, ZenonT(40)
  <2>3. CASE Move(c, "bind") /\ lock' = lock
    BY <1>a, <1>b, <2>1, <2>3, Moved, ZenonT(40)
  <2>4. CASE Bound(c) /\ lock' = lock
    BY <1>a, <2>1, <2>4, BoundKept, Zenon
  <2>5. CASE Deny(c) /\ lock' = lock /\ Installed /\ ~Runnable(row.pkg)
    BY <1>a, <2>1, <2>5, DenyKeeps, Zenon
  <2> QED BY <1>5, <2>2, <2>3, <2>4, <2>5, Zenon DEF BindPrepared, Locks
<1>6. CASE BindStart(c)
  BY <1>6, <1>a, BindStartKeeps, Zenon
<1>7. CASE BindReady(c)
  BY <1>7, <1>a, BindReadyKeeps, Zenon
<1>8. CASE Dispatch(c)
  BY <1>8, <1>a, <1>b, Returned, Zenon DEF Dispatch, Durable, Derived
<1>9. CASE DeniedStep(c)
  BY <1>9, <1>a, BumpRevokeEpochKeeps, UnpublishKeeps, RemovePolicyKeeps,
     RevokeCapabilitiesKeeps, Zenon DEF DeniedStep
<1> QED BY <1>1, <1>2, <1>3, <1>4, <1>5, <1>6, <1>7, <1>8, <1>9, ZenonT(40) DEF CallerStep

(* Every step of RecoverEnabled keeps the invariant.                        *)
LEMMA RecovererStepKeeps ==
  ASSUME RolesApart, RegistryInv, NEW c \in Recoverers, RecovererStep(c)
  PROVE  RegistryInv'
<1>a. c \in Clients \ (Managers \union Authorizers)
  BY Zenon DEF Clients, RolesApart
<1>1. CASE Request(c, "recover", NoOne)
  BY <1>1, <1>a, Requested, ZenonT(40)
<1>2. CASE ReadRecord(c)
  BY <1>2, <1>a, ReadRecordKeeps, Zenon
<1>3. CASE BindStart(c)
  BY <1>3, <1>a, BindStartKeeps, Zenon
<1>4. CASE BindReady(c)
  BY <1>4, <1>a, BindReadyKeeps, Zenon
<1>5. CASE Activate(c)
  BY <1>5, <1>a, ActivateKeeps, Zenon
<1>6. CASE DeniedStep(c)
  BY <1>6, <1>a, BumpRevokeEpochKeeps, UnpublishKeeps, RemovePolicyKeeps,
     RevokeCapabilitiesKeeps, Zenon DEF DeniedStep
<1> QED BY <1>1, <1>2, <1>3, <1>4, <1>5, <1>6, ZenonT(40) DEF RecovererStep

(* The invariant holds of an empty registry, and of a record that an earlier*)
(* version left.                                                            *)
LEMMA RegistryInit ==
  ASSUME Init
  PROVE  RegistryInv
<1>1. /\ grant = "none" /\ policy = "none" /\ floor = 0 /\ cl = [c \in Clients |-> Idle]
      /\ \/ row = NoRow
         \/ \E pkg \in Packages, on \in BOOLEAN : row = OldRow(pkg, on)
  BY Zenon DEF Init
<1>2. ASSUME NEW n \in Nat
      PROVE  /\ Revision(n, n, n) \in Revisions /\ Revision(n, n, n).epoch = n
             /\ Revision(n, n, n).policy = n /\ Revision(n, n, n).management = n
  BY DEF Revision, Revisions
<1>3. /\ row \in Rows /\ row.col = row.rev /\ row.rev \in Revisions /\ ~row.deleted
      /\ row.there => row.inst >= 1
      /\ ~row.there => row.rev.epoch = 0 /\ row.inst = 0
  <2>1. CASE row = NoRow
    BY <1>2, <2>1, SMTT(30) DEF NoRow, Rows, ZeroRevision
  <2>2. ASSUME NEW pkg \in Packages, NEW on \in BOOLEAN, row = OldRow(pkg, on)
        PROVE  row \in Rows /\ row.col = row.rev /\ row.rev \in Revisions /\ ~row.deleted
               /\ row.inst = 1 /\ row.there
    BY <1>2, <2>2, SMTT(30) DEF OldRow, Rows
  <2> QED BY <1>1, <2>1, <2>2
<1>4. TypeInv
  BY <1>1, <1>3, IdleLocals, Zenon DEF TypeInv, Grants, Policies
<1>5. Slack \in Nat /\ row.rev.epoch \in Nat /\ row.rev.policy \in Nat
  BY <1>3, Zenon DEF Slack, Revisions
<1>6. FloorInv
  BY <1>1, <1>5 DEF FloorInv
<1>7. RowInv
  BY <1>3, <1>5, <1>6 DEF RowInv, ColumnsCover, NoAuthorityAfterUninstall
<1>8. ASSUME NEW c \in Clients PROVE ClientInv(c)
  <2>1. cl[c].pc = "idle" /\ cl[c].rec.rev.epoch = 0 /\ ~cl[c].bound
    BY <1>1 DEF Idle, NoRecord, ZeroRevision, Revision
  <2>2. Reach(c) <= row.rev.epoch + Slack
    BY <1>5, <2>1 DEF Reach
  <2> QED BY <2>1, <2>2, Zenon DEF ClientInv, ManagerInv, CasInv, AuthorizerInv, CallerInv, Holding
<1> QED BY <1>4, <1>7, <1>8, Zenon DEF RegistryInv

(* Every step keeps the invariant.                                          *)
LEMMA RegistryNext ==
  ASSUME RolesApart, RegistryInv, [Next]_vars
  PROVE  RegistryInv'
<1>1. CASE UNCHANGED vars
  <2>1. TypeInv'
    BY <1>1, Zenon DEF vars, RegistryInv, TypeInv
  <2>2. RowInv'
    BY <1>1, Zenon DEF vars, RegistryInv, RowInv, ColumnsCover, NoAuthorityAfterUninstall, FloorInv,
       Slack, Installed
  <2>3. ASSUME NEW c \in Clients PROVE ClientInv(c)'
    <3>1. ClientInv(c)
      BY Zenon DEF RegistryInv
    <3>2. UNCHANGED <<row, grant, policy, lock, cl>>
      BY <1>1, Zenon DEF vars
    <3>3. (c \in Managers => ManagerInv(c)') /\ (c \in Callers => CallerInv(c)')
      BY <3>1, <3>2, Zenon DEF ClientInv, ManagerInv, SetInv, CallerInv, Holding, Installed
    <3>4. c \in Authorizers \union Callers => CasInv(c)'
      BY <3>1, <3>2, Zenon DEF ClientInv, CasInv, Holding, Overtaken, Current, Installed, Record
    <3>5. /\ c \in Authorizers => AuthorizerInv(c)'
          /\ (row.rewound \/ Reach(c) <= row.rev.epoch + Slack)'
      BY <3>1, <3>2, Zenon DEF ClientInv, AuthorizerInv, Holding, Reach, Slack, Installed
    <3> QED BY <3>3, <3>4, <3>5, Zenon DEF ClientInv
  <2> QED BY <2>1, <2>2, <2>3, Zenon DEF RegistryInv
<1> QED BY <1>1, ManagerStepKeeps, AuthorizerStepKeeps, CallerStepKeeps,
           RecovererStepKeeps DEF Next

(* RegistryInv is an invariant of the registry, for any number of goroutines of*)
(* each kind, packages, operations and failures.                            *)
THEOREM RegistryInvariant == RolesApart /\ Spec => []RegistryInv
<1> SUFFICES ASSUME RolesApart PROVE Spec => []RegistryInv
  BY Zenon
<1> QED BY RegistryInit, RegistryNext, PTL DEF Spec

(* An uninstalled plugin has no grant and no policy left, whatever permission*)
(* or policy change was under way (CommitUninstall against ReplaceAuthorization).*)
THEOREM UninstalledHasNone == RolesApart /\ Spec => []NoAuthorityAfterUninstall
<1>1. RegistryInv => NoAuthorityAfterUninstall
  BY Zenon DEF RegistryInv, RowInv
<1> QED BY <1>1, RegistryInvariant, PTL

(* A call that is let through was allowed by a grant and a policy that stood*)
(* together at some instant of the call (GetAuthorization reads them in     *)
(* separate queries, evaluateAuthorization decides).                        *)
THEOREM CallsDecidedOnOneInstant == RolesApart /\ Spec => []DecisionStood
<1>1. RegistryInv => DecisionStood
  BY Zenon DEF RegistryInv, ClientInv, CallerInv, DecisionStood, Clients, At
<1> QED BY <1>1, RegistryInvariant, PTL

(* The columns the compare-and-swap tests are never behind the revisions a  *)
(* reader decodes, and the floor of the token service never passes the epoch*)
(* of a record that may run (PutPlugin, ReplaceAuthorization,               *)
(* BumpRevokeEpoch, revokePluginRuntimeCapabilities).                       *)
THEOREM FloorStaysReachable == RolesApart /\ Spec => [](ColumnsCover /\ FloorReachable)
<1>1. RegistryInv => ColumnsCover /\ FloorReachable
  BY Zenon DEF RegistryInv, RowInv, FloorInv, Slack, FloorReachable
<1> QED BY <1>1, RegistryInvariant, PTL

(* A change commits only by a swap that was allowed (ReplaceAuthorization). *)
LEMMA OnlyReplaceCommits ==
  ASSUME RolesApart, RegistryInv, [Next]_vars, NEW a \in Authorizers, Commits(a)
  PROVE  ReplaceAuthorization(a) /\ SwapAllowed(cl[a].exp)
<1>a. /\ a \in Clients /\ a \notin Managers /\ a \notin Callers /\ a \notin Recoverers
      /\ cl \in [Clients -> Locals] /\ cl[a].pc = "replace" /\ cl'[a].pc # "replace"
      /\ row' # row
  BY Zenon DEF Clients, RolesApart, RegistryInv, TypeInv, Commits, At
<1> USE DEF Move, Return, Bound, BindFailed, Applied, Deny
<1>1. ASSUME NEW c \in Managers PROVE ~ManagerStep(c)
  <2> SUFFICES ASSUME ManagerStep(c), cl'[a] # cl[a] PROVE FALSE
    BY <1>a, Zenon
  <2>1. c # a
    BY <1>a, Zenon
  <2>2. ASSUME NEW op, NEW p, Request(c, op, p) PROVE FALSE
    BY <1>a, <2>1, <2>2, Zenon DEF Request
  <2>3. CASE AcquireWrite(c)
    BY <1>a, <2>1, <2>3, Zenon DEF AcquireWrite
  <2>4. CASE Abort(c) \/ SetEnableRead(c) \/ SetEnableWrite(c) \/ InstallCommit(c)
    BY <1>a, <2>1, <2>4, ZenonT(40) DEF Abort, SetEnableRead, SetEnableWrite, InstallCommit
  <2>5. CASE CommitUninstall(c) \/ PrepareUpdate(c) \/ PutPlugin(c) \/ RollbackPut(c)
    BY <1>a, <2>1, <2>5, ZenonT(40) DEF CommitUninstall, PrepareUpdate, PutPlugin, RollbackPut
  <2>6. CASE RollbackPublish(c) \/ BindStart(c) \/ BindReady(c) \/ Activate(c)
    BY <1>a, <2>1, <2>6, ZenonT(40) DEF RollbackPublish, BindStart, BindReady, Activate
  <2>7. CASE Publish(c) \/ Unpublish(c) \/ RevokeCapabilities(c) \/ RemovePolicy(c)
    BY <1>a, <2>1, <2>7, ZenonT(40) DEF Publish, Unpublish, RevokeCapabilities, RemovePolicy
  <2>8. CASE BumpRevokeEpoch(c)
    BY <1>a, <2>1, <2>8, ZenonT(40) DEF BumpRevokeEpoch
  <2> QED BY <2>2, <2>3, <2>4, <2>5, <2>6, <2>7, <2>8, Zenon DEF ManagerStep
<1>2. ASSUME NEW c \in Authorizers, c # a PROVE ~AuthorizerStep(c)
  <2> SUFFICES ASSUME AuthorizerStep(c), cl'[a].pc # cl[a].pc PROVE FALSE
    BY <1>a, Zenon
  <2>1. ASSUME NEW op, NEW p, Request(c, op, p) PROVE FALSE
    BY <1>a, <1>2, <2>1, ZenonT(40) DEF Request
  <2>2. CASE ReadRecord(c) \/ ReadGrants(c) \/ ReadPolicy(c)
    BY <1>a, <1>2, <2>2, Zenon DEF ReadRecord, ReadGrants, ReadPolicy
  <2>3. CASE ReplaceAuthorization(c)
    BY <1>a, <1>2, <2>3 DEF ReplaceAuthorization, Locals
  <2>4. CASE RefreshConnectivity(c) \/ RevokeCapabilities(c)
    BY <1>a, <1>2, <2>4, Zenon DEF RefreshConnectivity, RevokeCapabilities
  <2> QED BY <2>1, <2>2, <2>3, <2>4, ZenonT(40) DEF AuthorizerStep
<1>3. ASSUME NEW c \in Callers PROVE ~CallerStep(c)
  <2> SUFFICES ASSUME CallerStep(c), cl'[a] # cl[a] PROVE FALSE
    BY <1>a, Zenon
  <2>1. c # a
    BY <1>a, Zenon
  <2>2. CASE Request(c, "call", NoOne)
    BY <1>a, <2>1, <2>2 DEF Request
  <2>3. CASE ReadRecord(c) \/ ReadGrants(c) \/ ReadPolicy(c)
    <3>1. CASE ReadRecord(c)
      BY <1>a, <2>1, <3>1, ZenonT(40) DEF ReadRecord
    <3>2. CASE ReadGrants(c) \/ ReadPolicy(c)
      BY <1>a, <2>1, <3>2, Zenon DEF ReadGrants, ReadPolicy
    <3> QED BY <2>3, <3>1, <3>2, Zenon
  <2>4. CASE BindPrepared(c) \/ BindStart(c) \/ BindReady(c) \/ Dispatch(c)
    BY <1>a, <2>1, <2>4, Zenon DEF BindPrepared, BindStart, BindReady, Dispatch
  <2>5. CASE DeniedStep(c)
    BY <1>a, <2>1, <2>5, ZenonT(40)
       DEF DeniedStep, BumpRevokeEpoch, Unpublish, RemovePolicy, RevokeCapabilities
  <2> QED BY <2>2, <2>3, <2>4, <2>5, Zenon DEF CallerStep
<1>4. ASSUME NEW c \in Recoverers PROVE ~RecovererStep(c)
  <2> SUFFICES ASSUME RecovererStep(c), cl'[a] # cl[a] PROVE FALSE
    BY <1>a, Zenon
  <2>1. c # a
    BY <1>a, Zenon
  <2>2. CASE Request(c, "recover", NoOne)
    BY <1>a, <2>1, <2>2, ZenonT(40) DEF Request
  <2>3. CASE ReadRecord(c) \/ BindStart(c) \/ BindReady(c) \/ Activate(c)
    BY <1>a, <2>1, <2>3, ZenonT(40) DEF ReadRecord, BindStart, BindReady, Activate
  <2>4. CASE DeniedStep(c)
    BY <1>a, <2>1, <2>4, ZenonT(40)
       DEF DeniedStep, BumpRevokeEpoch, Unpublish, RemovePolicy, RevokeCapabilities
  <2> QED BY <2>2, <2>3, <2>4, Zenon DEF RecovererStep
<1>5. AuthorizerStep(a)
  BY <1>a, <1>1, <1>2, <1>3, <1>4, ZenonT(40) DEF Next, vars
<1>6. ReplaceAuthorization(a)
  BY <1>a, <1>5, Zenon DEF AuthorizerStep, Request, ReadRecord, ReadGrants, ReadPolicy,
     RefreshConnectivity, RevokeCapabilities, At
<1>7. SwapAllowed(cl[a].exp)
  BY <1>6, <1>a, Zenon DEF ReplaceAuthorization, Durable
<1> QED BY <1>6, <1>7, Zenon

(* A permission or policy change that commits was prepared from the grant and*)
(* the policy that stand, and undoes no enable, disable, update or uninstall*)
(* that committed since it read the record (ReplaceAuthorization).          *)
THEOREM ChangesBuildOnEachOther == RolesApart /\ Spec => NoLostAuthorization
<1> SUFFICES ASSUME RolesApart PROVE Spec => NoLostAuthorization
  BY Zenon
<1>1. ASSUME RegistryInv, [Next]_vars, NEW a \in Authorizers, Commits(a), Comparable(a)
      PROVE  /\ cl[a].grant = grant /\ cl[a].policy = policy /\ ~row.deleted
             /\ row'.enabled = row.enabled /\ row'.pkg = row.pkg
             /\ row'.rev.management = row.rev.management
  <2>1. cl[a].pc = "replace" /\ row \in Rows /\ row.rev \in Revisions
    BY <1>1, Zenon DEF Commits, At, RegistryInv, TypeInv, Rows
  <2>2. ReplaceAuthorization(a) /\ SwapAllowed(cl[a].exp)
    BY <1>1, <2>1, OnlyReplaceCommits, Zenon
  <2>3. Current(a)
    BY <1>1, <2>1, <2>2, SwapIsCurrent, Zenon
  <2>4. row' = [row EXCEPT !.enabled = cl[a].rec.enabled, !.pkg = cl[a].rec.pkg,
                           !.rev = NextRevision(cl[a].op, cl[a].rec.rev),
                           !.col = NextRevision(cl[a].op, cl[a].rec.rev)]
    BY <2>2, Zenon DEF ReplaceAuthorization
  <2>5. /\ cl[a].rec.enabled = row.enabled /\ cl[a].rec.pkg = row.pkg
        /\ cl[a].rec.rev = row.rev /\ ~row.deleted
        /\ cl[a].grant = grant /\ cl[a].policy = policy
    BY <2>1, <2>3, SMTT(30) DEF Current, Record, Installed
  <2>6. NextRevision(cl[a].op, row.rev).management = row.rev.management
    BY <2>1, NextRevisionGrows, Zenon
  <2>7. /\ row'.enabled = cl[a].rec.enabled /\ row'.pkg = cl[a].rec.pkg
        /\ row'.rev = NextRevision(cl[a].op, cl[a].rec.rev)
    BY <2>1, <2>4, Zenon DEF Rows
  <2> QED BY <2>5, <2>6, <2>7, Zenon
<1>2. RegistryInv /\ [Next]_vars => [BuildsOnCurrent /\ AuthorizationKeepsLifecycle]_vars
  BY <1>1, Zenon DEF BuildsOnCurrent, AuthorizationKeepsLifecycle
<1> QED BY <1>2, RegistryInvariant, PTL DEF Spec, NoLostAuthorization
=============================================================================
