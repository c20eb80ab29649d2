----------------------------- MODULE PluginData -----------------------------
(***************************************************************************)
(* The plugin data store: immutable dataset generations on disk            *)
(* (pkg/plugindata/store.go, upgrade.go, retained_recovery.go), the        *)
(* catalog rows that name them (internal/controlstore/plugin_data_*.go and *)
(* retained_recovery.go) and the Host operations that drive both           *)
(* (pkg/host/host.go, plugin_data_upgrade.go, retained_recovery.go).       *)
(*                                                                         *)
(* A generation is a directory published by a rename; a binding row names  *)
(* the generation of an installed or retained instance; a history row      *)
(* keeps the generation a package version last used; an export object is   *)
(* a directory and a row of its own.  Directory and row change in          *)
(* different steps, so the process may die between any two of them.        *)
(*                                                                         *)
(* An operation holds the store lock of its instances from Begin to its    *)
(* end, and the lifecycle lock as well when it is a management operation.  *)
(* Everything it decides on is read again under the store lock, so the two *)
(* acquisitions are one step here.  Dataset contents, quotas and the       *)
(* per-user scopes inside a generation are left out.                       *)
(***************************************************************************)
EXTENDS Integers, FiniteSets

CONSTANTS
    Plugins,      \* plugin instance identifiers
    LastPackage,  \* packages are 1..LastPackage in version order
    Shape,        \* package -> hash of the data shape its manifest declares
    Converters,   \* <<from, to>>: "to" declares a data upgrade from "from"
    Threads,      \* goroutines running store operations
    Readers,      \* goroutines inside a namespace access
    Objects,      \* export objects that may be created
    Ops,          \* the operations this instance exercises
    MaxGens,      \* bound: generations created
    MaxOps,       \* bound: operations begun
    MaxFaults,    \* bound: failing steps
    MaxCrashes,   \* bound: process crashes
    NoOne

VARIABLES
    disk,        \* generation -> "none" | "renamed" | "durable"
    shapeOf,     \* generation -> shape in its dataset manifest
    made,        \* generations created so far
    rec,         \* plugin_records row: live, enabled, package, revision, versions
    binding,     \* plugin_data_bindings row
    history,     \* plugin_data_history rows: the generations kept per instance
    objDisk,     \* object -> "none" | "renamed" | "durable"
    objRow,      \* object -> the instance its catalog row names, or NoOne
    objShape,    \* object -> shape of the exported dataset
    hostLock, storeLock, objLock, publication,
    access,      \* reader -> the generation it works in, 0 when outside
    reads,       \* reader -> the instance it reads
    th,          \* thread -> its operation and program counter
    plan,        \* the retained recovery plan handed to the caller
    applied,     \* ghost: times the plan was applied
    visited,     \* ghost: generation each package last worked on
    unlabelled,  \* ghost: generations and objects that an install, an import or an
                 \* export committed and then took for not committed
    up,          \* "open" | "down" | "corrupt"
    ops, faults, crashes

catalog == <<rec, binding, history, objRow>>
ghosts  == <<applied, visited, unlabelled>>
vars == <<disk, shapeOf, made, rec, binding, history, objDisk, objRow, objShape,
          hostLock, storeLock, objLock, publication, access, reads, th, plan,
          ghosts, up, ops, faults, crashes>>

Packages == 1..LastPackage
Gens     == 1..MaxGens
NoBinding == [gen |-> 0, state |-> "none", rev |-> 0, expires |-> "never"]
NoPlan    == [src |-> NoOne, tgt |-> NoOne, sb |-> NoBinding, tb |-> NoBinding, mrev |-> 0]
Idle == [pc |-> "idle", op |-> "none", p |-> NoOne, q |-> NoOne, pkg |-> 0, gen |-> 0,
         old |-> NoBinding, obj |-> NoOne, drop |-> {}, cand |-> {}]

Init ==
    /\ disk = [g \in Gens |-> "none"]
    /\ shapeOf = [g \in Gens |-> NoOne]
    /\ made = 0
    /\ rec = [p \in Plugins |-> [live |-> FALSE, enabled |-> FALSE, pkg |-> 0, mrev |-> 0,
                                 vers |-> [k \in Packages |-> 0]]]
    /\ binding = [p \in Plugins |-> NoBinding]
    /\ history = [p \in Plugins |-> {}]
    /\ objDisk = [o \in Objects |-> "none"]
    /\ objRow = [o \in Objects |-> NoOne]
    /\ objShape = [o \in Objects |-> NoOne]
    /\ hostLock = [p \in Plugins |-> NoOne]
    /\ storeLock = [p \in Plugins |-> NoOne]
    /\ objLock = [o \in Objects |-> NoOne]
    /\ publication = NoOne
    /\ access = [r \in Readers |-> 0]
    /\ reads = [r \in Readers |-> NoOne]
    /\ th = [t \in Threads |-> Idle]
    /\ plan = NoPlan
    /\ applied = 0
    /\ visited = [p \in Plugins |-> [k \in Packages |-> 0]]
    /\ unlabelled = {}
    /\ up = "open"
    /\ ops = 0 /\ faults = 0 /\ crashes = 0

-----------------------------------------------------------------------------
(* Catalog: which generations a row names, and what each transaction does.  *)

Bound(p) == IF binding[p].state = "none" THEN {} ELSE {binding[p].gen}
Named(p) == Bound(p) \cup history[p]
Referenced == UNION {Named(p) : p \in Plugins}

(* SameBinding compares the whole row; a deadline passing does not change it. *)
SameBinding(a, b) == a.gen = b.gen /\ a.state = b.state /\ a.rev = b.rev

(* An explicit replacement follows every version sharing the dataset. *)
rebindSharedVersionData(vers, previous, next) ==
    [k \in Packages |-> IF vers[k] = previous THEN next ELSE vers[k]]

(* versionSwitchHistory drops the entry of the package becoming active and  *)
(* records the package left behind; the transaction then binds that entry   *)
(* to the generation it was using.                                          *)
versionSwitchHistory(vers, current, next, gen) ==
    [k \in Packages |-> IF k = next THEN 0 ELSE IF k = current THEN gen ELSE vers[k]]

Visit(p, pkg, gen) == visited' = [visited EXCEPT ![p][pkg] = gen]

(* workspaceForBinding reads the dataset manifest of a generation. *)
Present(g) == disk[g] # "none"

(* An active row of a live, disabled record: the precondition of Import. *)
Disabled(p) == rec[p].live /\ ~rec[p].enabled

StoreFree(S) ==
    \A p \in S : storeLock[p] = NoOne /\ \A r \in Readers : reads[r] # p
HostFree(S) == \A p \in S : hostLock[p] = NoOne

Take(t, S, host) ==
    /\ storeLock' = [p \in Plugins |-> IF p \in S THEN t ELSE storeLock[p]]
    /\ hostLock' = [p \in Plugins |-> IF p \in S /\ host THEN t ELSE hostLock[p]]

-----------------------------------------------------------------------------
(* Starting an operation: locks, reads, early returns, the staged dataset.  *)

Room(t, op) == up = "open" /\ ops < MaxOps /\ op \in Ops /\ th[t].pc = "idle"

Begin(t, S, host, next) ==
    /\ StoreFree(S)
    /\ host => HostFree(S)
    /\ Take(t, S, host)
    /\ th' = [th EXCEPT ![t] = next]
    /\ ops' = ops + 1
    /\ UNCHANGED <<disk, rec, binding, history, objDisk, objRow, objShape, publication,
                   access, reads, plan, ghosts, up, faults, crashes>>

(* A dataset is staged under a fresh generation identifier. *)
Stage(shape) ==
    /\ made < MaxGens
    /\ made' = made + 1
    /\ shapeOf' = [shapeOf EXCEPT ![made + 1] = shape]

Op(op, p, pc) == [Idle EXCEPT !.op = op, !.p = p, !.pc = pc, !.old = binding[p]]

(* FileStore.InstallCommit: a retained dataset of the same shape is         *)
(* reactivated, an absent one is initialised.                               *)
InstallCommit(t, p, pkg) ==
    /\ Room(t, "install")
    /\ ~rec[p].live
    /\ \/ /\ binding[p].state = "retained"
          /\ Present(binding[p].gen) /\ shapeOf[binding[p].gen] = Shape[pkg]
          /\ UNCHANGED <<made, shapeOf>>
          /\ Begin(t, {p}, TRUE, [Op("reinstall", p, "publish") EXCEPT !.pkg = pkg])
       \/ /\ binding[p].state = "none"
          /\ Stage(Shape[pkg])
          /\ Begin(t, {p}, TRUE, [Op("install", p, "publish") EXCEPT !.pkg = pkg, !.gen = made + 1])
    /\ UNCHANGED objLock

(* commitPluginDataUpgrade and FileStore.Upgrade: the target package        *)
(* declares this predecessor; conversion writes a staged output.            *)
Upgrade(t, p, pkg) ==
    /\ Room(t, "upgrade")
    /\ rec[p].live /\ pkg > rec[p].pkg
    /\ <<rec[p].pkg, pkg>> \in Converters
    /\ Present(binding[p].gen)
    /\ Stage(Shape[pkg])
    /\ Begin(t, {p}, TRUE, [Op("upgrade", p, "publish") EXCEPT !.pkg = pkg, !.gen = made + 1])
    /\ UNCHANGED objLock

(* DowngradePlugin with data and FileStore.RestoreVersion: the version      *)
(* history names another generation, which must still have a history row.   *)
RestoreVersion(t, p, pkg) ==
    /\ Room(t, "downgrade")
    /\ rec[p].live
    /\ rec[p].vers[pkg] # 0
    /\ rec[p].vers[pkg] # binding[p].gen
    /\ rec[p].vers[pkg] \in history[p]
    /\ shapeOf[rec[p].vers[pkg]] = Shape[pkg]
    /\ Present(binding[p].gen) /\ Present(rec[p].vers[pkg])
    /\ UNCHANGED <<made, shapeOf, objLock>>
    /\ Begin(t, {p}, TRUE, [Op("restore", p, "publish") EXCEPT !.pkg = pkg, !.gen = rec[p].vers[pkg]])

(* FileStore.Export: copies the active dataset into a staged object. *)
Export(t, p, o) ==
    /\ Room(t, "export")
    /\ rec[p].live /\ binding[p].state = "active" /\ Present(binding[p].gen)
    /\ objRow[o] = NoOne /\ objShape[o] = NoOne
    /\ \A u \in Threads : th[u].obj # o
    /\ UNCHANGED <<made, shapeOf, objLock>>
    /\ Begin(t, {p}, FALSE, [Op("export", p, "publish") EXCEPT !.obj = o])

(* ImportPluginData and FileStore.Import: a disabled instance, an export    *)
(* object of the shape its package declares, the object lock for reading.   *)
Import(t, p, o) ==
    /\ Room(t, "import")
    /\ rec[p].live /\ binding[p].state = "active" /\ Present(binding[p].gen)
    /\ objLock[o] = NoOne
    /\ objRow[o] = p /\ objDisk[o] # "none"
    /\ objShape[o] = Shape[rec[p].pkg]
    /\ Stage(Shape[rec[p].pkg])
    /\ objLock' = [objLock EXCEPT ![o] = t]
    /\ Begin(t, {p}, TRUE, [Op("import", p, "publish") EXCEPT !.obj = o, !.gen = made + 1])

(* FileStore.DeleteExport takes the object lock only. *)
DeleteExport(t, o) ==
    /\ Room(t, "delete_export")
    /\ objLock[o] = NoOne
    /\ objRow[o] # NoOne
    /\ objLock' = [objLock EXCEPT ![o] = t]
    /\ UNCHANGED <<made, shapeOf>>
    /\ Begin(t, {}, FALSE, [Idle EXCEPT !.op = "delete_export", !.pc = "publish", !.obj = o])

(* UninstallPlugin and FileStore.CommitUninstall. *)
CommitUninstall(t, p, kind) ==
    /\ Room(t, "uninstall")
    /\ rec[p].live
    /\ UNCHANGED <<made, shapeOf, objLock>>
    /\ Begin(t, {p}, TRUE, Op(kind, p, "publish"))

(* DeleteRetainedData and FileStore.DeleteRetained, which re-reads the row. *)
DeleteRetained(t, p) ==
    /\ Room(t, "delete_retained")
    /\ binding[p].state = "retained"
    /\ UNCHANGED <<made, shapeOf, objLock>>
    /\ Begin(t, {p}, TRUE, Op("delete_retained", p, "publish"))

(* FileStore.CleanupExpired lists the expired rows before it locks them. *)
CleanupList(t) ==
    /\ Room(t, "cleanup")
    /\ \E p \in Plugins : binding[p].state = "retained" /\ binding[p].expires = "past"
    /\ UNCHANGED <<made, shapeOf, objLock>>
    /\ Begin(t, {}, FALSE,
             [Idle EXCEPT !.op = "cleanup", !.pc = "lock",
                          !.cand = {<<p, binding[p]>> : p \in {x \in Plugins :
                              binding[x].state = "retained" /\ binding[x].expires = "past"}}])

Candidates(t) == {c[1] : c \in th[t].cand}

CleanupLock(t) ==
    /\ up = "open" /\ th[t].pc = "lock"
    /\ StoreFree(Candidates(t))
    /\ Take(t, Candidates(t), FALSE)
    /\ th' = [th EXCEPT ![t].pc = "publish"]
    /\ UNCHANGED <<disk, shapeOf, made, catalog, objDisk, objShape, objLock, publication,
                   access, reads, plan, ghosts, up, ops, faults, crashes>>

PlanStandsLoosely ==
    /\ plan # NoPlan
    /\ binding[plan.src].state = "retained" /\ binding[plan.src].expires # "past"
    /\ binding[plan.tgt].state = "active"
    /\ ~rec[plan.src].live
    /\ Disabled(plan.tgt)

(* CommitRetainedRecovery of the plan the caller was handed; the Host and   *)
(* the store check the whole plan again under both instances' locks.        *)
PlanStands ==
    /\ plan # NoPlan
    /\ SameBinding(binding[plan.src], plan.sb) /\ binding[plan.src].expires # "past"
    /\ SameBinding(binding[plan.tgt], plan.tb)
    /\ ~rec[plan.src].live
    /\ Disabled(plan.tgt)
    /\ rec[plan.tgt].mrev = plan.mrev
    /\ Present(plan.sb.gen) /\ Present(plan.tb.gen)

CommitRetainedRecovery(t) ==
    /\ Room(t, "recover")
    /\ PlanStands
    /\ UNCHANGED <<made, shapeOf, objLock>>
    /\ Begin(t, {plan.src, plan.tgt}, TRUE,
             [Op("recover", plan.tgt, "publish") EXCEPT !.q = plan.src])

-----------------------------------------------------------------------------
(* Running it: the publication mutex, rename, directory sync, commit.       *)

StepFrame == UNCHANGED <<shapeOf, made, hostLock, storeLock, objLock, access, reads, plan, up,
                         ops, crashes>>

Staged(t) == th[t].op \in {"install", "upgrade", "import", "export"}

LockPublication(t) ==
    /\ up = "open" /\ th[t].pc = "publish"
    /\ publication = NoOne
    /\ publication' = t
    /\ th' = [th EXCEPT ![t].pc = IF Staged(t) THEN "rename" ELSE "commit"]
    /\ UNCHANGED <<disk, objDisk, objShape, catalog, ghosts, faults>>
    /\ StepFrame

SetDisk(t, value) ==
    IF th[t].op = "export"
    THEN objDisk' = [objDisk EXCEPT ![th[t].obj] = value] /\ UNCHANGED disk
    ELSE disk' = [disk EXCEPT ![th[t].gen] = value] /\ UNCHANGED objDisk

(* publishStage renames the stage into place ... *)
Rename(t) ==
    /\ up = "open" /\ th[t].pc = "rename"
    /\ SetDisk(t, "renamed")
    /\ objShape' = IF th[t].op = "export"
                   THEN [objShape EXCEPT ![th[t].obj] = shapeOf[th[t].old.gen]] ELSE objShape
    /\ th' = [th EXCEPT ![t].pc = "sync"]
    /\ UNCHANGED <<catalog, ghosts, publication, faults>>
    /\ StepFrame

SyncParentSkipped(t) ==
    /\ up = "open" /\ th[t].pc = "sync"
    /\ th' = [th EXCEPT ![t].pc = "commit"]
    /\ UNCHANGED <<disk, objDisk, faults, objShape, catalog, ghosts, publication>>
    /\ StepFrame

(* ... and makes the rename durable, rolling back when it cannot. *)
SyncParent(t) ==
    /\ up = "open" /\ th[t].pc = "sync"
    /\ \/ /\ SetDisk(t, "durable")
          /\ th' = [th EXCEPT ![t].pc = "commit"]
          /\ UNCHANGED faults
       \/ /\ faults < MaxFaults
          /\ faults' = faults + 1
          /\ th' = [th EXCEPT ![t].pc = "rollback"]
          /\ UNCHANGED <<disk, objDisk>>
    /\ UNCHANGED <<objShape, catalog, ghosts, publication>>
    /\ StepFrame

(* Store.InstallCommit.  A fresh install replaces the deleted row, whose     *)
(* history rows go with it; reactivation keeps the instance's rows.          *)
InstallTx(p, pkg, gen) ==
    /\ rec' = [rec EXCEPT ![p] = [live |-> TRUE, enabled |-> TRUE, pkg |-> pkg, mrev |-> 1,
                                  vers |-> [k \in Packages |-> 0]]]
    /\ binding' = [binding EXCEPT ![p] = [gen |-> gen, state |-> "active",
                                          rev |-> binding[p].rev + 1, expires |-> "never"]]
    /\ history' = [history EXCEPT ![p] = IF binding[p].state = "none" THEN {} ELSE @]
    /\ visited' = [visited EXCEPT ![p] = [k \in Packages |-> IF k = pkg THEN gen ELSE 0]]
    /\ UNCHANGED <<objRow, applied>>

(* commitPluginDataVersion: package, binding and history in one transaction. *)
VersionTx(p, pkg, gen, old) ==
    /\ rec' = [rec EXCEPT ![p] = [@ EXCEPT !.pkg = pkg, !.mrev = @ + 1,
                  !.vers = versionSwitchHistory(@, rec[p].pkg, pkg, old.gen)]]
    /\ history' = [history EXCEPT ![p] = (@ \ {gen}) \cup {old.gen}]
    /\ binding' = [binding EXCEPT ![p] = [old EXCEPT !.gen = gen, !.rev = old.rev + 1]]
    /\ Visit(p, pkg, gen)
    /\ UNCHANGED <<objRow, applied>>

ImportTxUnbound(p, gen, old) ==
    /\ binding' = [binding EXCEPT ![p] = [old EXCEPT !.gen = gen, !.rev = old.rev + 1]]
    /\ rec' = [rec EXCEPT ![p].mrev = @ + 1]
    /\ visited' = [visited EXCEPT ![p] = rebindSharedVersionData(@, old.gen, gen)]
    /\ UNCHANGED <<history, objRow, applied>>

(* Store.SwapImport. *)
ImportTx(p, gen, old) ==
    /\ binding' = [binding EXCEPT ![p] = [old EXCEPT !.gen = gen, !.rev = old.rev + 1]]
    /\ rec' = [rec EXCEPT ![p].mrev = @ + 1,
                          ![p].vers = rebindSharedVersionData(@, old.gen, gen)]
    /\ visited' = [visited EXCEPT ![p] = rebindSharedVersionData(@, old.gen, gen)]
    /\ UNCHANGED <<history, objRow, applied>>

(* Store.CommitUninstall, keeping the data or deleting it. *)
UninstallTx(p, kind) ==
    /\ rec' = [rec EXCEPT ![p].live = FALSE, ![p].enabled = FALSE, ![p].mrev = @ + 1]
    /\ IF kind = "uninstall_delete"
       THEN /\ history' = [history EXCEPT ![p] = {}]
            /\ binding' = [binding EXCEPT ![p] = NoBinding]
       ELSE /\ binding' = [binding EXCEPT ![p] = [@ EXCEPT !.state = "retained", !.rev = @ + 1,
                              !.expires = IF kind = "uninstall_until" THEN "future" ELSE "never"]]
            /\ UNCHANGED history
    /\ UNCHANGED <<objRow, applied, visited>>

(* Store.DeleteRetained and Store.CleanupExpired. *)
ForgetTx(rows) ==
    /\ history' = [p \in Plugins |-> IF p \in {c[1] : c \in rows} THEN {} ELSE history[p]]
    /\ binding' = [p \in Plugins |-> IF p \in {c[1] : c \in rows} THEN NoBinding ELSE binding[p]]
    /\ UNCHANGED <<rec, objRow, applied, visited>>

RecoveryTxOneSided ==
    LET S == plan.src
        T == plan.tgt
    IN /\ binding' = [binding EXCEPT
              ![T] = [gen |-> plan.sb.gen, state |-> "active", rev |-> plan.tb.rev + 1,
                      expires |-> "never"],
              ![S].rev = @ + 1]
       /\ rec' = [rec EXCEPT ![T].mrev = @ + 1]
       /\ applied' = applied + 1
       /\ UNCHANGED <<history, objRow, visited>>

(* Store.CommitRetainedRecovery exchanges the two generation references. *)
RecoveryTx ==
    LET S == plan.src
        T == plan.tgt
    IN /\ binding' = [binding EXCEPT
              ![T] = [gen |-> plan.sb.gen, state |-> "active", rev |-> plan.tb.rev + 1,
                      expires |-> "never"],
              ![S] = [gen |-> plan.tb.gen, state |-> "retained", rev |-> plan.sb.rev + 1,
                      expires |-> "never"]]
       /\ rec' = [rec EXCEPT
              ![T].mrev = @ + 1,
              ![T].vers = rebindSharedVersionData(@, plan.tb.gen, plan.sb.gen),
              ![S].vers = rebindSharedVersionData(@, plan.sb.gen, plan.tb.gen)]
       /\ visited' = [visited EXCEPT
              ![T] = rebindSharedVersionData(@, plan.tb.gen, plan.sb.gen),
              ![S] = rebindSharedVersionData(@, plan.sb.gen, plan.tb.gen)]
       /\ applied' = applied + 1
       /\ UNCHANGED <<history, objRow>>

ObjectTx(o, value) == objRow' = [objRow EXCEPT ![o] = value] /\ UNCHANGED <<rec, binding, history, applied, visited>>

(* What a transaction compares before it writes; Import learns only here     *)
(* that the instance is enabled, and every expired row must still be exactly *)
(* the one that was listed.                                                  *)
Accepts(t) ==
    LET o == th[t]
    IN CASE o.op \in {"install", "reinstall"} -> ~rec[o.p].live /\ SameBinding(binding[o.p], o.old)
         [] o.op \in {"upgrade", "restore"}   -> SameBinding(binding[o.p], o.old)
         [] o.op = "import"                  -> Disabled(o.p) /\ SameBinding(binding[o.p], o.old)
         [] o.op = "delete_retained"         -> SameBinding(binding[o.p], o.old)
         [] o.op = "cleanup" -> \A c \in o.cand : SameBinding(binding[c[1]], c[2])
         [] o.op = "recover" -> PlanStands
         [] OTHER -> TRUE

Transaction(t) ==
    LET o == th[t]
    IN \/ o.op = "install" /\ InstallTx(o.p, o.pkg, o.gen)
       \/ o.op = "reinstall" /\ InstallTx(o.p, o.pkg, o.old.gen)
       \/ o.op \in {"upgrade", "restore"} /\ VersionTx(o.p, o.pkg, o.gen, o.old)
       \/ o.op = "import" /\ ImportTx(o.p, o.gen, o.old)
       \/ o.op \in {"uninstall_keep", "uninstall_until", "uninstall_delete"} /\ UninstallTx(o.p, o.op)
       \/ o.op = "delete_retained" /\ ForgetTx({<<o.p, o.old>>})
       \/ o.op = "cleanup" /\ ForgetTx(o.cand)
       \/ o.op = "recover" /\ RecoveryTx
       \/ o.op = "export" /\ ObjectTx(o.obj, o.p)
       \/ o.op = "delete_export" /\ ObjectTx(o.obj, NoOne)

(* Directories the operation removes itself once its rows are gone. *)
Dropped(t) ==
    IF th[t].op \in {"import", "uninstall_delete", "delete_retained"} THEN {th[t].old.gen}
    ELSE IF th[t].op = "cleanup" THEN {c[2].gen : c \in th[t].cand}
    ELSE {}

Removes(t) == th[t].op \in {"import", "uninstall_delete", "delete_retained", "cleanup", "delete_export"}

(* COMMIT is applied, and may answer an error all the same.  An upgrade and a   *)
(* retained recovery know that for an unknown outcome and leave everything      *)
(* where it is; an install, an import and an export take it for a refusal and   *)
(* remove the directory they published.                                         *)
Commit(t) ==
    /\ up = "open" /\ th[t].pc = "commit"
    /\ Accepts(t)
    /\ Transaction(t)
    /\ \/ /\ th' = [th EXCEPT ![t].pc = IF Removes(t) THEN "remove" ELSE "done",
                              ![t].drop = Dropped(t)]
          /\ UNCHANGED <<faults, unlabelled>>
       \/ /\ faults < MaxFaults /\ faults' = faults + 1
          /\ IF th[t].op \in {"install", "import", "export"}
             THEN /\ th' = [th EXCEPT ![t].pc = "rollback"]
                  /\ unlabelled' = unlabelled \cup {IF th[t].op = "export" THEN th[t].obj ELSE th[t].gen}
             ELSE th' = [th EXCEPT ![t].pc = "done"] /\ UNCHANGED unlabelled
    /\ UNCHANGED <<disk, objDisk, objShape, publication>>
    /\ StepFrame

(* The transaction is refused, or fails without having been applied. *)
CommitFails(t) ==
    /\ up = "open" /\ th[t].pc = "commit"
    /\ \/ ~Accepts(t) /\ UNCHANGED faults
       \/ faults < MaxFaults /\ faults' = faults + 1
    /\ th' = [th EXCEPT ![t].pc = IF Staged(t) THEN "rollback" ELSE "done"]
    /\ UNCHANGED <<disk, objDisk, objShape, catalog, ghosts, publication>>
    /\ StepFrame

(* rollbackPublishedDirectory; a failing removal leaves the directory. *)
Rollback(t) ==
    /\ up = "open" /\ th[t].pc = "rollback"
    /\ \/ SetDisk(t, "none") /\ UNCHANGED faults
       \/ faults < MaxFaults /\ faults' = faults + 1 /\ UNCHANGED <<disk, objDisk>>
    /\ th' = [th EXCEPT ![t].pc = "done"]
    /\ UNCHANGED <<objShape, catalog, ghosts, publication>>
    /\ StepFrame

(* removePublishedDirectory of what the committed operation released. *)
Remove(t) ==
    /\ up = "open" /\ th[t].pc = "remove"
    /\ \/ /\ disk' = [g \in Gens |-> IF g \in th[t].drop THEN "none" ELSE disk[g]]
          /\ objDisk' = IF th[t].op = "delete_export"
                        THEN [objDisk EXCEPT ![th[t].obj] = "none"] ELSE objDisk
          /\ th' = [th EXCEPT ![t].pc = "collect"]
          /\ UNCHANGED faults
       \/ /\ faults < MaxFaults /\ faults' = faults + 1
          /\ th' = [th EXCEPT ![t].pc = "done"]
          /\ UNCHANGED <<disk, objDisk>>
    /\ UNCHANGED <<objShape, catalog, ghosts, publication>>
    /\ StepFrame

(* collectUnreferenced removes every published directory no row names. *)
Collected == [g \in Gens |-> IF g \in Referenced THEN disk[g] ELSE "none"]
CollectedObjects == [o \in Objects |-> IF objRow[o] # NoOne THEN objDisk[o] ELSE "none"]

collectAfterCommit(t) ==
    /\ up = "open" /\ th[t].pc = "collect"
    /\ \/ disk' = Collected /\ objDisk' = CollectedObjects /\ UNCHANGED faults
       \/ faults < MaxFaults /\ faults' = faults + 1 /\ UNCHANGED <<disk, objDisk>>
    /\ th' = [th EXCEPT ![t].pc = "done"]
    /\ UNCHANGED <<objShape, catalog, ghosts, publication>>
    /\ StepFrame

(* The deferred unlocks. *)
Return(t) ==
    /\ up = "open" /\ th[t].pc = "done"
    /\ th' = [th EXCEPT ![t] = Idle]
    /\ publication' = NoOne
    /\ storeLock' = [p \in Plugins |-> IF storeLock[p] = t THEN NoOne ELSE storeLock[p]]
    /\ hostLock' = [p \in Plugins |-> IF hostLock[p] = t THEN NoOne ELSE hostLock[p]]
    /\ objLock' = [o \in Objects |-> IF objLock[o] = t THEN NoOne ELSE objLock[o]]
    /\ UNCHANGED <<disk, shapeOf, made, catalog, objDisk, objShape, access, reads, plan, ghosts,
                   up, ops, faults, crashes>>

-----------------------------------------------------------------------------
(* Operations that change the record alone, under the lifecycle lock.        *)

Quiet == UNCHANGED <<disk, shapeOf, made, history, objDisk, objRow, objShape, hostLock,
                     storeLock, objLock, publication, access, reads, th, applied, unlabelled, up, crashes>>

(* PutPlugin: UpdatePlugin and DowngradePlugin between packages that share   *)
(* the active dataset.                                                       *)
SharesData(p, pkg) ==
    \/ /\ pkg > rec[p].pkg
       /\ <<rec[p].pkg, pkg>> \notin Converters
       /\ Shape[pkg] = Shape[rec[p].pkg]
    \/ /\ rec[p].vers[pkg] = binding[p].gen
       /\ Shape[pkg] = Shape[rec[p].pkg]

PutPlugin(p, pkg) ==
    /\ up = "open" /\ ops < MaxOps /\ "put" \in Ops
    /\ rec[p].live /\ hostLock[p] = NoOne /\ pkg # rec[p].pkg
    /\ SharesData(p, pkg)
    /\ rec' = [rec EXCEPT ![p] = [@ EXCEPT !.pkg = pkg, !.mrev = @ + 1,
                  !.vers = versionSwitchHistory(@, rec[p].pkg, pkg, binding[p].gen)]]
    /\ Visit(p, pkg, binding[p].gen)
    /\ ops' = ops + 1
    /\ UNCHANGED <<binding, plan, faults>>
    /\ Quiet

(* rollbackVersionSwitch: publishing the update failed, so the predecessor   *)
(* record is put back; that put binds the target's own entry, if it has one. *)
PutRolledBack(p, pkg) ==
    /\ up = "open" /\ ops < MaxOps /\ "rollback" \in Ops /\ faults < MaxFaults
    /\ rec[p].live /\ hostLock[p] = NoOne /\ pkg > rec[p].pkg
    /\ SharesData(p, pkg)
    /\ rec' = [rec EXCEPT ![p].mrev = @ + 2,
                  ![p].vers[pkg] = IF @ = 0 THEN 0 ELSE binding[p].gen]
    /\ ops' = ops + 1
    /\ faults' = faults + 1
    /\ UNCHANGED <<binding, visited, plan>>
    /\ Quiet

(* EnablePlugin and DisablePlugin. *)
SetEnableState(p) ==
    /\ up = "open" /\ ops < MaxOps /\ "enable" \in Ops
    /\ rec[p].live /\ hostLock[p] = NoOne
    /\ rec' = [rec EXCEPT ![p].enabled = ~@, ![p].mrev = @ + 1]
    /\ ops' = ops + 1
    /\ UNCHANGED <<binding, visited, plan, faults>>
    /\ Quiet

(* InspectRetainedRecovery, one plan per behaviour. *)
InspectRetainedRecovery(S, T) ==
    /\ up = "open" /\ "recover" \in Ops /\ plan = NoPlan
    /\ S # T /\ HostFree({S, T}) /\ StoreFree({S, T})
    /\ binding[S].state = "retained" /\ binding[S].expires # "past" /\ ~rec[S].live
    /\ binding[T].state = "active" /\ Disabled(T)
    /\ Present(binding[S].gen) /\ Present(binding[T].gen)
    /\ shapeOf[binding[S].gen] = shapeOf[binding[T].gen]
    /\ plan' = [src |-> S, tgt |-> T, sb |-> binding[S], tb |-> binding[T], mrev |-> rec[T].mrev]
    /\ UNCHANGED <<rec, binding, visited, ops, faults>>
    /\ Quiet

(* A retention deadline passes. *)
Expire(p) ==
    /\ binding[p].expires = "future"
    /\ binding' = [binding EXCEPT ![p].expires = "past"]
    /\ UNCHANGED <<rec, visited, plan, ops, faults>>
    /\ Quiet

-----------------------------------------------------------------------------
(* withNamespaceAccess: a reader resolves the active generation under the    *)
(* store lock and keeps that lock for reading until it is done.              *)

withNamespaceAccess(r, p) ==
    /\ up = "open" /\ reads[r] = NoOne
    /\ storeLock[p] = NoOne
    /\ binding[p].state = "active" /\ disk[binding[p].gen] # "none"
    /\ access' = [access EXCEPT ![r] = binding[p].gen]
    /\ reads' = [reads EXCEPT ![r] = p]
    /\ UNCHANGED <<disk, shapeOf, made, catalog, objDisk, objShape, hostLock, storeLock, objLock,
                   publication, th, plan, ghosts, up, ops, faults, crashes>>

EndAccess(r) ==
    /\ up = "open" /\ reads[r] # NoOne
    /\ access' = [access EXCEPT ![r] = 0]
    /\ reads' = [reads EXCEPT ![r] = NoOne]
    /\ UNCHANGED <<disk, shapeOf, made, catalog, objDisk, objShape, hostLock, storeLock, objLock,
                   publication, th, plan, ghosts, up, ops, faults, crashes>>

-----------------------------------------------------------------------------
(* The process dies: a rename not yet synced may be lost.                    *)

Survives(before, after) == after = before \/ (before = "renamed" /\ after = "none")

Crash ==
    /\ up = "open" /\ crashes < MaxCrashes
    /\ crashes' = crashes + 1
    /\ up' = "down"
    /\ \E after \in [Gens -> {"none", "renamed", "durable"}] :
          /\ \A g \in Gens : Survives(disk[g], after[g])
          /\ disk' = [g \in Gens |-> IF after[g] = "renamed" THEN "durable" ELSE after[g]]
    /\ \E after \in [Objects -> {"none", "renamed", "durable"}] :
          /\ \A o \in Objects : Survives(objDisk[o], after[o])
          /\ objDisk' = [o \in Objects |-> IF after[o] = "renamed" THEN "durable" ELSE after[o]]
    /\ hostLock' = [p \in Plugins |-> NoOne]
    /\ storeLock' = [p \in Plugins |-> NoOne]
    /\ objLock' = [o \in Objects |-> NoOne]
    /\ publication' = NoOne
    /\ access' = [r \in Readers |-> 0]
    /\ reads' = [r \in Readers |-> NoOne]
    /\ th' = [t \in Threads |-> Idle]
    /\ UNCHANGED <<shapeOf, made, catalog, objShape, plan, ghosts, ops, faults>>

(* Open and cleanupOnOpen: every named directory must be there, then the     *)
(* unnamed ones are collected.                                               *)
Complete ==
    /\ \A g \in Referenced : disk[g] # "none"
    /\ \A o \in Objects : objRow[o] # NoOne => objDisk[o] # "none"

OpenUncollected ==
    /\ up = "down"
    /\ up' = IF Complete THEN "open" ELSE "corrupt"
    /\ UNCHANGED <<disk, objDisk>>
    /\ UNCHANGED <<shapeOf, made, catalog, objShape, hostLock, storeLock, objLock, publication,
                   access, reads, th, plan, ghosts, ops, faults, crashes>>

Open ==
    /\ up = "down"
    /\ IF Complete
       THEN disk' = Collected /\ objDisk' = CollectedObjects /\ up' = "open"
       ELSE up' = "corrupt" /\ UNCHANGED <<disk, objDisk>>
    /\ UNCHANGED <<shapeOf, made, catalog, objShape, hostLock, storeLock, objLock, publication,
                   access, reads, th, plan, ghosts, ops, faults, crashes>>

Start(t) ==
    \/ \E p \in Plugins, k \in Packages : InstallCommit(t, p, k) \/ Upgrade(t, p, k) \/ RestoreVersion(t, p, k)
    \/ \E p \in Plugins, o \in Objects : Export(t, p, o) \/ Import(t, p, o)
    \/ \E o \in Objects : DeleteExport(t, o)
    \/ \E p \in Plugins : DeleteRetained(t, p)
    \/ \E p \in Plugins, kind \in {"uninstall_keep", "uninstall_until", "uninstall_delete"} :
          CommitUninstall(t, p, kind)
    \/ CleanupList(t)
    \/ CommitRetainedRecovery(t)

Step(t) ==
    \/ CleanupLock(t) \/ LockPublication(t) \/ Rename(t) \/ SyncParent(t) \/ Commit(t)
    \/ CommitFails(t) \/ Rollback(t) \/ Remove(t) \/ collectAfterCommit(t) \/ Return(t)

Next ==
    \/ \E t \in Threads : Start(t) \/ Step(t)
    \/ \E p \in Plugins, k \in Packages : PutPlugin(p, k) \/ PutRolledBack(p, k)
    \/ \E p \in Plugins : SetEnableState(p) \/ Expire(p)
    \/ \E S, T \in Plugins : InspectRetainedRecovery(S, T)
    \/ \E r \in Readers, p \in Plugins : withNamespaceAccess(r, p)
    \/ \E r \in Readers : EndAccess(r)
    \/ Crash
    \/ Open

Spec == Init /\ [][Next]_vars

-----------------------------------------------------------------------------
BindingType == [gen : 0..MaxGens, state : {"none", "active", "retained"}, rev : Nat,
                expires : {"never", "future", "past"}]

(* Types of the rows, the directories and the operations.                    *)
TypeOK ==
    /\ disk \in [Gens -> {"none", "renamed", "durable"}]
    /\ made \in 0..MaxGens
    /\ \A p \in Plugins : /\ binding[p] \in BindingType
                          /\ (binding[p].state = "none") = (binding[p].gen = 0)
                          /\ history[p] \subseteq Gens
                          /\ rec[p].vers \in [Packages -> 0..MaxGens]
                          /\ rec[p].live => rec[p].pkg \in Packages /\ binding[p].state = "active"
    /\ objDisk \in [Objects -> {"none", "renamed", "durable"}]
    /\ up \in {"open", "down", "corrupt"}
    /\ applied \in Nat

(* Whatever the process was doing when it died, a binding row, a history row *)
(* or an export row never names a directory that is gone or whose rename was *)
(* not yet synced, so cleanupOnOpen never refuses to open the store.  The     *)
(* one exception is the directory of an install, an import or an export whose *)
(* COMMIT was applied and answered an error: rollbackPublishedDirectory       *)
(* removes it under the row.                                                 *)
RowsHaveData ==
    /\ \A g \in Referenced \ unlabelled : disk[g] = "durable"
    /\ \A o \in Objects \ unlabelled : objRow[o] # NoOne => objDisk[o] = "durable"
    /\ up = "corrupt" => \E x \in unlabelled : x \in Referenced \/ x \in Objects

(* "Each historical package records its last data generation" and can be     *)
(* restored: every entry of an installed instance's version history names    *)
(* the active generation or one with a history row, and of the shape that    *)
(* package declares; the active dataset has the shape of the active package. *)
VersionsRestorable ==
    \A p \in Plugins : rec[p].live =>
        /\ shapeOf[binding[p].gen] = Shape[rec[p].pkg]
        /\ \A k \in Packages : rec[p].vers[k] # 0 =>
              rec[p].vers[k] \in Named(p) /\ shapeOf[rec[p].vers[k]] = Shape[k]

(* "Revisited packages use the most recent visit's data": the entry of every *)
(* package left behind is the generation that package last worked on, as     *)
(* moved by imports and recoveries of the dataset it shares.                 *)
LatestVisit ==
    \A p \in Plugins, k \in Packages :
        rec[p].live /\ k # rec[p].pkg => rec[p].vers[k] = visited[p][k]

(* A generation belongs to one row: deleting or collecting the data of one   *)
(* instance or version cannot take the data of another.                      *)
OneOwner ==
    /\ \A p, q \in Plugins : p # q => Named(p) \cap Named(q) = {}
    /\ \A p \in Plugins : Bound(p) \cap history[p] = {}

(* A namespace access works in the active generation of its instance from    *)
(* start to end: no import, upgrade, exchange or collection swaps or removes *)
(* the directory under it.                                                   *)
AccessStable ==
    \A r \in Readers : reads[r] # NoOne =>
        /\ binding[reads[r]].state = "active"
        /\ binding[reads[r]].gen = access[r]
        /\ disk[access[r]] = "durable"

(* GetRetainedRecoveryStatus, the reconciliation of a lost commit response.  *)
RecoveryStatus ==
    IF plan = NoPlan THEN "conflict"
    ELSE LET sb == binding[plan.src]
             tb == binding[plan.tgt]
         IN IF /\ sb.gen = plan.tb.gen /\ sb.rev = plan.sb.rev + 1 /\ sb.state = "retained"
               /\ tb.gen = plan.sb.gen /\ tb.rev = plan.tb.rev + 1 /\ tb.state = "active"
               /\ Disabled(plan.tgt) /\ rec[plan.tgt].mrev = plan.mrev + 1
            THEN "applied"
            ELSE IF /\ SameBinding(sb, plan.sb) /\ SameBinding(tb, plan.tb)
                    /\ Disabled(plan.tgt) /\ rec[plan.tgt].mrev = plan.mrev
                 THEN "pending" ELSE "conflict"

(* "A commit is never replayed": however often the caller commits its plan,  *)
(* and whatever response it lost, the exchange happens at most once, and the *)
(* status query says applied or pending only when that is what happened.     *)
RecoveryReconciles ==
    /\ applied <= 1
    /\ RecoveryStatus = "applied" => applied = 1
    /\ RecoveryStatus = "pending" => applied = 0

(* Opening the store leaves exactly the directories its rows name: what a    *)
(* crash or a failed removal left behind is collected.                       *)
OpenCollects ==
    up = "down" /\ up' = "open" =>
        /\ \A g \in Gens : disk'[g] # "none" <=> g \in Referenced
        /\ \A o \in Objects : objDisk'[o] # "none" <=> objRow[o] # NoOne
=============================================================================
