---------------------------- MODULE MCPluginData ----------------------------
(***************************************************************************)
(* The data of plugins, the bytes of their packages and the state root     *)
(* that holds them, on small instances; Focus says which of them a         *)
(* configuration explores.  In the others no Host opens the root           *)
(* (HostLifecycle), and the variables of the other parts are 0.            *)
(*   single    one plugin instance under every operation, two goroutines,  *)
(*             a reader, a failing step and a crash; packages 1 and 2      *)
(*             share a data shape, 3 converts from either;                 *)
(*   pair      two instances that uninstall, retain, collect and recover   *)
(*             each other's data;                                          *)
(*   versions  long histories of one instance without a crash: all         *)
(*             packages share a shape and only 3 declares a converter,     *)
(*             from 2, so it is reached with and without converting;       *)
(*   rollback  the same with version switches that the Host takes back     *)
(*             (all four PluginData);                                      *)
(*   two_kv    two callers of two key-value namespaces that share one      *)
(*             place in the cache of open databases; sqlite, files and kv  *)
(*             two callers of one namespace of each kind while the         *)
(*             generation is switched (PluginStorage);                     *)
(*   assets    three installs of the same bytes and a reader, volatile two *)
(*             with the store in memory, modules two inspections over a    *)
(*             cache of two verdicts (PackageAssets);                      *)
(*   lifecycle two Hosts, a call and a reset on one state root             *)
(*             (HostLifecycle).                                            *)
(***************************************************************************)
EXTENDS Integers, TLC, HostLifecycle

CONSTANTS Focus, a, b, p1, p2, p3, t1, t2, r1, o1, NoOne

VARIABLES
  focus,
  disk, shapeOf, made, rec, binding, history, objDisk, objRow, objShape,
  hostLock, storeLock, objLock, publication, access, reads, th, plan,
  applied, visited, unlabelled, up, ops, faults, crashes,
  gen, rows, used, cached, flight, dbs, locks, streamBytes, storeCall,
  closed, dir, index, assetLock, records, unlabelledAssets, install, reader,
  temps, entries, flights, insp

dVars == <<disk, shapeOf, made, rec, binding, history, objDisk, objRow,
           objShape, hostLock, storeLock, objLock, publication, access,
           reads, th, plan, applied, visited, unlabelled, up, ops, faults,
           crashes>>
nVars == <<gen, rows, used, cached, flight, dbs, locks, streamBytes, storeCall>>
aVars == <<closed, dir, index, assetLock, records, unlabelledAssets, install,
           reader, temps, entries, flights, insp>>

\* What the ownership manifest selects for a reset.
ManifestKinds == <<"assets", "host_control", "plugin_data">>

Single == INSTANCE PluginData
  WITH Plugins <- {p1}, LastPackage <- 3, Shape <- <<a, a, b>>,
       Converters <- {<<1, 3>>, <<2, 3>>}, Threads <- {t1, t2},
       Readers <- {r1}, Objects <- {o1}, MaxGens <- 3, MaxOps <- 5,
       MaxFaults <- 1, MaxCrashes <- 1,
       Ops <- {"install", "upgrade", "downgrade", "export", "import", "delete_export",
               "uninstall", "delete_retained", "put", "enable", "rollback"},
       NoOne <- NoOne
Pair == INSTANCE PluginData
  WITH Plugins <- {p2, p3}, LastPackage <- 1, Shape <- <<a>>,
       Converters <- {}, Threads <- {t1, t2}, Readers <- {r1}, Objects <- {},
       MaxGens <- 3, MaxOps <- 6, MaxFaults <- 1, MaxCrashes <- 1,
       Ops <- {"install", "uninstall", "delete_retained", "cleanup", "recover", "enable"},
       NoOne <- NoOne
Versions == INSTANCE PluginData
  WITH Plugins <- {p1}, LastPackage <- 3, Shape <- <<a, a, a>>,
       Converters <- {<<2, 3>>}, Threads <- {t1}, Readers <- {},
       Objects <- {o1}, MaxGens <- 5, MaxOps <- 7,
       MaxFaults <- 1, MaxCrashes <- 0,
       Ops <- {"install", "upgrade", "downgrade", "export", "import", "put", "enable",
               "uninstall"},
       NoOne <- NoOne
Rollback == INSTANCE PluginData
  WITH Plugins <- {p1}, LastPackage <- 3, Shape <- <<a, a, a>>,
       Converters <- {<<2, 3>>}, Threads <- {t1}, Readers <- {},
       Objects <- {}, MaxGens <- 4, MaxOps <- 8,
       MaxFaults <- 1, MaxCrashes <- 0,
       Ops <- {"install", "upgrade", "downgrade", "put", "rollback"},
       NoOne <- NoOne
TwoKV == INSTANCE PluginStorage
  WITH Callers <- {t1, t2}, Doing <- {"GetKV", "PutKV"},
       Kind <- "x" :> "kv" @@ "y" :> "kv", QuotaBytes <- 1, QuotaFiles <- 2,
       MaxOpen <- 1, MaxGens <- 1, MaxSize <- 1, Nil <- NoOne, call <- storeCall
SQLite == INSTANCE PluginStorage
  WITH Callers <- {t1, t2}, Doing <- {"QuerySQLite", "ExecSQLite"},
       Kind <- "x" :> "sqlite", QuotaBytes <- 2, QuotaFiles <- 2,
       MaxOpen <- 1, MaxGens <- 2, MaxSize <- 2, Nil <- NoOne, call <- storeCall
Files == INSTANCE PluginStorage
  WITH Callers <- {t1, t2},
       Doing <- {"ListFiles", "WriteFile", "DeleteFile", "WriteFileStream", "ReadFileStream"},
       Kind <- "x" :> "files", QuotaBytes <- 1, QuotaFiles <- 2,
       MaxOpen <- 1, MaxGens <- 2, MaxSize <- 1, Nil <- NoOne, call <- storeCall
KV == INSTANCE PluginStorage
  WITH Callers <- {t1, t2},
       Doing <- {"GetKV", "ListKV", "PutKV", "DeleteKV", "BatchKV"},
       Kind <- "x" :> "kv", QuotaBytes <- 1, QuotaFiles <- 2, MaxOpen <- 1,
       MaxGens <- 1, MaxSize <- 1, Nil <- NoOne, call <- storeCall
Assets == INSTANCE PackageAssets
  WITH Installs <- {t1, t2, r1}, Readers <- {o1}, Hashes <- {"h"},
       Durable <- TRUE, Inspectors <- {}, Modules <- {}, Refused <- {},
       Capacity <- 1, Nil <- NoOne, lock <- assetLock,
       unlabelled <- unlabelledAssets
Volatile == INSTANCE PackageAssets
  WITH Installs <- {t1, t2}, Readers <- {o1}, Hashes <- {"h"},
       Durable <- FALSE, Inspectors <- {}, Modules <- {}, Refused <- {},
       Capacity <- 1, Nil <- NoOne, lock <- assetLock,
       unlabelled <- unlabelledAssets
Verdicts == INSTANCE PackageAssets
  WITH Installs <- {}, Readers <- {}, Hashes <- {"h"}, Durable <- TRUE,
       Inspectors <- {t1, t2}, Modules <- {"m1", "m2", "m3"},
       Refused <- {"m1"}, Capacity <- 2, Nil <- NoOne, lock <- assetLock,
       unlabelled <- unlabelledAssets

MCInit ==
  /\ focus \in Focus
  /\ CASE focus = "single" -> Single!Init
       [] focus = "pair" -> Pair!Init
       [] focus = "versions" -> Versions!Init
       [] focus = "rollback" -> Rollback!Init
       [] OTHER ->
          /\ disk = 0 /\ shapeOf = 0 /\ made = 0 /\ rec = 0 /\ binding = 0
          /\ history = 0 /\ objDisk = 0 /\ objRow = 0 /\ objShape = 0
          /\ hostLock = 0 /\ storeLock = 0 /\ objLock = 0 /\ publication = 0
          /\ access = 0 /\ reads = 0 /\ th = 0 /\ plan = 0 /\ applied = 0
          /\ visited = 0 /\ unlabelled = 0 /\ up = 0 /\ ops = 0 /\ faults = 0 /\ crashes = 0
  /\ CASE focus = "two_kv" -> TwoKV!Init
       [] focus = "sqlite" -> SQLite!Init
       [] focus = "files" -> Files!Init
       [] focus = "kv" -> KV!Init
       [] OTHER ->
          /\ gen = 0 /\ rows = 0 /\ used = 0 /\ cached = 0 /\ flight = 0
          /\ dbs = 0 /\ locks = 0 /\ streamBytes = 0 /\ storeCall = 0
  /\ CASE focus = "assets" -> Assets!Init
       [] focus = "volatile" -> Volatile!Init
       [] focus = "modules" -> Verdicts!Init
       [] OTHER ->
          /\ closed = 0 /\ dir = 0 /\ index = 0 /\ assetLock = 0 /\ records = 0
          /\ unlabelledAssets = 0
          /\ install = 0 /\ reader = 0 /\ temps = 0 /\ entries = 0
          /\ flights = 0 /\ insp = 0
  /\ Init
  /\ focus # "lifecycle" => \A k \in AllKinds : files[k] = "used"

MCNext ==
  /\ UNCHANGED focus
  /\ \/ /\ \/ focus = "single" /\ Single!Next
           \/ focus = "pair" /\ Pair!Next
           \/ focus = "versions" /\ Versions!Next
           \/ focus = "rollback" /\ Rollback!Next
        /\ UNCHANGED <<nVars, aVars, vars>>
     \/ /\ \/ focus = "two_kv" /\ TwoKV!Next
           \/ focus = "sqlite" /\ SQLite!Next
           \/ focus = "files" /\ Files!Next
           \/ focus = "kv" /\ KV!Next
        /\ UNCHANGED <<dVars, aVars, vars>>
     \/ /\ \/ focus = "assets" /\ Assets!Next
           \/ focus = "volatile" /\ Volatile!Next
           \/ focus = "modules" /\ Verdicts!Next
        /\ UNCHANGED <<dVars, nVars, vars>>
     \/ /\ focus = "lifecycle" /\ Next
        /\ UNCHANGED <<dVars, nVars, aVars>>

MCSpec == MCInit /\ [][MCNext]_<<focus, dVars, nVars, aVars, vars>>

Symmetry == Permutations({t1, t2}) \cup Permutations({p2, p3})
-----------------------------------------------------------------------------
\* A row never names data that is gone.  Whatever the process was doing when it
\* died, a binding row, a history row or an export row never names a directory that
\* is gone or whose rename was not yet synced, so cleanupOnOpen never refuses to
\* open the store, but for the directory of an install, an import or an export whose
\* COMMIT was applied and answered an error; a namespace access works in the active generation from start to
\* end; and a generation belongs to one row, so that deleting or collecting the data
\* of one instance or version cannot take the data of another (DeleteRetained,
\* ExchangeRetained, CleanupExpired).  The package of every installed record can be
\* served, with the same exception, and a reader is given its bytes or none
\* (PutOwnedPackage, finishAssets, ReadAsset).  An
\* open Host has its stores open (Open); the invariant that StoresOutliveWork is
\* proved from holds.
RowsHaveData ==
  /\ focus = "single" => Single!TypeOK /\ Single!RowsHaveData /\ Single!AccessStable
  /\ focus = "pair" => Pair!TypeOK /\ Pair!RowsHaveData /\ Pair!AccessStable /\ Pair!OneOwner
  /\ focus = "versions" => Versions!OneOwner
  /\ focus = "assets" => Assets!TypeOK /\ Assets!CommittedIsServable /\ Assets!AnswersTrue
  /\ focus = "volatile" => Volatile!TypeOK /\ Volatile!CommittedIsServable /\ Volatile!AnswersTrue
  /\ focus = "modules" => Verdicts!TypeOK /\ Verdicts!AnswersTrue
  /\ focus = "lifecycle" => TypeOK /\ LifecycleConstants /\ LifecycleInv

\* Every entry of an installed instance's version history names the active
\* generation or one with a history row, of the shape that package declares and
\* the one the package last worked on: a package that is reached again finds its
\* data (RecordPluginVersion, bindVersionSwitchData, Upgrade, ImportReplace).
VersionsRestorable ==
  /\ focus = "single" => Single!VersionsRestorable
  /\ focus = "versions" => Versions!VersionsRestorable /\ Versions!LatestVisit

\* "A commit is never replayed": however often the caller commits its recovery
\* plan, and whatever response it lost, the exchange happens at most once, and
\* the status query says applied or pending only when that is what happened
\* (CommitRetainedRecovery, GetRetainedRecoveryStatus); and opening the store leaves
\* exactly the directories its rows name: what a crash or a failed removal left
\* behind is collected (cleanupOnOpen).
RecoveryReconciles ==
  [][/\ focus = "pair" => (Pair!RecoveryReconciles)' /\ Pair!OpenCollects
     /\ focus = "single" => Single!OpenCollects]_dVars

\* The usage of a namespace is the sum of its entries and within its quota after
\* any sequence of writes, deletions, streamed uploads and commits of unknown
\* outcome, and a cached usage is the stored one; nobody works on a closed database
\* and whoever waits for room in the cache of open databases has been woken; and the
\* staging budget counts the bytes of the transfers in progress, however they end
\* (acquireNamespaceDatabase, namespaceUsage, namespaceStageWriter).
StorageTrue ==
  /\ focus = "two_kv" => TwoKV!TypeOK /\ TwoKV!DatabasesHeld /\ TwoKV!UsageTrue /\ TwoKV!BudgetExact
  /\ focus = "sqlite" => SQLite!TypeOK /\ SQLite!DatabasesHeld /\ SQLite!UsageTrue /\ SQLite!BudgetExact
  /\ focus = "files" => Files!TypeOK /\ Files!DatabasesHeld /\ Files!UsageTrue /\ Files!BudgetExact
  /\ focus = "kv" => KV!TypeOK /\ KV!DatabasesHeld /\ KV!UsageTrue /\ KV!BudgetExact

\* "Each historical package records its last data generation": the entry of
\* every package left behind is the generation that package last worked on, also
\* when the Host takes a version switch back (rollbackVersionSwitch).
LatestVisit == focus = "rollback" => Rollback!LatestVisit
=============================================================================
