---------------------------- MODULE PackageAssets ----------------------------
(***************************************************************************)
(* Package bytes.  Installs publish the files of a package under its hash    *)
(* before they commit a record that names it, and take back what they        *)
(* published when they do not (pkg/host/package_assets.go); the store keeps   *)
(* a directory per hash and an index of its manifests in memory              *)
(* (pkg/pluginpkg/file_asset_store.go), or everything in memory              *)
(* (asset_store.go).  The process may crash between any two steps.  Module    *)
(* inspections share a cache (wasm_inspection_cache.go).                      *)
(***************************************************************************)
EXTENDS Integers, Sequences, FiniteSets, SequencesExt

CONSTANTS
  Installs, Readers, Hashes,
  Durable,               \* a FileAssetStore rather than a MemoryAssetStore
  Inspectors, Modules, Refused, Capacity,
  Nil

VARIABLES
  closed,                \* the store's closed flag
  dir,                   \* the directory of a hash: "none", "part", "torn", "whole" or "damaged"
  index,                 \* fileAssetRootState.manifests
  lock,                  \* packageAssetLocks
  records,               \* installs whose record the catalog holds
  unlabelled,            \* ... and whose COMMIT answered an error without a label
  install, reader,
  temps,                 \* .pkg- directories
  entries, flights, insp \* the inspection cache, most recent first, and its users

vars == <<closed, dir, index, lock, records, unlabelled, install, reader, temps, entries, flights, insp>>
inspections == <<entries, flights, insp>>

NoInstall == [at |-> "idle", hash |-> Nil, existing |-> FALSE, committed |-> FALSE]
NoReader == [at |-> "idle", hash |-> Nil, file |-> Nil, got |-> Nil]
NoInspector == [at |-> "idle", module |-> Nil, told |-> Nil]

Init ==
  /\ closed = FALSE /\ dir = [h \in Hashes |-> "none"] /\ index = {} /\ lock = [h \in Hashes |-> Nil]
  /\ records = {} /\ unlabelled = {} /\ temps = {}
  /\ install = [i \in Installs |-> NoInstall] /\ reader = [r \in Readers |-> NoReader]
  /\ entries = <<>> /\ flights = {} /\ insp = [c \in Inspectors |-> NoInspector]

TypeOK ==
  /\ closed \in BOOLEAN /\ dir \in [Hashes -> {"none", "part", "torn", "whole", "damaged"}] /\ index \subseteq Hashes
  /\ lock \in [Hashes -> Installs \cup {Nil}] /\ unlabelled \subseteq records /\ records \subseteq Installs /\ temps \subseteq Installs
  /\ flights \subseteq Modules /\ Range(entries) \subseteq Modules

-----------------------------------------------------------------------------
(* Installs. *)

Over(i) == [install EXCEPT ![i].at = "over"]
Unlock(i) == lock' = [lock EXCEPT ![install[i].hash] = Nil]
Refuse(i) == install' = Over(i) /\ Unlock(i)

acquireWrite(i, h) ==
  /\ install[i].at = "idle"
  /\ \/ /\ lock[h] = Nil /\ lock' = [lock EXCEPT ![h] = i]
        /\ install' = [install EXCEPT ![i].at = "metadata", ![i].hash = h]
     \/ lock[h] # Nil /\ install' = Over(i) /\ UNCHANGED lock     \* the context ended first
  /\ UNCHANGED <<closed, dir, index, records, unlabelled, reader, temps, inspections>>

\* What removing a directory may leave: nothing, no manifest, or a manifest of
\* files that are no longer there.
Remains == {"none", "part", "torn"}

\* ensureManifestIndex: a loaded manifest is not read again.
Loaded(h) == h \in index \/ dir[h] \in {"whole", "damaged", "torn"}
ensureManifestIndex(h) == index' = IF Loaded(h) THEN index \cup {h} ELSE index

ReadPackageMetadata(i) ==
  LET h == install[i].hash IN
  /\ install[i].at = "metadata"
  /\ \/ Refuse(i) /\ UNCHANGED index            \* closed, or an I/O error
     \/ /\ ~closed /\ ensureManifestIndex(h) /\ UNCHANGED lock
        /\ install' = [install EXCEPT ![i].existing = Loaded(h), ![i].at = IF Loaded(h) THEN "verify" ELSE "put"]
  /\ UNCHANGED <<closed, dir, records, unlabelled, reader, temps, inspections>>

\* The bytes an earlier install left are read before they are relied on.
Verify(i) ==
  /\ install[i].at = "verify"
  /\ IF ~closed /\ dir[install[i].hash] = "whole"
     THEN install' = [install EXCEPT ![i].at = "commit"] /\ UNCHANGED lock
     ELSE Refuse(i)
  /\ UNCHANGED <<closed, dir, index, records, unlabelled, reader, temps, inspections>>

\* PutOwnedPackage fills a directory of its own ...
Stage(i) ==
  /\ install[i].at = "put"
  /\ \/ Refuse(i) /\ UNCHANGED temps
     \/ ~closed /\ temps' = temps \cup {i} /\ install' = [install EXCEPT ![i].at = "swap"] /\ UNCHANGED lock
  /\ UNCHANGED <<closed, dir, index, records, unlabelled, reader, inspections>>

\* ... and puts it where the hash belongs; the first of its two steps may be the
\* last, by an error or by a crash.
PutOwnedPackage(i) ==
  LET h == install[i].hash IN
  /\ install[i].at = "swap"
  /\ temps' = temps \ {i}
  /\ \/ /\ dir' = [dir EXCEPT ![h] = "whole"] /\ index' = index \cup {h}
        /\ install' = [install EXCEPT ![i].at = "commit"] /\ UNCHANGED lock
     \/ \E left \in {dir[h]} \cup (IF dir[h] = "none" THEN {} ELSE Remains) :
          dir' = [dir EXCEPT ![h] = left] /\ index' = index \ {h} /\ Refuse(i)
  /\ UNCHANGED <<closed, records, unlabelled, reader, inspections>>

\* The catalog's answer, and what mutation.ForError makes of it: the error of COMMIT
\* itself carries no label and is taken for no commit, also when it was applied.
Commit(i) ==
  /\ install[i].at = "commit"
  /\ \E done \in BOOLEAN, said \in {"committed", "unknown", "not_committed"} :
       /\ ~done => said # "committed"
       /\ records' = IF done THEN records \cup {i} ELSE records
       /\ unlabelled' = IF done /\ said = "not_committed" THEN unlabelled \cup {i} ELSE unlabelled
       /\ install' = [install EXCEPT ![i].at = "finish", ![i].committed = said # "not_committed"]
  /\ UNCHANGED <<closed, dir, index, lock, reader, temps, inspections>>

\* Mutant of Finish: an install that fails removes what it shared.
FinishAlone(i) ==
  LET h == install[i].hash IN
  /\ install[i].at = "finish" /\ Refuse(i)
  /\ IF closed \/ install[i].committed THEN UNCHANGED <<dir, index>>
     ELSE index' = index \ {h} /\ dir' = [dir EXCEPT ![h] = "none"]
  /\ UNCHANGED <<closed, records, unlabelled, reader, temps, inspections>>

\* finishAssets, with DeletePackage.
Finish(i) ==
  LET h == install[i].hash IN
  /\ install[i].at = "finish" /\ Refuse(i)
  /\ IF closed \/ install[i].existing \/ install[i].committed THEN UNCHANGED <<dir, index>>
     ELSE /\ index' = index \ {h}
          /\ \E left \in Remains \cup {dir[h]} : dir' = [dir EXCEPT ![h] = left]
  /\ UNCHANGED <<closed, records, unlabelled, reader, temps, inspections>>

-----------------------------------------------------------------------------
(* Readers of assets: index and file are taken together, the bytes after. *)

OpenAsset(r, h) ==
  /\ reader[r].at = "idle" /\ ~closed
  /\ ensureManifestIndex(h)
  /\ reader' = [reader EXCEPT ![r] =
       IF Loaded(h) /\ dir[h] \in {"whole", "damaged"}
       THEN [at |-> "read", hash |-> h, file |-> dir[h], got |-> Nil]
       ELSE [NoReader EXCEPT !.at = "over", !.got = "notFound"]]
  /\ UNCHANGED <<closed, dir, lock, records, unlabelled, install, temps, inspections>>

\* Mutant of ReadAsset: the content is returned as it was found.
ReadAssetUnchecked(r) ==
  /\ reader[r].at = "read"
  /\ reader' = [reader EXCEPT ![r].at = "over", ![r].got = reader[r].file]
  /\ UNCHANGED <<closed, dir, index, lock, records, unlabelled, install, temps, inspections>>

\* The open file outlives its directory entry; its digest is compared.
ReadAsset(r) ==
  /\ reader[r].at = "read"
  /\ reader' = [reader EXCEPT ![r].at = "over",
       ![r].got = IF Durable /\ reader[r].file # "whole" THEN "notFound" ELSE reader[r].file]
  /\ UNCHANGED <<closed, dir, index, lock, records, unlabelled, install, temps, inspections>>

\* What is on disk may be damaged from outside.
Damage(h) ==
  /\ Durable /\ dir[h] = "whole" /\ dir' = [dir EXCEPT ![h] = "damaged"]
  /\ UNCHANGED <<closed, index, lock, records, unlabelled, install, reader, temps, inspections>>

\* Close waits for the operations under way; the catalog still answers.
Close ==
  /\ ~closed /\ (\A i \in Installs : install[i].at # "swap") /\ (\A r \in Readers : reader[r].at # "read")
  /\ closed' = TRUE /\ index' = {}
  /\ dir' = IF Durable THEN dir ELSE [h \in Hashes |-> "none"]
  /\ UNCHANGED <<lock, records, unlabelled, install, reader, temps, inspections>>

Removing(i) ==
  \/ install[i].at = "swap"
  \/ install[i].at = "finish" /\ ~install[i].existing /\ ~install[i].committed

\* A crash: the disk and the catalog remain.
Crash ==
  /\ Durable
  /\ closed' = FALSE /\ index' = {} /\ lock' = [h \in Hashes |-> Nil]
  /\ install' = [i \in Installs |-> IF install[i].at = "idle" THEN install[i] ELSE [install[i] EXCEPT !.at = "over"]]
  /\ \E gone \in SUBSET {h \in Hashes : dir[h] # "none" /\ \E i \in Installs : install[i].hash = h /\ Removing(i)},
        left \in Remains :
       dir' = [h \in Hashes |-> IF h \in gone THEN left ELSE dir[h]]
  /\ reader' = [r \in Readers |-> IF reader[r].at = "read" THEN [NoReader EXCEPT !.at = "over"] ELSE reader[r]]
  /\ UNCHANGED <<records, unlabelled, temps, inspections>>

-----------------------------------------------------------------------------
(* The inspection cache. *)

Verdict(m) == IF m \in Refused THEN "refused" ELSE "contract"
Recent(m) == <<m>> \o SelectSeq(entries, LAMBDA n : n # m)

\* One pass of inspectWithParserVersion: an entry, a flight to wait for, or a flight.
inspect(c, m) ==
  /\ \/ insp[c].at = "idle"
     \/ insp[c].at = "wait" /\ insp[c].module = m /\ m \notin flights
  /\ IF m \in Range(entries)
     THEN /\ entries' = Recent(m) /\ UNCHANGED flights
          /\ insp' = [insp EXCEPT ![c] = [at |-> "over", module |-> m, told |-> Verdict(m)]]
     ELSE /\ flights' = flights \cup {m} /\ UNCHANGED entries
          /\ insp' = [insp EXCEPT ![c] = [at |-> "wait", module |-> m, told |-> Nil]]
  /\ UNCHANGED <<closed, dir, index, lock, records, unlabelled, install, reader, temps>>

GiveUp(c) ==
  /\ insp[c].at = "wait" /\ insp' = [insp EXCEPT ![c].at = "over", ![c].told = "canceled"]
  /\ UNCHANGED <<closed, dir, index, lock, records, unlabelled, install, reader, temps, entries, flights>>

Again(c) ==
  /\ insp[c].at = "over" /\ insp' = [insp EXCEPT ![c] = NoInspector]
  /\ UNCHANGED <<closed, dir, index, lock, records, unlabelled, install, reader, temps, entries, flights>>

\* The flight belongs to nobody: it ends in the cache even if all have left.
runInspection(m) ==
  /\ m \in flights /\ flights' = flights \ {m}
  /\ entries' = SubSeq(<<m>> \o entries, 1, IF Len(entries) + 1 > Capacity THEN Capacity ELSE Len(entries) + 1)
  /\ UNCHANGED <<closed, dir, index, lock, records, unlabelled, install, reader, temps, insp>>

Next ==
  \/ \E i \in Installs :
       \/ \E h \in Hashes : acquireWrite(i, h)
       \/ ReadPackageMetadata(i) \/ Verify(i) \/ Stage(i) \/ PutOwnedPackage(i) \/ Commit(i) \/ Finish(i)
  \/ \E r \in Readers : (\E h \in Hashes : OpenAsset(r, h)) \/ ReadAsset(r)
  \/ \E h \in Hashes : Damage(h)
  \/ Close \/ Crash
  \/ \E c \in Inspectors : (\E m \in Modules : inspect(c, m)) \/ GiveUp(c) \/ Again(c)
  \/ \E m \in Modules : runInspection(m)

Spec == Init /\ [][Next]_vars

-----------------------------------------------------------------------------
(* The package of every record the catalog holds can be served: whatever other *)
(* installs of the same bytes fail, are cancelled or crash, its directory is   *)
(* there, whole unless it was damaged from outside, and the index, when it     *)
(* speaks of a hash, speaks of a directory that is there.  The one exception   *)
(* is the record whose COMMIT was applied and answered an error without a      *)
(* label: finishAssets then removes what its install had published.            *)
CommittedIsServable ==
  /\ \A i \in records \ unlabelled : (Durable \/ ~closed) => dir[install[i].hash] \in {"whole", "damaged"}
  /\ \A h \in index : dir[h] \in {"whole", "damaged", "torn"}
  /\ \A i \in Installs : install[i].at \in {"metadata", "verify", "put", "swap", "commit", "finish"} => lock[install[i].hash] = i

(* A reader is given the bytes of the package or none, and an inspection is    *)
(* answered for its own module, once per module at a time, from a cache within *)
(* its capacity.                                                               *)
AnswersTrue ==
  /\ \A r \in Readers : reader[r].got \in {Nil, "whole", "notFound"}
  /\ \A c \in Inspectors : insp[c].told \in {Nil, "canceled", Verdict(insp[c].module)}
  /\ Len(entries) <= Capacity /\ Cardinality(Range(entries)) = Len(entries) /\ Range(entries) \cap flights = {}

=============================================================================
