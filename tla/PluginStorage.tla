---------------------------- MODULE PluginStorage ----------------------------
(***************************************************************************)
(* Access to the namespaces of a plugin's data (pkg/plugindata/broker.go,    *)
(* broker_sqlite.go, broker_files_stream.go, kv_batch.go,                    *)
(* namespace_database.go): the locks an access takes, the bounded cache of   *)
(* open databases, the usage cache with its shared loads, the transactions   *)
(* that keep usage within quota, and streamed transfers that hold no lock    *)
(* while bytes move.  Which generation is current is PluginData's business;  *)
(* here it may change whenever no access is inside.                          *)
(***************************************************************************)
EXTENDS Integers, FiniteSets, FiniteSetsExt

CONSTANTS
  Callers,
  Doing,         \* the operations they may ask for
  Kind,          \* namespace -> "files" | "kv" | "sqlite"
  QuotaBytes, QuotaFiles,
  MaxOpen,       \* maxNamespaceDatabaseCacheEntries
  MaxGens,       \* generations the plugin's data goes through
  MaxSize,       \* largest file, value or database
  Nil

VARIABLES
  gen,           \* the generation the binding names
  rows,          \* the entries of a namespace in a generation and their sizes
  used,          \* the usage row kept beside the entries
  cached,        \* FileStore.usage
  flight,        \* FileStore.usageFlights: the load in progress
  dbs,           \* FileStore.namespaceDB
  locks,         \* who holds the lock of a namespace
  streamBytes,   \* staged bytes of a namespace's owner
  call

vars == <<gen, rows, used, cached, flight, dbs, locks, streamBytes, call>>

Namespaces == DOMAIN Kind
Stores == (1..MaxGens) \X Namespaces
Absent == -1
Paths(n) == IF Kind[n] = "kv" THEN {"k"} ELSE IF Kind[n] = "files" THEN {"t", "d", "d/f"} ELSE {"d", "d/db"}
Ops(n) == CASE Kind[n] = "files" -> {"ListFiles", "WriteFile", "DeleteFile", "WriteFileStream", "ReadFileStream"}
            [] Kind[n] = "kv" -> {"GetKV", "ListKV", "PutKV", "DeleteKV", "BatchKV"}
            [] Kind[n] = "sqlite" -> {"QuerySQLite", "ExecSQLite"}
Writes(op) == op \in {"WriteFile", "DeleteFile", "PutKV", "DeleteKV", "BatchKV", "ExecSQLite"}

Usage(entries) ==
  LET present == {p \in DOMAIN entries : entries[p] # Absent} IN
  [bytes |-> MapThenSumSet(LAMBDA p : entries[p], present), files |-> Cardinality(present)]
WithinQuota(u) == u.bytes <= QuotaBytes /\ u.files <= QuotaFiles

Idle == [op |-> Nil, ns |-> Nil, g |-> 0, at |-> "idle", phase |-> 1, first |-> 0, size |-> 0, staged |-> 0,
         woken |-> FALSE, ref |-> FALSE]
NoEntry == [at |-> "none", refs |-> 0]
NoLoad == [at |-> "none", ref |-> FALSE]

Init ==
  /\ gen = 1
  /\ rows = [k \in Stores |-> [p \in Paths(k[2]) |-> Absent]]
  /\ used = [k \in Stores |-> [bytes |-> 0, files |-> 0]]
  /\ cached = [k \in Stores |-> Nil] /\ flight = [k \in Stores |-> NoLoad]
  /\ dbs = [k \in Stores |-> NoEntry] /\ locks = [k \in Stores |-> {}]
  /\ streamBytes = [n \in Namespaces |-> 0]
  /\ call = [c \in Callers |-> Idle]

Key(c) == <<call[c].g, call[c].ns>>
HasDatabase(n) == Kind[n] # "sqlite"
Inside(c) == call[c].at \in {"lock", "db", "opening", "ready", "wake", "usage", "loading", "loadFailed", "use"}
Exclusive(c) == Writes(call[c].op) \/ (call[c].op = "WriteFileStream" /\ call[c].phase = 2)
At(c, step) == call' = [call EXCEPT ![c].at = step]

TypeOK ==
  /\ gen \in 1..MaxGens
  /\ \A k \in Stores : \A p \in DOMAIN rows[k] : rows[k][p] \in Absent..MaxSize
  /\ \A k \in Stores : dbs[k].at \in {"none", "opening", "open", "failed"} /\ locks[k] \subseteq Callers
  /\ \A c \in Callers : call[c].g \in 0..gen

-----------------------------------------------------------------------------
(* The locks of an access. *)

Begin(c, n, op) ==
  /\ call[c].at = "idle"
  /\ \E z \in IF op \in {"WriteFile", "PutKV", "WriteFileStream", "ExecSQLite"} THEN 1..MaxSize ELSE {0} :
       call' = [call EXCEPT ![c] = [Idle EXCEPT !.op = op, !.ns = n, !.g = gen, !.at = "lock", !.size = z]]
  /\ UNCHANGED <<gen, rows, used, cached, flight, dbs, locks, streamBytes>>

withNamespaceAccess(c) ==
  /\ call[c].at = "lock"
  /\ \A d \in locks[Key(c)] : ~Exclusive(c) /\ ~Exclusive(d)
  /\ locks' = [locks EXCEPT ![Key(c)] = @ \cup {c}]
  /\ At(c, IF HasDatabase(call[c].ns) THEN "db" ELSE "usage")
  /\ UNCHANGED <<gen, rows, used, cached, flight, dbs, streamBytes>>

\* Everybody who waits for room in the cache looks again.
signalNamespaceDBWakeLocked(cs) ==
  [d \in Callers |-> IF cs[d].at = "wake" THEN [cs[d] EXCEPT !.woken = TRUE] ELSE cs[d]]

\* Mutant of Released: the last user of a database wakes nobody.
ReleasedQuietly(k, held, cs) ==
  /\ dbs' = IF held THEN [dbs EXCEPT ![k].refs = @ - 1] ELSE dbs
  /\ call' = cs

\* releaseNamespaceDatabase
Released(k, held, cs) ==
  /\ dbs' = IF held THEN [dbs EXCEPT ![k].refs = @ - 1] ELSE dbs
  /\ call' = IF held /\ dbs[k].refs = 1 THEN signalNamespaceDBWakeLocked(cs) ELSE cs

\* An access ends: its database reference, the namespace lock and the plugin lock
\* go; a transfer goes on with its next part, a finished one returns its budget.
\* What the caller is told is left out.
Left(c, now) ==
  /\ Released(Key(c), call[c].ref, [call EXCEPT ![c] = [now EXCEPT !.ref = FALSE, !.woken = FALSE]])
  /\ locks' = [locks EXCEPT ![Key(c)] = @ \ {c}]
Ended(c) ==
  /\ Left(c, Idle)
  /\ streamBytes' = [streamBytes EXCEPT ![call[c].ns] = @ - call[c].staged]

Refused(c) == Ended(c) /\ UNCHANGED <<gen, rows, used, cached, flight>>

-----------------------------------------------------------------------------
(* The cache of open databases. *)

Cached == {k \in Stores : dbs[k].at # "none"}
IdleEntries == {k \in Cached : dbs[k].at # "opening" /\ dbs[k].refs = 0}

\* Mutant of Evictable: an open database may be evicted although it is in use.
EvictableInUse == {k \in Cached : dbs[k].at # "opening"}

Evictable == IdleEntries

acquireNamespaceDatabase(c) ==
  LET k == Key(c) IN
  /\ call[c].at = "db"
  /\ \/ /\ dbs[k].at = "open"
        /\ dbs' = [dbs EXCEPT ![k].refs = @ + 1]
        /\ call' = [call EXCEPT ![c].at = "usage", ![c].ref = TRUE]
        /\ UNCHANGED <<locks, streamBytes>>
     \/ /\ dbs[k].at = "opening" /\ At(c, "ready") /\ UNCHANGED <<dbs, locks, streamBytes>>
     \/ /\ dbs[k].at = "failed"
        /\ dbs' = [dbs EXCEPT ![k] = NoEntry]
        /\ call' = [call EXCEPT ![c] = Idle]
        /\ locks' = [locks EXCEPT ![k] = @ \ {c}]
        /\ streamBytes' = [streamBytes EXCEPT ![call[c].ns] = @ - call[c].staged]
     \/ /\ dbs[k].at = "none" /\ Cardinality(Cached) < MaxOpen
        /\ dbs' = [dbs EXCEPT ![k] = [at |-> "opening", refs |-> 0]]
        /\ At(c, "opening") /\ UNCHANGED <<locks, streamBytes>>
     \/ /\ dbs[k].at = "none" /\ Cardinality(Cached) >= MaxOpen
        /\ \E e \in Evictable :
             dbs' = [dbs EXCEPT ![e] = NoEntry, ![k] = [at |-> "opening", refs |-> 0]]
        /\ At(c, "opening") /\ UNCHANGED <<locks, streamBytes>>
     \/ /\ dbs[k].at = "none" /\ Cardinality(Cached) >= MaxOpen /\ Evictable = {}
        /\ call' = [call EXCEPT ![c].at = "wake", ![c].woken = FALSE]
        /\ UNCHANGED <<dbs, locks, streamBytes>>
  /\ UNCHANGED <<gen, rows, used, cached, flight>>

\* The database is opened and migrated in the caller's own context, so a failure
\* that is stored for the others may be the caller's cancellation.
openNamespaceDatabase(c) ==
  /\ call[c].at = "opening"
  /\ \/ /\ dbs' = [dbs EXCEPT ![Key(c)] = [at |-> "open", refs |-> 1]]
        /\ call' = signalNamespaceDBWakeLocked([call EXCEPT ![c].at = "usage", ![c].ref = TRUE])
        /\ UNCHANGED <<locks, streamBytes>>
     \/ /\ dbs' = [dbs EXCEPT ![Key(c)] = [at |-> "failed", refs |-> 0]]
        /\ call' = signalNamespaceDBWakeLocked([call EXCEPT ![c] = Idle])
        /\ locks' = [locks EXCEPT ![Key(c)] = @ \ {c}]
        /\ streamBytes' = [streamBytes EXCEPT ![call[c].ns] = @ - call[c].staged]
  /\ UNCHANGED <<gen, rows, used, cached, flight>>

Opened(c) ==
  /\ call[c].at = "ready" /\ dbs[Key(c)].at # "opening"
  /\ IF dbs[Key(c)].at = "failed" THEN Refused(c)
     ELSE At(c, "db") /\ UNCHANGED <<gen, rows, used, cached, flight, dbs, locks, streamBytes>>

Woken(c) ==
  /\ call[c].at = "wake" /\ call[c].woken
  /\ At(c, "db") /\ UNCHANGED <<gen, rows, used, cached, flight, dbs, locks, streamBytes>>

\* The request's context ends while it waits for others.
Canceled(c) == call[c].at \in {"ready", "wake", "loading"} /\ Refused(c)

-----------------------------------------------------------------------------
(* The usage cache. *)

cachedNamespaceUsage(c) ==
  LET k == Key(c) IN
  /\ call[c].at = "usage"
  /\ IF cached[k] # Nil /\ ~WithinQuota(cached[k]) THEN Refused(c)
     ELSE /\ At(c, IF cached[k] # Nil THEN "use" ELSE "loading")
          /\ IF cached[k] = Nil /\ flight[k].at = "none"
             THEN /\ flight' = [flight EXCEPT ![k] = [at |-> "running", ref |-> call[c].ref]]
                  /\ dbs' = IF call[c].ref THEN [dbs EXCEPT ![k].refs = @ + 1] ELSE dbs
             ELSE UNCHANGED <<flight, dbs>>
          /\ UNCHANGED <<gen, rows, used, cached, locks, streamBytes>>

\* The load runs in the store's own context and outlives the caller who began
\* it.  Its waiters see its result; the database goes back first.
runNamespaceUsageFlight(k) ==
  LET waiters == {c \in Callers : call[c].at = "loading" /\ Key(c) = k} IN
  /\ flight[k].at = "running"
  /\ flight' = [flight EXCEPT ![k] = NoLoad]
  /\ \E ok \in BOOLEAN :
       /\ cached' = [cached EXCEPT ![k] = IF ~ok \/ @ # Nil THEN @
                                          ELSE IF HasDatabase(k[2]) THEN used[k] ELSE Usage(rows[k])]
       /\ Released(k, flight[k].ref,
            [c \in Callers |-> IF c \in waiters THEN [call[c] EXCEPT !.at = IF ok THEN "usage" ELSE "loadFailed"] ELSE call[c]])
  /\ UNCHANGED <<gen, rows, used, locks, streamBytes>>

LoadFailed(c) == call[c].at = "loadFailed" /\ Refused(c)

-----------------------------------------------------------------------------
(* What an access does. *)

Done(c, k, entries, usage, cache) ==
  /\ rows' = [rows EXCEPT ![k] = entries] /\ used' = [used EXCEPT ![k] = usage]
  /\ cached' = [cached EXCEPT ![k] = cache]
  /\ Ended(c) /\ UNCHANGED <<gen, flight>>

\* One transaction writes the entries and the usage row; when its commit reports
\* an error nobody knows whether it took place, and the usage is read again.
Commit(c, projected, entries) ==
  LET k == Key(c) IN
  IF ~WithinQuota(projected) THEN Refused(c)
  ELSE \/ Done(c, k, entries, projected, projected)
       \/ Done(c, k, entries, projected, Nil)
       \/ Done(c, k, rows[k], used[k], Nil)
       \/ Refused(c)

Directories(entries, p) == IF p = "d/f" /\ entries["d"] = Absent THEN 1 ELSE 0
Size(entries, p) == IF entries[p] = Absent THEN 0 ELSE entries[p]
Made(entries, p, z) ==
  [q \in DOMAIN entries |-> IF q = p THEN z ELSE IF q = "d" /\ p = "d/f" THEN 0 ELSE entries[q]]

\* Mutant of Projected: the directories a write creates are not counted.
ProjectedFlat(k, p, z) ==
  [bytes |-> used[k].bytes - Size(rows[k], p) + z,
   files |-> used[k].files + (IF rows[k][p] = Absent THEN 1 ELSE 0)]

Projected(k, p, z) ==
  [bytes |-> used[k].bytes - Size(rows[k], p) + z,
   files |-> used[k].files + Directories(rows[k], p) + (IF rows[k][p] = Absent THEN 1 ELSE 0)]

WriteFile(c) ==
  LET k == Key(c) IN
  /\ call[c].at = "use" /\ call[c].op = "WriteFile"
  /\ \E p \in {"t", "d/f"} : Commit(c, Projected(k, p, call[c].size), Made(rows[k], p, call[c].size))

DeleteFile(c) ==
  LET k == Key(c) IN
  /\ call[c].at = "use" /\ call[c].op = "DeleteFile"
  /\ \E p \in Paths(call[c].ns), recursive \in BOOLEAN :
       IF rows[k][p] = Absent THEN Refused(c)
       ELSE IF p = "d" /\ ~recursive THEN Refused(c)
       ELSE LET gone == {q \in Paths(call[c].ns) : q = p \/ (p = "d" /\ q = "d/f")}
                removed == Usage([q \in gone |-> rows[k][q]])
            IN Commit(c, [bytes |-> used[k].bytes - removed.bytes, files |-> used[k].files - removed.files],
                      [q \in Paths(call[c].ns) |-> IF q \in gone THEN Absent ELSE rows[k][q]])

\* The expected value, when given, is compared inside the transaction.
PutKV(c) ==
  LET k == Key(c) IN
  /\ call[c].at = "use" /\ call[c].op = "PutKV"
  /\ \E expected \in {Nil} \cup Absent..MaxSize :
       IF expected # Nil /\ expected # rows[k]["k"] THEN Refused(c)
       ELSE Commit(c, Projected(k, "k", call[c].size), Made(rows[k], "k", call[c].size))

DeleteKV(c) ==
  LET k == Key(c) IN
  /\ call[c].at = "use" /\ call[c].op = "DeleteKV"
  /\ \E expected \in {Nil} \cup Absent..MaxSize :
       IF expected # Nil /\ expected # rows[k]["k"] THEN Refused(c)
       ELSE IF rows[k]["k"] = Absent THEN Refused(c)
       ELSE Commit(c, [bytes |-> used[k].bytes - rows[k]["k"], files |-> used[k].files - 1], Made(rows[k], "k", Absent))

\* Every mutation is checked against the entry it finds; the first that does not
\* match ends the batch, and nothing is stored unless the whole fits.
BatchKV(c) ==
  LET k == Key(c) IN
  /\ call[c].at = "use" /\ call[c].op = "BatchKV"
  /\ \E keys \in SUBSET Paths(call[c].ns) \ {{}} :
     \E new \in [keys -> Absent..MaxSize], expected \in [keys -> {Nil} \cup Absent..MaxSize] :
       IF \E q \in keys : expected[q] # Nil /\ expected[q] # rows[k][q] THEN Refused(c)
       ELSE LET old == Usage([q \in keys |-> rows[k][q]])  put == Usage(new) IN
            Commit(c, [bytes |-> used[k].bytes - old.bytes + put.bytes, files |-> used[k].files - old.files + put.files],
                   [q \in Paths(call[c].ns) |-> IF q \in keys THEN new[q] ELSE rows[k][q]])

Reading(c, op) == call[c].at = "use" /\ call[c].op = op /\ Refused(c)

ListFiles(c) == Reading(c, "ListFiles")
GetKV(c) == Reading(c, "GetKV")
ListKV(c) == Reading(c, "ListKV")
QuerySQLite(c) == Reading(c, "QuerySQLite")

\* A transaction on a database file of its own.  The directory and the file are
\* there before anything is known to succeed; a failure leaves them uncounted.
ExecSQLite(c) ==
  LET k == Key(c)
      file == rows[k]["d/db"]
      dir == [rows[k] EXCEPT !["d"] = 0]
      missing == IF rows[k]["d"] = Absent THEN 1 ELSE 0
      other == [bytes |-> cached[k].bytes - Size(rows[k], "d/db"), files |-> cached[k].files - (IF file = Absent THEN 0 ELSE 1)]
      after(z) == [dir EXCEPT !["d/db"] = z]
      projected(z) == [bytes |-> other.bytes + z, files |-> other.files + missing + 1]
  IN
  /\ call[c].at = "use" /\ call[c].op = "ExecSQLite"
  /\ IF other.bytes < 0 \/ other.files < 0 THEN Done(c, k, dir, used[k], cached[k])
     ELSE IF other.bytes >= QuotaBytes \/ other.files + missing + 1 > QuotaFiles
     THEN Done(c, k, dir, used[k], cached[k])
     ELSE \/ Done(c, k, after(Size(rows[k], "d/db")), used[k], cached[k])
          \/ /\ call[c].size >= Size(rows[k], "d/db") /\ call[c].size <= QuotaBytes - other.bytes
             /\ \/ Done(c, k, after(call[c].size), used[k], projected(call[c].size))
                \/ Done(c, k, after(call[c].size), used[k], Nil)
                \/ Done(c, k, after(call[c].size), used[k], cached[k])

\* A transfer looks at the namespace first and remembers its generation.
StreamBegins(c) ==
  /\ call[c].at = "use" /\ call[c].op \in {"WriteFileStream", "ReadFileStream"} /\ call[c].phase = 1
  /\ Left(c, [call[c] EXCEPT !.at = IF call[c].op = "WriteFileStream" THEN "stage" ELSE "again",
                             !.phase = 2, !.first = call[c].g])
  /\ UNCHANGED <<gen, rows, used, cached, flight, streamBytes>>

\* namespaceStageWriter: staged bytes share a budget of two quotas.
Staged(c, bytes, now) ==
  IF bytes > 2 * QuotaBytes - streamBytes[call[c].ns] THEN Refused(c)
  ELSE /\ streamBytes' = [streamBytes EXCEPT ![call[c].ns] = @ + bytes]
       /\ Left(c, [now EXCEPT !.staged = @ + bytes]) /\ UNCHANGED <<gen, rows, used, cached, flight>>

Upload(c) ==
  /\ call[c].at = "stage"
  /\ IF call[c].staged = call[c].size
     THEN At(c, "again") /\ UNCHANGED <<gen, rows, used, cached, flight, dbs, locks, streamBytes>>
     ELSE \/ call[c].staged < QuotaBytes /\ Staged(c, 1, call[c])
          \/ Refused(c)

\* The second access of a transfer; the generation may be another one by now.
Again(c) ==
  /\ call[c].at = "again"
  /\ call' = [call EXCEPT ![c].at = "lock", ![c].g = gen]
  /\ UNCHANGED <<gen, rows, used, cached, flight, dbs, locks, streamBytes>>

WriteFileStream(c) ==
  LET k == Key(c) IN
  /\ call[c].at = "use" /\ call[c].op = "WriteFileStream" /\ call[c].phase = 2
  /\ IF call[c].g # call[c].first THEN Refused(c)
     ELSE Commit(c, Projected(k, "t", call[c].staged), Made(rows[k], "t", call[c].staged))

\* A download is copied to the stage under the lock and sent without it.
readFileTo(c) ==
  /\ call[c].at = "use" /\ call[c].op = "ReadFileStream" /\ call[c].phase = 2
  /\ IF rows[Key(c)]["t"] = Absent THEN Refused(c)
     ELSE Staged(c, rows[Key(c)]["t"], [call[c] EXCEPT !.at = "copy"])

ReadFileStream(c) == call[c].at = "copy" /\ Refused(c)

-----------------------------------------------------------------------------
(* The store. *)

\* An export, an upgrade or an import holds the plugin's lock exclusively and
\* closes the generation's databases that are idle; it fails, and goes no further,
\* when a load still uses one.
Busy(k) == dbs[k].at = "opening" \/ dbs[k].refs # 0
InUse(g) == \E k \in Stores : k[1] = g /\ (flight[k].at # "none" \/ Busy(k))

closeNamespaceDatabases(g) ==
  /\ \A c \in Callers : ~Inside(c)
  /\ dbs' = [k \in Stores |-> IF k[1] = g /\ ~Busy(k) THEN NoEntry ELSE dbs[k]]
  /\ call' = signalNamespaceDBWakeLocked(call)

Snapshot == closeNamespaceDatabases(gen) /\ UNCHANGED <<gen, rows, used, cached, flight, locks, streamBytes>>

Switch ==
  /\ gen < MaxGens /\ ~InUse(gen) /\ closeNamespaceDatabases(gen) /\ gen' = gen + 1
  /\ rows' = [k \in Stores |-> IF k[1] = gen + 1 THEN rows[<<gen, k[2]>>] ELSE rows[k]]
  /\ used' = [k \in Stores |-> IF k[1] = gen + 1 THEN used[<<gen, k[2]>>] ELSE used[k]]
  /\ cached' = [k \in Stores |-> IF k[1] = gen THEN Nil ELSE cached[k]]
  /\ UNCHANGED <<flight, locks, streamBytes>>

Access(c) ==
  \/ withNamespaceAccess(c) \/ acquireNamespaceDatabase(c) \/ openNamespaceDatabase(c) \/ Opened(c) \/ Woken(c)
  \/ Canceled(c) \/ cachedNamespaceUsage(c) \/ LoadFailed(c) \/ WriteFile(c) \/ DeleteFile(c) \/ PutKV(c) \/ DeleteKV(c)
  \/ BatchKV(c) \/ ListFiles(c) \/ GetKV(c) \/ ListKV(c) \/ QuerySQLite(c) \/ ExecSQLite(c) \/ StreamBegins(c) \/ Upload(c) \/ Again(c) \/ WriteFileStream(c) \/ readFileTo(c) \/ ReadFileStream(c)

Next ==
  \/ \E c \in Callers : Access(c) \/ \E n \in Namespaces : \E op \in Ops(n) \cap Doing : Begin(c, n, op)
  \/ \E k \in Stores : runNamespaceUsageFlight(k)
  \/ Snapshot \/ Switch

Spec == Init /\ [][Next]_vars

-----------------------------------------------------------------------------
(* Nobody works on a closed database: an access past acquireNamespaceDatabase  *)
(* and a usage load that outlived its caller find theirs open, and the         *)
(* references of an entry are exactly its users.  Whoever waits for room in    *)
(* the cache has been woken, or every entry is being opened or in use.         *)
DatabasesHeld ==
  /\ \A k \in Stores :
       LET users == {c \in Callers : call[c].ref /\ Key(c) = k} IN
       /\ dbs[k].refs = Cardinality(users) + (IF flight[k].ref THEN 1 ELSE 0)
       /\ users # {} \/ flight[k].ref => dbs[k].at = "open"
  /\ \A c \in Callers : call[c].at = "wake" => call[c].woken \/ (Cardinality(Cached) >= MaxOpen /\ IdleEntries = {})

(* The usage row is the sum of the entries and within quota after any sequence *)
(* of writes, deletions, streamed uploads and commits of unknown outcome, and  *)
(* a cached usage is the stored one.  For databases of their own the cache may *)
(* lag behind the disk after a failure but never runs ahead of it.             *)
UsageTrue ==
  \A k \in Stores :
    IF HasDatabase(k[2])
    THEN used[k] = Usage(rows[k]) /\ WithinQuota(used[k]) /\ cached[k] \in {Nil, used[k]}
    ELSE cached[k] # Nil => /\ cached[k].bytes <= Usage(rows[k]).bytes
                            /\ cached[k].files <= Usage(rows[k]).files

(* The staging budget counts exactly the bytes of transfers in progress        *)
(* (namespaceStageWriter), however they end.                                   *)
BudgetExact ==
  \A n \in Namespaces :
    /\ streamBytes[n] = MapThenSumSet(LAMBDA c : call[c].staged, {c \in Callers : call[c].ns = n})
    /\ streamBytes[n] <= 2 * QuotaBytes

=============================================================================
