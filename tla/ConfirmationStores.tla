------------------------- MODULE ConfirmationStores -------------------------
(***************************************************************************)
(* The three stores of pending confirmation intents behind the one          *)
(* interface ConfirmationIntentStore: the memory store, which keeps counters *)
(* and indices beside its records, the stand-alone SQLite store and the view *)
(* of the Host's control database, which count rows inside a transaction.    *)
(* Every request is put to all three.  A store call is one step: the memory  *)
(* and the SQLite store hold their mutex, the view one transaction.          *)
(***************************************************************************)
EXTENDS Integers, FiniteSets, Functions

CONSTANTS
  IDs, Plugins, Scopes, Envs, Operations, Revisions,
  OwnerEnv,               \* the environment of a session scope
  MaxTotal, MaxPerOwnerPlugin, MaxPerSession, MaxSessionRevocations,
  MaxTime                 \* the clock's bound

VARIABLES now, mem, sqlite, control,
          told     \* what the stores answered to the last request

vars == <<now, mem, sqlite, control, told>>

\* What of an intent the stores look at; rev stands for the surface, channel,
\* fingerprint and revisions that a rejection has to repeat.
Intent == [id : IDs, plugin : Plugins, scope : Scopes, rev : Revisions, expires : 1..MaxTime + 1]
OwnerPlugin == Envs \X Plugins
OwnerPluginOf(r) == <<OwnerEnv[r.scope], r.plugin>>
Fresh(records) == {r \in records : r.expires > now}
WithID(records, id) == {r \in records : r.id = id}

NewMemory ==
  [records |-> {}, pluginCount |-> [k \in OwnerPlugin |-> 0], pluginIndex |-> [k \in OwnerPlugin |-> {}],
   sessionCount |-> [s \in Scopes |-> 0], sessionIndex |-> [s \in Scopes |-> {}],
   revocations |-> <<>>]
NewRows == [records |-> {}, revocations |-> <<>>]

(* The memory store. *)

addRecord(m, r) ==
  [m EXCEPT !.records = @ \cup {r},
            !.pluginCount[OwnerPluginOf(r)] = @ + 1, !.pluginIndex[OwnerPluginOf(r)] = @ \cup {r.id},
            !.sessionCount[r.scope] = @ + 1, !.sessionIndex[r.scope] = @ \cup {r.id}]

\* Mutant of removeRecords: the session's counter is forgotten.
removeRecordsUncounted(m, rs) ==
  [m EXCEPT !.records = @ \ rs,
            !.pluginCount = [k \in OwnerPlugin |-> @[k] - Cardinality({r \in rs : OwnerPluginOf(r) = k})],
            !.pluginIndex = [k \in OwnerPlugin |-> @[k] \ {r.id : r \in {x \in rs : OwnerPluginOf(x) = k}}],
            !.sessionIndex = [s \in Scopes |-> @[s] \ {r.id : r \in {x \in rs : x.scope = s}}]]

\* The removal of several records one after the other.
removeRecords(m, rs) ==
  [m EXCEPT !.records = @ \ rs,
            !.pluginCount = [k \in OwnerPlugin |-> @[k] - Cardinality({r \in rs : OwnerPluginOf(r) = k})],
            !.pluginIndex = [k \in OwnerPlugin |-> @[k] \ {r.id : r \in {x \in rs : OwnerPluginOf(x) = k}}],
            !.sessionCount = [s \in Scopes |-> @[s] - Cardinality({r \in rs : r.scope = s})],
            !.sessionIndex = [s \in Scopes |-> @[s] \ {r.id : r \in {x \in rs : x.scope = s}}]]

deleteExpired(m) == removeRecords(m, m.records \ Fresh(m.records))

Result(store, answer) == [store |-> store, answer |-> answer]
Says(what) == [kind |-> what, handed |-> {}, count |-> 0]
Hands(r) == [kind |-> "intent", handed |-> {r}, count |-> 0]
Counts(rs) == [kind |-> "count", handed |-> {}, count |-> Cardinality(rs)]
Recounts(n) == [kind |-> "count", handed |-> {}, count |-> n]

MemoryPut(r) ==
  LET m == deleteExpired(mem) IN
  IF WithID(m.records, r.id) # {} THEN Result(m, Says("invalid"))
  ELSE IF \/ Cardinality(m.records) >= MaxTotal
          \/ m.pluginCount[OwnerPluginOf(r)] >= MaxPerOwnerPlugin
          \/ m.sessionCount[r.scope] >= MaxPerSession
  THEN Result(m, Says("capacity"))
  ELSE Result(addRecord(m, r), Hands(r))

MemoryConsume(id, scope) ==
  LET found == WithID(mem.records, id) IN
  IF found = {} THEN Result(mem, Says("notFound"))
  ELSE LET r == CHOOSE x \in found : TRUE IN
       IF r.scope # scope THEN Result(mem, Says("mismatch"))
       ELSE Result(removeRecords(mem, {r}), IF r.expires > now THEN Hands(r) ELSE Says("expired"))

\* A rejection meets the expiry before the comparison of scopes.
MemoryReject(id, scope, plugin, rev) ==
  LET found == WithID(mem.records, id) IN
  IF found = {} THEN Result(mem, Says("notFound"))
  ELSE LET r == CHOOSE x \in found : TRUE IN
       IF r.expires <= now THEN Result(removeRecords(mem, {r}), Says("expired"))
       ELSE IF <<r.scope, r.plugin, r.rev>> # <<scope, plugin, rev>> THEN Result(mem, Says("mismatch"))
       ELSE Result(removeRecords(mem, {r}), Hands(r))

MemoryRevokePlugin(env, plugin) ==
  LET gone == {r \in mem.records : r.id \in mem.pluginIndex[<<env, plugin>>]}
  IN  Result(removeRecords(mem, gone), Counts(gone))

\* Idempotent for one teardown operation: the first count is answered again.
MemoryRevokeSession(scope, op) ==
  LET key == <<scope, op>>
      gone == {r \in mem.records : r.id \in mem.sessionIndex[scope]} IN
  IF key \in DOMAIN mem.revocations THEN Result(mem, Recounts(mem.revocations[key]))
  ELSE IF Cardinality(DOMAIN mem.revocations) >= MaxSessionRevocations THEN Result(mem, Says("capacity"))
  ELSE Result([removeRecords(mem, gone) EXCEPT
                 !.revocations = [k \in DOMAIN mem.revocations \cup {key} |->
                                    IF k = key THEN Cardinality(gone) ELSE mem.revocations[k]]],
              Counts(gone))

MemoryFinalize(scope, op) ==
  Result([mem EXCEPT !.revocations = Restrict(@, DOMAIN @ \ {<<scope, op>>})], Says("done"))

(* The SQLite store: a refusal rolls the whole transaction back, the deletion *)
(* of expired rows included.                                                  *)

SQLitePut(r) ==
  LET rows == Fresh(sqlite.records) IN
  IF WithID(rows, r.id) # {} THEN Result(sqlite, Says("invalid"))
  ELSE IF \/ Cardinality(rows) >= MaxTotal
          \/ Cardinality({x \in rows : OwnerPluginOf(x) = OwnerPluginOf(r)}) >= MaxPerOwnerPlugin
          \/ Cardinality({x \in rows : x.scope = r.scope}) >= MaxPerSession
  THEN Result(sqlite, Says("capacity"))
  ELSE Result([sqlite EXCEPT !.records = rows \cup {r}], Hands(r))

SQLiteConsume(id, scope) ==
  LET found == WithID(sqlite.records, id) IN
  IF found = {} THEN Result(sqlite, Says("notFound"))
  ELSE LET r == CHOOSE x \in found : TRUE IN
       IF r.scope # scope THEN Result(sqlite, Says("mismatch"))
       ELSE Result([sqlite EXCEPT !.records = @ \ {r}], IF r.expires > now THEN Hands(r) ELSE Says("expired"))

SQLiteReject(id, scope, plugin, rev) ==
  LET found == WithID(sqlite.records, id) IN
  IF found = {} THEN Result(sqlite, Says("notFound"))
  ELSE LET r == CHOOSE x \in found : TRUE IN
       IF r.expires <= now THEN Result([sqlite EXCEPT !.records = @ \ {r}], Says("expired"))
       ELSE IF <<r.scope, r.plugin, r.rev>> # <<scope, plugin, rev>> THEN Result(sqlite, Says("mismatch"))
       ELSE Result([sqlite EXCEPT !.records = @ \ {r}], Hands(r))

SQLiteRevokePlugin(env, plugin) ==
  LET gone == {r \in sqlite.records : OwnerPluginOf(r) = <<env, plugin>>}
  IN  Result([sqlite EXCEPT !.records = @ \ gone], Counts(gone))

SQLiteRevokeSession(scope, op) ==
  LET key == <<scope, op>>
      gone == {r \in sqlite.records : r.scope = scope} IN
  IF key \in DOMAIN sqlite.revocations THEN Result(sqlite, Recounts(sqlite.revocations[key]))
  ELSE IF Cardinality(DOMAIN sqlite.revocations) >= MaxSessionRevocations THEN Result(sqlite, Says("capacity"))
  ELSE Result([records |-> sqlite.records \ gone,
               revocations |-> [k \in DOMAIN sqlite.revocations \cup {key} |->
                                  IF k = key THEN Cardinality(gone) ELSE sqlite.revocations[k]]],
              Counts(gone))

SQLiteFinalize(scope, op) ==
  Result([sqlite EXCEPT !.revocations = Restrict(@, DOMAIN @ \ {<<scope, op>>})], Says("done"))

(* The view of the control database: the limits are tried one after the       *)
(* other, each against a count of its own; a row is always pending, since it   *)
(* is deleted when it is settled.                                              *)

ControlPut(r) ==
  LET rows == Fresh(control.records)
      counts == <<rows, {x \in rows : OwnerPluginOf(x) = OwnerPluginOf(r)}, {x \in rows : x.scope = r.scope}>>
      limits == <<MaxTotal, MaxPerOwnerPlugin, MaxPerSession>> IN
  IF WithID(rows, r.id) # {} THEN Result(control, Says("invalid"))
  ELSE IF \E i \in 1..3 : Cardinality(counts[i]) >= limits[i] THEN Result(control, Says("capacity"))
  ELSE Result([control EXCEPT !.records = rows \cup {r}], Hands(r))

ControlConsume(id, scope) ==
  LET found == WithID(control.records, id)
      settled == {r \in found : r.scope = scope} IN
  Result([control EXCEPT !.records = @ \ settled],
         IF found = {} THEN Says("notFound") ELSE IF settled = {} THEN Says("mismatch")
         ELSE IF Fresh(settled) = {} THEN Says("expired") ELSE Hands(CHOOSE r \in settled : TRUE))

ControlReject(id, scope, plugin, rev) ==
  LET found == WithID(control.records, id)
      settled == {r \in found : r.expires <= now \/ <<r.scope, r.plugin, r.rev>> = <<scope, plugin, rev>>} IN
  Result([control EXCEPT !.records = @ \ settled],
         IF found = {} THEN Says("notFound") ELSE IF settled = {} THEN Says("mismatch")
         ELSE IF Fresh(settled) = {} THEN Says("expired") ELSE Hands(CHOOSE r \in settled : TRUE))

ControlRevokePlugin(env, plugin) ==
  LET gone == {r \in control.records : OwnerEnv[r.scope] = env /\ r.plugin = plugin}
  IN  Result([control EXCEPT !.records = @ \ gone], Counts(gone))

ControlRevokeSession(scope, op) ==
  LET key == <<scope, op>>
      gone == {r \in control.records : r.scope = scope} IN
  IF key \in DOMAIN control.revocations THEN Result(control, Recounts(control.revocations[key]))
  ELSE IF Cardinality(DOMAIN control.revocations) >= MaxSessionRevocations THEN Result(control, Says("capacity"))
  ELSE Result([records |-> control.records \ gone,
               revocations |-> [k \in DOMAIN control.revocations \cup {key} |->
                                  IF k = key THEN Cardinality(gone) ELSE control.revocations[k]]],
              Counts(gone))

ControlFinalize(scope, op) ==
  Result([control EXCEPT !.revocations = Restrict(@, DOMAIN @ \ {<<scope, op>>})], Says("done"))

(* Requests. *)

Init ==
  /\ now = 0 /\ mem = NewMemory /\ sqlite = NewRows /\ control = NewRows
  /\ told = <<Says("none"), Says("none"), Says("none")>>

Apply(m, s, c) ==
  /\ mem' = m.store /\ sqlite' = s.store /\ control' = c.store
  /\ told' = <<m.answer, s.answer, c.answer>>
  /\ UNCHANGED now

\* An intent that has expired already is refused before any store is touched.
Put(r) == r.expires > now /\ Apply(MemoryPut(r), SQLitePut(r), ControlPut(r))
Consume(id, scope) == Apply(MemoryConsume(id, scope), SQLiteConsume(id, scope), ControlConsume(id, scope))
Reject(id, scope, plugin, rev) ==
  Apply(MemoryReject(id, scope, plugin, rev), SQLiteReject(id, scope, plugin, rev), ControlReject(id, scope, plugin, rev))
RevokePlugin(env, plugin) ==
  Apply(MemoryRevokePlugin(env, plugin), SQLiteRevokePlugin(env, plugin), ControlRevokePlugin(env, plugin))
RevokeSession(scope, op) ==
  Apply(MemoryRevokeSession(scope, op), SQLiteRevokeSession(scope, op), ControlRevokeSession(scope, op))
Finalize(scope, op) ==
  Apply(MemoryFinalize(scope, op), SQLiteFinalize(scope, op), ControlFinalize(scope, op))
Tick == now < MaxTime /\ now' = now + 1 /\ UNCHANGED <<mem, sqlite, control, told>>

Next ==
  \/ \E r \in Intent : Put(r)
  \/ \E id \in IDs, scope \in Scopes :
       \/ Consume(id, scope)
       \/ \E plugin \in Plugins, rev \in Revisions : Reject(id, scope, plugin, rev)
  \/ \E env \in Envs, plugin \in Plugins : RevokePlugin(env, plugin)
  \/ \E scope \in Scopes, op \in Operations : RevokeSession(scope, op) \/ Finalize(scope, op)
  \/ Tick

Spec == Init /\ [][Next]_vars

\* Counters and indices of the memory store are exactly those of its records,
\* and each ID has at most one record (addRecordLocked, removeRecordLocked).
CountersExact ==
  /\ \A k \in OwnerPlugin : LET rs == {r \in mem.records : OwnerPluginOf(r) = k} IN
       mem.pluginCount[k] = Cardinality(rs) /\ mem.pluginIndex[k] = {r.id : r \in rs}
  /\ \A s \in Scopes : LET rs == {r \in mem.records : r.scope = s} IN
       mem.sessionCount[s] = Cardinality(rs) /\ mem.sessionIndex[s] = {r.id : r \in rs}
  /\ \A r, x \in mem.records : r.id = x.id => r = x

\* Whichever store a Host is given, the same requests leave the same unexpired
\* intents and are answered alike: an intent is handed out by all or by none,
\* and the answers differ at most in calling a lapsed intent expired or unknown
\* and in counting lapsed intents that one of them had not yet deleted.
StoresAgree ==
  LET lapsed == {"notFound", "expired", "mismatch"} IN
  /\ Fresh(mem.records) = Fresh(sqlite.records)
  /\ sqlite = control /\ told[2] = told[3]
  /\ mem.records \subseteq sqlite.records
  /\ DOMAIN mem.revocations = DOMAIN sqlite.revocations
  /\ \/ told[1] = told[2]
     \/ {told[1].kind, told[2].kind} \subseteq lapsed
     \/ told[1].kind = "count" /\ told[2].kind = "count" /\ told[1].count <= told[2].count
=============================================================================
