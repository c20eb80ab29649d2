---------------------------- MODULE AuditJournal ----------------------------
(***************************************************************************)
(* The security audit journal and its exporter (pkg/observability, driven  *)
(* by pkg/host/security_audit.go).  A pending record is written before a   *)
(* mutation, completed with its outcome after it, delivered to the sink by *)
(* an exporter that marks what the sink acknowledged, and only evicted     *)
(* once it is marked.  Every step between those can fail or be the last of *)
(* its process.                                                            *)
(*                                                                         *)
(* The SQLite journal and the fixed ring of the memory journal are put to  *)
(* the same calls until the first restart; the sink is the retained tail   *)
(* of audit events that both stores keep, and drops an event id it holds.  *)
(***************************************************************************)
EXTENDS Integers, Sequences, FiniteSets, SequencesExt, TLC

CONSTANTS MaxEntries,     \* capacity of the journal and of the sink
          MaxSeq          \* bound: records begun in a behaviour

VARIABLES table,      \* the journal's rows in sequence order
          ring,       \* the memory journal: its slots and count, or Lost
          seq,        \* plugin_security_audit_meta.seq
          open,       \* ids whose mutation is still to complete them
          exporter,   \* the export in hand: its stage and the records listed
          sink,       \* the audit events the sink retains, oldest first
          appended,   \* history: every event the sink ever appended
          ended,      \* history: the outcome each id was completed with
          up          \* the Host is open

vars == <<table, ring, seq, open, exporter, sink, appended, ended, up>>

Outcomes == {"committed", "not_committed", "unknown"}

IDs == 1..MaxSeq

Record(id) == [id |-> id, state |-> "pending", outcome |-> "none", exported |-> FALSE]

Empty == [id |-> 0, state |-> "none", outcome |-> "none", exported |-> FALSE]

Lost == [lost |-> TRUE, count |-> 0, entries |-> << >>]

NoExport == [stage |-> "idle", todo |-> << >>]

TypeOK ==
  /\ seq \in 0..MaxSeq /\ open \subseteq IDs /\ up \in BOOLEAN
  /\ Len(table) <= MaxEntries /\ Len(sink) <= MaxEntries
  /\ exporter.stage \in {"idle", "append", "mark"}

Init ==
  /\ table = << >> /\ seq = 0 /\ open = {} /\ exporter = NoExport /\ sink = << >>
  /\ ring = [lost |-> FALSE, count |-> 0, entries |-> [i \in 0..(MaxEntries - 1) |-> Empty]]
  /\ appended = << >> /\ ended = [id \in IDs |-> "none"] /\ up = TRUE

-----------------------------------------------------------------------------
(* The memory journal.                                                     *)

removeLocked(r, logical) ==
  [r EXCEPT !.count = @ - 1,
            !.entries = [i \in DOMAIN @ |->
               IF i >= logical /\ i < r.count - 1 THEN @[i + 1]
               ELSE IF i = r.count - 1 THEN Empty ELSE @[i]]]

Exported(r) == {i \in 0..(r.count - 1) : r.entries[i].exported}

Least(S) == CHOOSE i \in S : \A j \in S : i <= j

MemoryBegin(r, id) ==
  LET free == IF r.count < MaxEntries THEN r ELSE removeLocked(r, Least(Exported(r)))
  IN [free EXCEPT !.entries[free.count] = Record(id), !.count = @ + 1]

MemoryUpdate(r, id, fields) ==
  [r EXCEPT !.entries = [i \in DOMAIN @ |-> IF i < r.count /\ @[i].id = id THEN fields @@ @[i] ELSE @[i]]]

MemoryRecords(r) == [i \in 1..r.count |-> r.entries[i - 1]]

-----------------------------------------------------------------------------
(* The SQLite journal.                                                     *)

reserveAnyCapacity(rows) ==
  IF Len(rows) < MaxEntries THEN rows ELSE Tail(rows)

\* The oldest exported rows go until the new one fits; without one, Begin fails.
reserveSQLiteSecurityAuditCapacity(rows) ==
  LET free == {i \in DOMAIN rows : rows[i].exported}
  IN IF Len(rows) < MaxEntries THEN rows ELSE RemoveAt(rows, Least(free))

HasRoom(rows) == Len(rows) < MaxEntries \/ \E i \in DOMAIN rows : rows[i].exported

UpdateRow(rows, id, fields) ==
  [i \in DOMAIN rows |-> IF rows[i].id = id THEN fields @@ rows[i] ELSE rows[i]]

Has(rows, id, state) == \E i \in DOMAIN rows : rows[i].id = id /\ rows[i].state = state

BothUpdate(id, fields) ==
  /\ table' = UpdateRow(table, id, fields)
  /\ ring' = IF ring.lost THEN ring ELSE MemoryUpdate(ring, id, fields)

\* beginSecurityMutation: refused when every record is still to be delivered.
BeginSecurityAudit ==
  /\ up /\ seq < MaxSeq /\ HasRoom(table)
  /\ seq' = seq + 1
  /\ table' = Append(reserveSQLiteSecurityAuditCapacity(table), Record(seq + 1))
  /\ ring' = IF ring.lost THEN ring ELSE MemoryBegin(ring, seq + 1)
  /\ open' = open \union {seq + 1}
  /\ UNCHANGED <<exporter, sink, appended, ended, up>>

\* Completed once with the mutation's outcome; the write can fail, and then the
\* record is left pending with nobody to complete it.
CompleteSecurityAudit(id) ==
  /\ up /\ id \in open
  /\ open' = open \ {id}
  /\ \/ /\ Has(table, id, "pending")
        /\ \E o \in Outcomes :
             /\ BothUpdate(id, [state |-> "completed", outcome |-> o])
             /\ ended' = [ended EXCEPT ![id] = o]
     \/ UNCHANGED <<table, ring, ended>>
  /\ UNCHANGED <<seq, exporter, sink, appended, up>>

-----------------------------------------------------------------------------
(* The exporter: one at a time, after a completion or every second.        *)

ListUnexportedSecurityAudits(rows) ==
  SelectSeq(rows, LAMBDA r : r.state = "completed" /\ ~r.exported)

ExportBegin ==
  /\ up /\ exporter.stage = "idle" /\ ListUnexportedSecurityAudits(table) # << >>
  /\ exporter' = [stage |-> "append", todo |-> ListUnexportedSecurityAudits(table)]
  /\ UNCHANGED <<table, ring, seq, open, sink, appended, ended, up>>

\* Push on the ring, trimSQLiteEvents on the table: the newest MaxEntries stay.
Trim(events) == IF Len(events) > MaxEntries THEN Tail(events) ELSE events

\* AppendPluginAudit: an event id the sink still holds is not appended again.
AppendPluginAudit ==
  LET event == [id |-> Head(exporter.todo).id, outcome |-> Head(exporter.todo).outcome]
  IN /\ up /\ exporter.stage = "append"
     /\ IF \E i \in DOMAIN sink : sink[i].id = event.id
        THEN UNCHANGED <<sink, appended>>
        ELSE sink' = Trim(Append(sink, event)) /\ appended' = Append(appended, event)
     /\ exporter' = [exporter EXCEPT !.stage = "mark"]
     /\ UNCHANGED <<table, ring, seq, open, ended, up>>

\* Marked once the sink acknowledged it; then the next record listed.
MarkSecurityAuditExported ==
  /\ up /\ exporter.stage = "mark"
  /\ BothUpdate(Head(exporter.todo).id, [exported |-> TRUE])
  /\ exporter' = IF Len(exporter.todo) = 1 THEN NoExport
                 ELSE [stage |-> "append", todo |-> Tail(exporter.todo)]
  /\ UNCHANGED <<seq, open, sink, appended, ended, up>>

\* The sink or the mark fails: the export ends and starts over later.
ExportFails ==
  /\ up /\ exporter.stage \in {"append", "mark"}
  /\ exporter' = NoExport
  /\ UNCHANGED <<table, ring, seq, open, sink, appended, ended, up>>

-----------------------------------------------------------------------------
Crash ==
  /\ up /\ up' = FALSE
  /\ open' = {} /\ exporter' = NoExport /\ ring' = Lost
  /\ UNCHANGED <<table, seq, sink, appended, ended>>

\* Open: what the dead process left pending is completed as unknown.
ReconcilePendingSecurityAudits ==
  /\ ~up /\ up' = TRUE
  /\ table' = [i \in DOMAIN table |-> IF table[i].state # "pending" THEN table[i]
                 ELSE [table[i] EXCEPT !.state = "completed", !.outcome = "unknown"]]
  /\ ended' = [id \in IDs |-> IF Has(table, id, "pending") THEN "unknown" ELSE ended[id]]
  /\ UNCHANGED <<ring, seq, open, exporter, sink, appended>>

Next ==
  \/ BeginSecurityAudit
  \/ \E id \in IDs : CompleteSecurityAudit(id)
  \/ ExportBegin \/ AppendPluginAudit \/ MarkSecurityAuditExported \/ ExportFails
  \/ Crash \/ ReconcilePendingSecurityAudits

Spec == Init /\ [][Next]_vars

-----------------------------------------------------------------------------
\* Every record begun is either still in the journal or was delivered, and what the
\* sink was given is the outcome the mutation ended with, each event once, whatever
\* failed or died between append and mark (Export, reserveSQLiteSecurityAuditCapacity).
DeliveredOnce ==
  /\ \A id \in 1..seq :
       \/ \E i \in DOMAIN table : table[i].id = id
       \/ \E i \in DOMAIN appended : appended[i].id = id
  /\ \A i \in DOMAIN appended : appended[i].outcome = ended[appended[i].id]
  /\ \A i, j \in DOMAIN appended : appended[i].id = appended[j].id => i = j

\* The memory ring, with its slots shifted on eviction, holds the records the SQLite
\* journal holds, in the same order (removeLocked, reserveSQLiteSecurityAuditCapacity).
JournalsAgree == ring.lost \/ MemoryRecords(ring) = table
=============================================================================
