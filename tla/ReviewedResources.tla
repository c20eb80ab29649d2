------------------------- MODULE ReviewedResources -------------------------
(***************************************************************************)
(* What a user reviews and approves for one plugin: a network connection   *)
(* (pkg/host/connections.go) and selected files (pkg/host/selected_files.go)*)
(* over their rows in the control store.  An approval consumes a review    *)
(* taken against the plugin's authorization, a lease or a file operation   *)
(* rechecks that authorization under the lock that approvals and           *)
(* revocations take, and a change of the plugin commits first and cancels  *)
(* what is live afterwards.                                                *)
(*                                                                         *)
(* Destinations, methods, credentials and the files themselves are left    *)
(* out.  A selection is the open object behind a review or a row.          *)
(***************************************************************************)
EXTENDS Integers, FiniteSets

CONSTANTS Leases,      \* requests that use the connection
          Reviews,     \* review tokens, of connections and of files
          Files,       \* resource ids of selected files
          Nil,         \* no review, no row
          MaxEpoch,    \* bound: revocations of the plugin
          MaxRev       \* bound: revisions of the connection row

VARIABLES record,      \* the plugin row: enabled, may run, revisions, revoke epoch
          revoking,    \* a change has committed and not yet cancelled what is live
          conn,        \* the connection row
          reviews,     \* pending reviews of the connection
          approvals,   \* approvals between reading the record and the commit
          leases,      \* requests on the connection and what they were granted under
          fileReviews, \* pending reviews of files, each with its open object
          picking,     \* selections whose picker is open, with the record they read
          rows,        \* the rows of the selected files
          objects,     \* files whose object is open for use
          opened,      \* every open object: the review or file it was opened for
          session,     \* "live", "fenced" or "gone"
          closed       \* the Host has closed the file authority

vars == <<record, revoking, conn, reviews, approvals, leases, fileReviews, picking, rows,
          objects, opened, session, closed>>

NoConn == [rev |-> 0, epoch |-> 0, revoked |-> FALSE]

NoFile == [state |-> "none", epoch |-> 0]

IdleLease == [stage |-> "idle", epoch |-> 0, rev |-> 0, connRev |-> 0]

TypeOK ==
  /\ record \in [enabled : BOOLEAN, runs : BOOLEAN, rev : Nat, epoch : 0..MaxEpoch] /\ revoking \in BOOLEAN
  /\ conn \in [rev : 0..MaxRev, epoch : 0..MaxEpoch, revoked : BOOLEAN]
  /\ \A l \in Leases : leases[l].stage \in {"idle", "checked", "held"}
  /\ objects \subseteq Files /\ session \in {"live", "fenced", "gone"} /\ closed \in BOOLEAN

Init ==
  /\ record = [enabled |-> TRUE, runs |-> TRUE, rev |-> 0, epoch |-> 0] /\ revoking = FALSE /\ conn = NoConn
  /\ reviews = [r \in Reviews |-> Nil] /\ approvals = [r \in Reviews |-> Nil]
  /\ leases = [l \in Leases |-> IdleLease]
  /\ fileReviews = [r \in Reviews |-> Nil] /\ picking = [r \in Reviews |-> Nil]
  /\ rows = [f \in Files |-> NoFile] /\ objects = {} /\ opened = {}
  /\ session = "live" /\ closed = FALSE

Seen == [rev |-> record.rev, epoch |-> record.epoch]

Files_ == <<fileReviews, picking, rows, objects, opened>>

Network == <<conn, reviews, approvals, leases>>

\* Management calls hold their session's reservation throughout, a request only while it
\* acquires.
Reserved ==
  \/ \E l \in Leases : leases[l].stage = "checked"
  \/ \E r \in Reviews : approvals[r] # Nil \/ picking[r] # Nil

cancelLocked(ls) == [l \in Leases |-> IF ls[l].stage = "held" THEN IdleLease ELSE ls[l]]

-----------------------------------------------------------------------------
(* The plugin changes: a management operation commits, then revokes.  The  *)
(* revocation is not reached when its own audit record cannot be begun.    *)

ChangePlugin ==
  /\ record.epoch < MaxEpoch
  /\ \E e, x \in BOOLEAN :
       record' = [enabled |-> e, runs |-> x, rev |-> record.rev + 1, epoch |-> record.epoch + 1]
  /\ revoking' = TRUE
  /\ UNCHANGED <<Network, Files_, session, closed>>

\* revokePlugin of the connections: leases canceled, reviews dropped.
DropConnections == leases' = cancelLocked(leases) /\ reviews' = [r \in Reviews |-> Nil]

\* revokePlugin of the selected files: reviews dropped, every object closed.
DropFiles == fileReviews' = [r \in Reviews |-> Nil] /\ objects' = {} /\ opened' = {}

RevokePlugin ==
  /\ revoking /\ revoking' = FALSE
  /\ DropConnections /\ DropFiles
  /\ UNCHANGED <<record, conn, approvals, picking, rows, session, closed>>

\* canRun of a package that may not run: its epoch is raised, if that succeeds, and it
\* is revoked next in either case.
revokeDeniedPluginRuntime ==
  /\ session = "live" /\ ~record.runs
  /\ record' \in {record} \union {[record EXCEPT !.epoch = e] : e \in {record.epoch + 1} \ {MaxEpoch + 1}}
  /\ revoking' = TRUE
  /\ UNCHANGED <<Network, Files_, session, closed>>

-----------------------------------------------------------------------------
(* Connections.                                                            *)

\* Checked before any lock is taken, in a session that still admits work.
connectionCeiling == session = "live" /\ record.runs /\ record.enabled

\* connectionCeiling of a package that may not run.
DenyConnections ==
  /\ session = "live" /\ ~record.runs
  /\ DropConnections
  /\ UNCHANGED <<record, revoking, conn, approvals, Files_, session, closed>>

ReviewConnection(r) ==
  /\ connectionCeiling /\ reviews[r] = Nil /\ approvals[r] = Nil
  /\ reviews' = [reviews EXCEPT ![r] = [seen |-> Seen, expected |-> conn.rev]]
  /\ UNCHANGED <<record, revoking, conn, approvals, leases, Files_, session, closed>>

\* Canceled by the user, or expired when the next review is stored.
CancelConnectionReview(r) ==
  /\ reviews[r] # Nil /\ reviews' = [reviews EXCEPT ![r] = Nil]
  /\ UNCHANGED <<record, revoking, conn, approvals, leases, Files_, session, closed>>

\* The review is consumed, before audit or commit, if it was taken of this record.
ConsumeReview(r) ==
  /\ connectionCeiling /\ reviews[r] # Nil /\ reviews[r].seen = Seen
  /\ approvals' = [approvals EXCEPT ![r] = reviews[r]]
  /\ reviews' = [reviews EXCEPT ![r] = Nil]
  /\ UNCHANGED <<record, revoking, conn, leases, Files_, session, closed>>

\* The transaction of PutConnection finds the record and the row as reviewed.
PutConnection(review) ==
  /\ record.enabled /\ review.seen = Seen /\ conn.rev = review.expected

\* Under the authority's lock: the row is replaced, and the leases of the old one are
\* canceled also when the commit's outcome is unknown.
ApproveConnection(r) ==
  /\ approvals[r] # Nil
  /\ approvals' = [approvals EXCEPT ![r] = Nil]
  /\ \/ UNCHANGED <<conn, leases>>
     \/ /\ PutConnection(approvals[r]) /\ conn.rev < MaxRev
        /\ conn' \in {conn, [rev |-> conn.rev + 1, epoch |-> approvals[r].seen.epoch, revoked |-> FALSE]}
        /\ leases' = cancelLocked(leases)
  /\ UNCHANGED <<record, revoking, reviews, Files_, session, closed>>

\* One conditional update; an error leaves the outcome unknown.
RevokeConnection ==
  /\ session = "live" /\ conn.rev > 0 /\ ~conn.revoked /\ conn.rev < MaxRev
  /\ conn' \in {conn, [conn EXCEPT !.revoked = TRUE, !.rev = @ + 1]}
  /\ leases' = cancelLocked(leases)
  /\ UNCHANGED <<record, revoking, reviews, approvals, Files_, session, closed>>

\* acquire, before the lock: the session is reserved and the ceiling checked.
AcquireBegin(l) ==
  /\ connectionCeiling /\ leases[l].stage = "idle"
  /\ leases' = [leases EXCEPT ![l] = [stage |-> "checked", epoch |-> record.epoch,
                                       rev |-> record.rev, connRev |-> 0]]
  /\ UNCHANGED <<record, revoking, conn, reviews, approvals, Files_, session, closed>>

AuthorityStaleRead(l) == conn.rev > 0 /\ ~conn.revoked

\* Under the lock the record and the row are read again.
AuthorityStands(l) ==
  /\ record.enabled /\ leases[l].epoch = record.epoch /\ leases[l].rev = record.rev
  /\ conn.rev > 0 /\ ~conn.revoked /\ conn.epoch = record.epoch

Acquire(l) ==
  /\ leases[l].stage = "checked"
  /\ leases' = [leases EXCEPT ![l] = IF AuthorityStands(l)
                  THEN [@ EXCEPT !.stage = "held", !.connRev = conn.rev] ELSE IdleLease]
  /\ UNCHANGED <<record, revoking, conn, reviews, approvals, Files_, session, closed>>

Release(l) ==
  /\ leases[l].stage = "held" /\ leases' = [leases EXCEPT ![l] = IdleLease]
  /\ UNCHANGED <<record, revoking, conn, reviews, approvals, Files_, session, closed>>

-----------------------------------------------------------------------------
(* Selected files.                                                         *)

fileResourceCeiling == session = "live" /\ record.runs /\ record.enabled

SelectBegin(r) ==
  /\ fileResourceCeiling /\ picking[r] = Nil /\ fileReviews[r] = Nil
  /\ picking' = [picking EXCEPT ![r] = Seen]
  /\ UNCHANGED <<record, revoking, Network, fileReviews, rows, objects, opened, session, closed>>

\* The user picked: the object is opened, and kept only if the review is stored.
SelectFileResource(r) ==
  /\ picking[r] # Nil /\ picking' = [picking EXCEPT ![r] = Nil]
  /\ \/ UNCHANGED <<fileReviews, opened>>
     \/ /\ ~closed
        /\ fileReviews' = [fileReviews EXCEPT ![r] = picking[r]]
        /\ opened' = opened \union {<<"review", r>>}
  /\ UNCHANGED <<record, revoking, Network, rows, objects, session, closed>>

\* Canceled, or found expired by reap or by the next selection.
CancelFileResource(r) ==
  /\ fileReviews[r] # Nil
  /\ fileReviews' = [fileReviews EXCEPT ![r] = Nil]
  /\ opened' = opened \ {<<"review", r>>}
  /\ UNCHANGED <<record, revoking, Network, picking, rows, objects, session, closed>>

\* The review's object becomes the file's when the row is created, else it is closed.
ApproveMoves(r, f, ok) ==
  (opened \ {<<"review", r>>}) \union (IF ok THEN {<<"file", f>>} ELSE {})

\* Of the ceiling only canRun is asked again.  Under the lock CreateSelectedResource
\* finds the record enabled and as reviewed or fails, and an unknown commit may have
\* created the row.
ApproveFileResource(r, f) ==
  /\ session = "live" /\ record.runs /\ ~closed /\ fileReviews[r] # Nil
  /\ rows[f].state = "none"
  /\ fileReviews' = [fileReviews EXCEPT ![r] = Nil]
  /\ LET row == [state |-> "active", epoch |-> record.epoch]
         stands == record.enabled /\ fileReviews[r] = Seen
     IN \/ /\ stands
           /\ rows' = [rows EXCEPT ![f] = row] /\ objects' = objects \union {f}
           /\ opened' = ApproveMoves(r, f, TRUE)
        \/ /\ rows' \in {rows} \union
                        IF stands THEN {[rows EXCEPT ![f] = row]} ELSE {}
           /\ opened' = ApproveMoves(r, f, FALSE) /\ UNCHANGED objects
  /\ UNCHANGED <<record, revoking, Network, picking, session, closed>>

\* The row first, then the object; an unknown outcome leaves the object to the next use.
RevokeFileResource(f) ==
  /\ session = "live" /\ rows[f].state = "active"
  /\ \/ /\ rows' = [rows EXCEPT ![f].state = "revoked"]
        /\ objects' = objects \ {f} /\ opened' = opened \ {<<"file", f>>}
     \/ /\ rows' = [rows EXCEPT ![f].state = "unsure"] /\ UNCHANGED <<objects, opened>>
  /\ UNCHANGED <<record, revoking, Network, fileReviews, picking, session, closed>>

\* WithSelectedResource, inside one transaction.  "unsure" is a row whose revocation
\* may have been committed: either answer is possible.
RowStands(f) ==
  rows[f].state \in {"active", "unsure"} /\ record.enabled /\ rows[f].epoch = record.epoch

\* An operation on a file: under the lock and the transaction the row is checked, the
\* object reopened from its recorded identity if need be, validated and used.
WithSelection(f) ==
  /\ session = "live" /\ ~closed /\ rows[f].state # "none"
  /\ \/ /\ RowStands(f)
        /\ objects' = objects \union {f} /\ opened' = opened \union {<<"file", f>>}
     \/ \* the row does not stand, or the object is no longer the one selected
        /\ objects' = objects \ {f} /\ opened' = opened \ {<<"file", f>>}
  /\ UNCHANGED <<record, revoking, Network, fileReviews, picking, rows, session, closed>>

\* The minute timer closes what no longer stands or validates.
reap ==
  /\ ~closed
  /\ objects' \in SUBSET {f \in objects : RowStands(f)}
  /\ opened' = {o \in opened : o[1] = "file" => o[2] \in objects'}
  /\ UNCHANGED <<record, revoking, Network, fileReviews, picking, rows, session, closed>>

\* close: after it nothing is opened.
CloseFiles ==
  /\ ~closed /\ closed' = TRUE /\ DropFiles
  /\ UNCHANGED <<record, revoking, Network, picking, rows, session>>

-----------------------------------------------------------------------------
(* Teardown of the session: fenced, drained, then revoked.                 *)

FenceSession ==
  /\ session = "live" /\ session' = "fenced"
  /\ UNCHANGED <<record, revoking, Network, Files_, closed>>

RevokeSession ==
  /\ session = "fenced" /\ ~Reserved /\ session' = "gone" /\ DropConnections
  /\ UNCHANGED <<record, revoking, conn, approvals, Files_, closed>>

Next ==
  \/ ChangePlugin \/ revokeDeniedPluginRuntime \/ RevokePlugin
  \/ DenyConnections \/ RevokeConnection
  \/ \E r \in Reviews : ReviewConnection(r) \/ CancelConnectionReview(r) \/ ConsumeReview(r)
                        \/ ApproveConnection(r)
  \/ \E l \in Leases : AcquireBegin(l) \/ Acquire(l) \/ Release(l)
  \/ \E r \in Reviews : SelectBegin(r) \/ SelectFileResource(r) \/ CancelFileResource(r)
  \/ \E r \in Reviews, f \in Files : ApproveFileResource(r, f)
  \/ \E f \in Files : RevokeFileResource(f) \/ WithSelection(f)
  \/ reap \/ CloseFiles \/ FenceSession \/ RevokeSession

Spec == Init /\ [][Next]_vars

-----------------------------------------------------------------------------
\* A request that holds the connection holds the approval now in the store: no lease
\* outlives the replacement or revocation of its connection, the end of its session, or
\* the revocation that follows a change of the plugin (acquire, cancelLocked).
LeasesCurrent ==
  \A l \in Leases : leases[l].stage = "held" =>
    /\ ~conn.revoked /\ leases[l].connRev = conn.rev
    /\ leases[l].epoch = record.epoch \/ revoking
    /\ session # "gone"

\* Every open object belongs to a pending review or to a file in use: none is lost when
\* an approval fails half-way or the authority closes under a picker, and no file stays
\* open for a row that is known to be revoked (keep, ApproveFileResource, close).
ObjectsOwned ==
  /\ opened = {<<"review", r>> : r \in {x \in Reviews : fileReviews[x] # Nil}}
              \union {<<"file", f>> : f \in objects}
  /\ \A f \in objects : rows[f].state \in {"active", "unsure"}
  /\ closed => opened = {}
=============================================================================
