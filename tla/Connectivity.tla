---------------------------- MODULE Connectivity ----------------------------
(***************************************************************************)
(* Outgoing connections of plugins (pkg/connectivity): grants minted from    *)
(* the installed policy, the executor that resolves, dials and bounds what   *)
(* comes back, its shared HTTP connection pools, and the limiter of UDP      *)
(* round trips.  One plugin; a scope is one of its connectors' destinations. *)
(***************************************************************************)
EXTENDS Integers, Sequences, FiniteSets

CONSTANTS
  Requests,      \* calls of the executor, each with a grant of its own
  Scopes,        \* httpPoolScope
  Configured,    \* the scopes whose connector needs an approved connection
  HostRouted,    \* the https scopes by name, when the Host has an HTTP transport
  Kinds,         \* the executor's operations used
  Answers,       \* what resolving a host may yield: sets of address classes
  Bodies,        \* lengths of responses
  MaxBytes, Chunk,
  Short, Medium, \* lengths of WebSocket payloads with a header of their own (126, 65535)
  MaxPools,      \* maxHTTPConnectionPools
  MaxRev, MaxTime, TTL,
  Buckets, MaxBuckets, MaxTrips, Window, Slack,   \* the UDP limiter
  Nil

VARIABLES
  now, policy, req,
  pool,          \* by the request that made it
  seq, closed, closeDone,
  windows, expirations, version, sent

vars == <<now, policy, req, pool, seq, closed, closeDone, windows, expirations, version, sent>>
limiter == <<windows, expirations, version, sent>>
pools == <<pool, seq, closed, closeDone>>

NoGrant == [scope |-> Nil, rev |-> 0, exp |-> 0, private |-> FALSE]
NoPool == [at |-> "none", key |-> Nil, active |-> 0, used |-> 0]
NoRequest == [at |-> "idle", kind |-> Nil, grant |-> NoGrant, tls |-> FALSE, addrs |-> {}, pool |-> Nil,
              size |-> 0, got |-> 0, told |-> Nil]

Init ==
  /\ now = 0 /\ policy = [s \in Scopes |-> 0]
  /\ req = [r \in Requests |-> NoRequest]
  /\ pool = [r \in Requests |-> NoPool] /\ seq = 0 /\ closed = FALSE /\ closeDone = FALSE
  /\ windows = [b \in Buckets |-> Nil] /\ expirations = {} /\ version = 0
  /\ sent = [b \in Buckets |-> <<>>]

Kept(ps) == {p \in Requests : ps[p].at = "kept"}
Total(ps) == Cardinality({p \in Requests : ps[p].at \in {"kept", "draining"}})
HTTP(kind) == kind \in {"DoHTTP", "StreamHTTP", "OpenHTTP"}
Users(p) == {r \in Requests : req[r].pool = p}

TypeOK ==
  /\ now \in 0..MaxTime /\ policy \in [Scopes -> 0..MaxRev] /\ closed \in BOOLEAN /\ closeDone \in BOOLEAN
  /\ \A r \in Requests : req[r].pool \in Requests \cup {Nil} /\ req[r].got \in 0..(MaxBytes + 1)

-----------------------------------------------------------------------------
(* The policy and the grants. *)

InstallPolicy(s) ==
  /\ policy[s] < MaxRev /\ policy' = [policy EXCEPT ![s] = @ + 1]
  /\ UNCHANGED <<now, req, pools, limiter>>

RemovePolicy(s) ==
  /\ policy[s] # 0 /\ policy' = [policy EXCEPT ![s] = 0]
  /\ UNCHANGED <<now, req, pools, limiter>>

\* The destination asked for is one the connector declares or, for a connector
\* configured later, that of an approved connection, perhaps private, until a time.
Bindings == {[same |-> same, exp |-> e, private |-> p] : same \in BOOLEAN, e \in 0..MaxTime, p \in BOOLEAN}
NoBinding == {[same |-> same, exp |-> 0, private |-> FALSE] : same \in BOOLEAN}
Earlier(a, b) == IF a < b THEN a ELSE b

mintConnectionGrant(r, s, kind, rev, bound, b) ==
  /\ req[r].at = "idle"
  /\ IF \/ policy[s] = 0 \/ rev # policy[s]
        \/ ~b.same
        \/ bound # (s \in Configured)
        \/ bound /\ b.exp <= now
     THEN req' = [req EXCEPT ![r] = [NoRequest EXCEPT !.at = "over", !.told = "denied"]]
     ELSE \E tls \in IF HTTP(kind) THEN BOOLEAN ELSE {FALSE} :
          req' = [req EXCEPT ![r] = [NoRequest EXCEPT !.at = "validate", !.kind = kind, !.tls = tls,
                    !.grant = [scope |-> s, rev |-> rev, private |-> bound /\ b.private,
                               exp |-> IF bound THEN Earlier(now + TTL, b.exp) ELSE now + TTL]]]
  /\ UNCHANGED <<now, policy, pools, limiter>>

-----------------------------------------------------------------------------
(* A request. *)

Over(rs, r, told) == [rs EXCEPT ![r].at = "over", ![r].told = told, ![r].pool = Nil]
Ended(r, told) == req' = Over(req, r, told)

validateGrantForTransport(r) ==
  /\ req[r].at = "validate"
  /\ IF req[r].grant.exp <= now THEN Ended(r, "expired")
     ELSE \/ req[r].kind = "UDPRoundTrip" /\ Ended(r, "limited")   \* AllowUDPRoundTrip says no
          \/ req' = [req EXCEPT ![r].at = "resolve"]
  /\ UNCHANGED <<now, policy, pools, limiter>>

Public == {"public4", "public6"}

\* Mutant of evaluateResolvedTarget: one acceptable address is enough.
evaluateSomeTarget(g, addrs) == \E a \in addrs : IF g.private THEN a = "private" ELSE a \in Public

\* Every address has to be acceptable; special ones never are.
evaluateResolvedTarget(g, addrs) == \A a \in addrs : IF g.private THEN a = "private" ELSE a \in Public

\* Kept pools that may no longer be used for their scope.
Retired(ps, gone) ==
  [p \in Requests |-> IF p \in gone THEN [ps[p] EXCEPT !.at = IF ps[p].active > 0 THEN "draining" ELSE "gone"] ELSE ps[p]]
InScope(ps, s) == {p \in Kept(ps) : ps[p].key[1] = s}
CloseDone(ps) == closeDone \/ (closed /\ Total(ps) = 0)

\* resolveHTTPPoolBinding leaves the route to the Host's own transport.
hostRouted(r) ==
  HTTP(req[r].kind) /\ req[r].grant.scope \in HostRouted /\ ~req[r].grant.private

\* guardedResolveAddresses, and for HTTP resolveHTTPPoolBinding: a denied target
\* retires the pools of its scope.  A binding that the Host routes has no address.
Resolve(r) ==
  LET g == req[r].grant IN
  /\ req[r].at = "resolve"
  /\ \/ /\ hostRouted(r)
        /\ req' = [req EXCEPT ![r].at = "acquire"] /\ UNCHANGED <<pool, closeDone>>
     \/ /\ ~hostRouted(r)
        /\ Ended(r, "failed") /\ UNCHANGED <<pool, closeDone>>
     \/ \E addrs \in IF hostRouted(r) THEN {} ELSE Answers :
          IF addrs = {} \/ ~evaluateResolvedTarget(g, addrs)
          THEN /\ Ended(r, "denied")
               /\ IF HTTP(req[r].kind)
                  THEN LET ps == Retired(pool, InScope(pool, g.scope)) IN pool' = ps /\ closeDone' = CloseDone(ps)
                  ELSE UNCHANGED <<pool, closeDone>>
          ELSE /\ req' = [req EXCEPT ![r].at = IF HTTP(req[r].kind) THEN "acquire" ELSE "dial", ![r].addrs = addrs]
               /\ UNCHANGED <<pool, closeDone>>
  /\ UNCHANGED <<now, policy, seq, closed, limiter>>

-----------------------------------------------------------------------------
(* The connection pools. *)

KeyOf(r) == <<req[r].grant.scope, req[r].grant.rev, req[r].grant.private, req[r].addrs>>
oldestIdleLocked(ps) ==
  {p \in Kept(ps) : ps[p].active = 0 /\ \A q \in Kept(ps) : ps[q].active = 0 => ps[p].used <= ps[q].used}

Using(r, ps, p) ==
  /\ pool' = ps /\ seq' = seq + 1
  /\ req' = [req EXCEPT ![r].at = "do", ![r].pool = p]
New(r, ps, at) == Using(r, [ps EXCEPT ![r] = [at |-> at, key |-> KeyOf(r), active |-> 1, used |-> seq + 1]], r)

\* Mutant of WithRoom: the last pool is made when the table is full.
WithRoomFull(r, ps, at) ==
  IF Total(ps) > MaxPools /\ oldestIdleLocked(ps) = {} THEN Ended(r, "limited") /\ pool' = ps /\ UNCHANGED seq
  ELSE \E gone \in IF Total(ps) <= MaxPools THEN {{}} ELSE {{p} : p \in oldestIdleLocked(ps)} :
         \/ New(r, Retired(ps, gone), at)
         \/ Ended(r, "failed") /\ pool' = Retired(ps, gone) /\ UNCHANGED seq   \* newHTTPTransport

\* Room for one more, at the expense of the idle pool used longest ago.
WithRoom(r, ps, at) ==
  IF Total(ps) >= MaxPools /\ oldestIdleLocked(ps) = {} THEN Ended(r, "limited") /\ pool' = ps /\ UNCHANGED seq
  ELSE \E gone \in IF Total(ps) < MaxPools THEN {{}} ELSE {{p} : p \in oldestIdleLocked(ps)} :
         \/ New(r, Retired(ps, gone), at)
         \/ Ended(r, "failed") /\ pool' = Retired(ps, gone) /\ UNCHANGED seq   \* newHTTPTransport

\* Mutant of acquireHTTPPool: pools of an older binding are kept.
acquireBesides(r) ==
  LET same == {p \in Kept(pool) : pool[p].key = KeyOf(r)} IN
  IF same # {} THEN \E p \in same : Using(r, [pool EXCEPT ![p].active = @ + 1, ![p].used = seq + 1], p)
  ELSE WithRoom(r, pool, "kept")

acquireHTTPPool(r) ==
  LET ps == Retired(pool, {p \in InScope(pool, req[r].grant.scope) : pool[p].key # KeyOf(r)})
      same == {p \in Kept(ps) : ps[p].key = KeyOf(r)}
  IN  IF same # {} THEN \E p \in same : Using(r, [ps EXCEPT ![p].active = @ + 1, ![p].used = seq + 1], p)
      ELSE WithRoom(r, ps, "kept")

\* A request with credentials of its own has a pool nobody shares.
acquireHTTPPoolForTLS(r) ==
  /\ req[r].at = "acquire"
  /\ \/ req[r].tls /\ Ended(r, "failed") /\ UNCHANGED <<pool, seq>>   \* validatedTLSConfig
     \/ IF closed THEN Ended(r, "closed") /\ UNCHANGED <<pool, seq>>
        ELSE IF req[r].tls THEN WithRoom(r, pool, "draining")
        ELSE acquireHTTPPool(r)
  /\ UNCHANGED <<now, policy, closed, closeDone, limiter>>

release(r) ==
  LET p == req[r].pool  left == pool[p].active - 1 IN
  [pool EXCEPT ![p].active = left, ![p].at = IF @ = "draining" /\ left = 0 THEN "gone" ELSE @]

Released(r, told) ==
  /\ pool' = release(r) /\ closeDone' = CloseDone(release(r))
  /\ Ended(r, told)
  /\ UNCHANGED <<now, policy, seq, closed, limiter>>

\* The request is sent; an answer for another URL is refused.
openHTTP(r) ==
  /\ req[r].at = "do"
  /\ \/ \E told \in {"failed", "denied"} : Released(r, told)
     \/ /\ \E z \in Bodies : req' = [req EXCEPT ![r].at = "body", ![r].size = z]
        /\ UNCHANGED <<now, policy, pools, limiter>>

Close ==
  /\ ~closed /\ closed' = TRUE
  /\ LET ps == Retired(pool, Kept(pool)) IN pool' = ps /\ closeDone' = (Total(ps) = 0)
  /\ UNCHANGED <<now, policy, req, seq, limiter>>

-----------------------------------------------------------------------------
(* What comes back.  A body ends when it is read to its end, when it is too    *)
(* long, when its context ends, or when the caller closes it.                  *)

\* streamBounded asks for one byte beyond the limit to find out about it;
\* limitedHTTPBody probes it.
ReadSize(r) == Earlier(Chunk, MaxBytes - req[r].got + 1)

Chunked(r) ==
  LET n == Earlier(ReadSize(r), req[r].size - req[r].got) IN
  /\ req[r].at = "body" /\ req[r].kind \in {"StreamHTTP", "OpenHTTP"} /\ req[r].grant.exp > now
  /\ IF req[r].got + n > MaxBytes THEN Released(r, "tooLarge")
     ELSE IF n = 0 THEN Released(r, "ok")
     ELSE req' = [req EXCEPT ![r].got = @ + n] /\ UNCHANGED <<now, policy, pools, limiter>>

readBounded(r) ==
  /\ req[r].at = "body" /\ req[r].kind = "DoHTTP" /\ req[r].grant.exp > now
  /\ IF req[r].size > MaxBytes THEN Released(r, "tooLarge")
     ELSE LET ps == release(r) IN
          /\ pool' = ps /\ closeDone' = CloseDone(ps)
          /\ req' = [Over(req, r, "ok") EXCEPT ![r].got = req[r].size]
          /\ UNCHANGED <<now, policy, seq, closed, limiter>>

\* The context of a response ends no later than its grant.
CloseBody(r) == req[r].at = "body" /\ Released(r, "canceled")

\* openSocket, OpenWebSocket: dialled at the addresses just checked, closed with
\* their context, and read up to the limit.
openSocket(r) ==
  /\ req[r].at = "dial" /\ req[r].kind \in {"OpenTCP", "OpenUDP", "OpenWebSocket"}
  /\ \/ Ended(r, "failed")
     \/ req[r].grant.exp > now /\ req' = [req EXCEPT ![r].at = "open"]
  /\ UNCHANGED <<now, policy, pools, limiter>>

SocketRead(r) ==
  /\ req[r].at = "open" /\ req[r].grant.exp > now
  /\ IF req[r].got >= MaxBytes THEN Ended(r, "tooLarge")
     ELSE \E n \in 1..(MaxBytes - req[r].got) : req' = [req EXCEPT ![r].got = @ + n]
  /\ UNCHANGED <<now, policy, pools, limiter>>

closeConnection(r) == req[r].at = "open" /\ Ended(r, "canceled") /\ UNCHANGED <<now, policy, pools, limiter>>

\* The one-shot exchanges.  Their deadline is the caller's timeout, not the grant.
Exchanged(r, n, told) == req' = [Over(req, r, told) EXCEPT ![r].size = n, ![r].got = IF told = "ok" THEN n ELSE 0]

TCPRoundTrip(r) ==
  /\ req[r].at = "dial" /\ req[r].kind = "TCPRoundTrip"
  /\ \/ Ended(r, "failed")
     \/ \E z \in Bodies : Exchanged(r, z, IF z > MaxBytes THEN "tooLarge" ELSE "ok")
  /\ UNCHANGED <<now, policy, pools, limiter>>

\* A datagram longer than the limit is cut.
UDPRoundTrip(r) ==
  /\ req[r].at = "dial" /\ req[r].kind = "UDPRoundTrip"
  /\ \/ Ended(r, "failed")
     \/ \E z \in Bodies : Exchanged(r, Earlier(z, MaxBytes), "ok")
  /\ UNCHANGED <<now, policy, pools, limiter>>

\* Headers of frames: the seven bits of the second byte and what follows them.
writeWebSocketFrame(n) ==
  CASE n < Short -> [bits |-> n, ext |-> 0]
    [] n >= Short /\ n <= Medium -> [bits |-> Short, ext |-> n % (Medium + 1)]
    [] n > Medium -> [bits |-> Short + 1, ext |-> n]
readWebSocketFrame(h) == IF h.bits >= Short THEN h.ext ELSE h.bits

\* Control frames are passed over; a close frame or a fragment ends the exchange.
WebSocketRoundTrip(r) ==
  /\ req[r].at = "dial" /\ req[r].kind = "WebSocketRoundTrip"
  /\ \/ \E told \in {"failed", "closed"} : Ended(r, told)
     \/ \E z \in Bodies :
          LET n == readWebSocketFrame(writeWebSocketFrame(z)) IN
          IF n > MaxBytes THEN Exchanged(r, z, "tooLarge")
          ELSE req' = [Over(req, r, "ok") EXCEPT ![r].size = z, ![r].got = n]
  /\ UNCHANGED <<now, policy, pools, limiter>>

\* Deadlines fire with the clock: sockets close, a response's next read fails.
Tick ==
  /\ now < MaxTime /\ now' = now + 1
  /\ req' = [r \in Requests |-> IF req[r].at = "open" /\ req[r].grant.exp <= now + 1
                                THEN [req[r] EXCEPT !.at = "over", !.told = "canceled"] ELSE req[r]]
  /\ UNCHANGED <<policy, pools, limiter>>

-----------------------------------------------------------------------------
(* The limiter of UDP round trips. *)

pruneLocked(b) ==
  windows[b] # Nil /\ \E e \in expirations : e.at < now /\ e.bucket = b /\ e.version = windows[b].version
Expiry(b, w) == [at |-> w.lastSeen + 2 * Window, version |-> w.version, bucket |-> b]

pushExpiryLocked(ws, es, b) ==
  LET all == es \cup {Expiry(b, ws[b])}
      live == {c \in Buckets : ws[c] # Nil}
  IN  IF Cardinality(all) > 4 * Cardinality(live) + Slack THEN {Expiry(c, ws[c]) : c \in live} ELSE all

AllowUDPRoundTrip(b) ==
  LET ws == [c \in Buckets |-> IF pruneLocked(c) THEN Nil ELSE windows[c]]
      es == {e \in expirations : e.at >= now}
      full == ws[b] = Nil /\ Cardinality({c \in Buckets : ws[c] # Nil}) >= MaxBuckets
      old == IF ws[b] = Nil \/ now >= ws[b].startedAt + Window THEN [startedAt |-> now, lastSeen |-> 0, count |-> 0, version |-> 0]
             ELSE ws[b]
      w == [old EXCEPT !.lastSeen = IF @ > now THEN @ ELSE now, !.version = version + 1]
      allowed == w.count < MaxTrips
      kept == [ws EXCEPT ![b] = IF allowed THEN [w EXCEPT !.count = @ + 1] ELSE w]
  IN
  /\ version < MaxTime * MaxTrips + MaxTime
  /\ IF full THEN windows' = ws /\ expirations' = es /\ UNCHANGED <<version, sent>>
     ELSE /\ windows' = kept /\ version' = version + 1
          /\ expirations' = pushExpiryLocked(kept, es, b)
          /\ sent' = IF allowed THEN [sent EXCEPT ![b] = @ \o <<now>>] ELSE sent
  /\ UNCHANGED <<now, policy, req, pools>>

Next ==
  \/ Tick \/ Close
  \/ \E s \in Scopes : InstallPolicy(s) \/ RemovePolicy(s)
  \/ \E r \in Requests :
       \/ \E s \in Scopes, k \in Kinds, rev \in 1..MaxRev :
            \/ \E b \in NoBinding : mintConnectionGrant(r, s, k, rev, FALSE, b)
            \/ \E b \in Bindings : mintConnectionGrant(r, s, k, rev, TRUE, b)
       \/ validateGrantForTransport(r) \/ Resolve(r) \/ acquireHTTPPoolForTLS(r) \/ openHTTP(r)
       \/ Chunked(r) \/ readBounded(r) \/ CloseBody(r) \/ openSocket(r) \/ SocketRead(r) \/ closeConnection(r)
       \/ TCPRoundTrip(r) \/ UDPRoundTrip(r) \/ WebSocketRoundTrip(r)
  \/ \E b \in Buckets : AllowUDPRoundTrip(b)

Spec == Init /\ [][Next]_vars

-----------------------------------------------------------------------------
(* Pools are counted exactly: a pool's users are the responses that have not   *)
(* been closed, retired pools stay until the last of them, a scope has one     *)
(* shared pool, the table never exceeds its limit, and Close reports completion*)
(* only when no response is left.                                              *)
PoolsExact ==
  /\ \A p \in Requests : pool[p].active = Cardinality(Users(p))
  /\ \A p \in Requests : (pool[p].at = "draining" => pool[p].active > 0) /\ (pool[p].at = "gone" => pool[p].active = 0)
  /\ \A p, q \in Kept(pool) : pool[p].key[1] = pool[q].key[1] => p = q
  /\ Total(pool) <= MaxPools
  /\ closeDone = (closed /\ Total(pool) = 0)

(* A connection leads to an acceptable address of its own grant: whoever holds *)
(* a pool, shared or not, holds one that was made for the same scope, revision *)
(* and addresses, each of which passed the check of evaluateResolvedTarget; a  *)
(* socket is not open past its grant.  Only an HTTP request of a scope that    *)
(* the Host routes, whose grant allows no private target, goes without an      *)
(* address of the executor's: the Host's transport resolves and dials.         *)
ConnectedWithinGrant ==
  \A r \in Requests :
    /\ req[r].pool # Nil => pool[req[r].pool].key = KeyOf(r)
    /\ req[r].at \in {"acquire", "dial", "do", "body", "open"} =>
         /\ req[r].addrs # {} \/ hostRouted(r)
         /\ \A a \in req[r].addrs : a # "special" /\ (a = "private" => req[r].grant.private)
    /\ req[r].at = "open" => req[r].grant.exp > now

(* No more than the limit is handed over, a response reported as complete is   *)
(* complete (a datagram up to where UDPRoundTrip cuts it), and an HTTP or TCP  *)
(* answer reported as too large was.                                           *)
ResponsesBounded ==
  \A r \in Requests :
    /\ req[r].got <= MaxBytes
    /\ req[r].told = "ok" => req[r].got = req[r].size
    /\ req[r].told = "tooLarge" /\ (HTTP(req[r].kind) \/ req[r].kind = "TCPRoundTrip") => req[r].size > MaxBytes

(* However round trips fall, a bucket sends at most its limit in any window    *)
(* that starts with one, twice the limit in any stretch of that length, and    *)
(* every bucket in the table has the expiry that will remove it.               *)
Within(b, t) == Cardinality({i \in DOMAIN sent[b] : sent[b][i] >= t /\ sent[b][i] < t + Window})
LimiterSound ==
  \A b \in Buckets :
    /\ \A t \in 0..MaxTime : Within(b, t) <= 2 * MaxTrips
    /\ windows[b] # Nil => Within(b, windows[b].startedAt) <= MaxTrips /\ Expiry(b, windows[b]) \in expirations
    /\ Cardinality({c \in Buckets : windows[c] # Nil}) <= MaxBuckets

=============================================================================
