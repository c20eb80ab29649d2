--------------------------- MODULE SurfaceTokens ---------------------------
(***************************************************************************)
(* The surface sessions of the trusted parent page and the tokens bound to *)
(* them (pkg/bridge: SurfaceTokenService over TokenManager).               *)
(*                                                                         *)
(* Two mutexes guard the state: SurfaceTokenService.mu the table of open   *)
(* surfaces, TokenManager.mu the token records.  A request takes them in   *)
(* turn and never both across a whole operation, so a surface can be       *)
(* disposed, replaced or revoked between any two steps of another request; *)
(* every critical section is one action here.  Audience and revision of a  *)
(* token are the surface session it was minted for; the bridge channel is  *)
(* fixed per surface.  The host's serialisation of gateway rotations       *)
(* (webSurfaces.leaseMu) is not assumed.                                   *)
(***************************************************************************)
EXTENDS Integers, FiniteSets, FiniteSetsExt

CONSTANTS Ops,        \* goroutines serving requests
          Surfaces,   \* surface instance IDs
          Plugins, Scopes,
          Nil,
          MaxRecords, MaxRecordsPerPlugin, MaxRevokeFloors,
          MaxActiveSessions, MaxActiveSessionsPerOwner,
          AssetTicketTTL, AssetSessionTTL, GatewayTokenTTL, ClosureTTL,
          MaxGen, MaxToken, MaxEpoch, MaxTime   \* bounds of the model

VARIABLES sessions,   \* surface instance ID -> surfaceState
          closures,   \* surface instance ID -> retained closure
          records,    \* token ID -> TokenRecord
          sessionIndex,   \* token IDs still in the session index
          minted,     \* number of tokens minted so far
          floors, saturated,   \* revoke floors, and whether one did not fit
          epoch,      \* the revoke epoch each plugin's registry record has
          op,         \* the request each goroutine serves
          handed,     \* tokens returned to their client
          fenced,     \* scopes the session teardown has revoked
          revokedTo,  \* highest epoch RevokePlugin was asked to revoke up to
          gens, clock

svcVars == <<sessions, closures>>
tokVars == <<records, sessionIndex, minted, floors, saturated>>
hostVars == <<epoch, fenced, revokedTo, gens, clock>>
vars == <<sessions, closures, records, sessionIndex, minted, floors, saturated, epoch,
          op, handed, fenced, revokedTo, gens, clock>>

SurfaceKinds == {"ticket", "asset", "gateway", "confirm"}
Idle == [pc |-> "idle", scope |-> Nil, st |-> Nil, now |-> 0, tok |-> {}, drop |-> {}, todo |-> {}]

Init ==
  /\ sessions = <<>> /\ closures = <<>>
  /\ records = <<>> /\ sessionIndex = {} /\ minted = 0
  /\ floors = [p \in Plugins |-> 0] /\ saturated = FALSE
  /\ epoch = [p \in Plugins |-> 1]
  /\ op = [o \in Ops |-> Idle]
  /\ handed = {} /\ fenced = {}
  /\ revokedTo = [p \in Plugins |-> 0]
  /\ gens = 0 /\ clock = 0

-----------------------------------------------------------------------------
(* TokenManager.                                                           *)

Without(f, S) == [x \in DOMAIN f \ S |-> f[x]]
Put(f, x, v) == [y \in DOMAIN f \cup {x} |-> IF y = x THEN v ELSE f[y]]
Expired(r, n) == r.exp <= n

\* The token IDs of TokenManager are random; here they are counted.
Fresh == minted + 1

\* loadTokenRecordLocked.
Live(t, n) == t \in DOMAIN records /\ ~records[t].revoked /\ ~Expired(records[t], n) /\ ~records[t].consumed

\* pruneExpiredRecordsLocked, then the checks of Mint.
Kept(n) == {t \in DOMAIN records : ~Expired(records[t], n)}
\* Mutation: a floor refuses only epochs it has already seen, and a full
\* floor table refuses nobody.
MintRefusedWhenTracked(ses, n) ==
  \/ ses.epoch < floors[ses.plugin]
  \/ Cardinality(Kept(n)) >= MaxRecords
  \/ Cardinality({t \in Kept(n) : records[t].ses.plugin = ses.plugin}) >= MaxRecordsPerPlugin

MintRefused(ses, n) ==
  \/ saturated /\ floors[ses.plugin] = 0
  \/ ses.epoch < floors[ses.plugin]
  \/ Cardinality(Kept(n)) >= MaxRecords
  \/ Cardinality({t \in Kept(n) : records[t].ses.plugin = ses.plugin}) >= MaxRecordsPerPlugin

\* What is left of the records when Mint refuses: validateMintRequest comes
\* first, so the expired ones are gone.
Prune(n) ==
  /\ records' = Without(records, DOMAIN records \ Kept(n))
  /\ sessionIndex' = sessionIndex \cap Kept(n)
  /\ UNCHANGED <<minted, floors, saturated>>

\* Mint a token of this kind for the surface session, as addRecordLocked does.
Mint(t, kind, ses, n, exp) ==
  /\ t <= MaxToken
  /\ minted' = t
  /\ records' = Put(Without(records, DOMAIN records \ Kept(n)), t,
                    [kind |-> kind, ses |-> ses, exp |-> exp, revoked |-> FALSE, consumed |-> FALSE])
  /\ sessionIndex' = (sessionIndex \cap Kept(n)) \cup {t}
  /\ UNCHANGED <<floors, saturated>>

Revoke(S) == [t \in DOMAIN records |-> IF t \in S THEN [records[t] EXCEPT !.revoked = TRUE] ELSE records[t]]

\* Mutation: the asset session is not recognised as bound to the surface.
OfGenerationGatewayOnly(ses) ==
  {t \in DOMAIN records : records[t].kind \in {"ticket", "gateway"} /\ records[t].ses = ses}

\* RevokeSurfaceGeneration: the tokens of exactly this surface generation.
OfGeneration(ses) == {t \in DOMAIN records : records[t].kind \in SurfaceKinds /\ records[t].ses = ses}

\* Validate with Consume.
Consume(t) == records' = [records EXCEPT ![t].consumed = TRUE]

-----------------------------------------------------------------------------
(* SurfaceTokenService.                                                    *)

\* surfaceSessionCanReplaceStaleBinding.
CanReplace(cur, new) == cur.plugin = new.plugin /\ cur.scope = new.scope /\ cur.epoch # new.epoch

Current(s, n) == s \in DOMAIN sessions /\ ~Expired(sessions[s], n)
Delete(S) == sessions' = Without(sessions, S)
Sessions(S) == {sessions[s].ses : s \in S}
Step(o, r) == op' = [op EXCEPT ![o] = r]

\* The rest of a request that only has to revoke the generations in todo.
Cleanup(o, todo) ==
  Step(o, IF todo = {} THEN Idle ELSE [op[o] EXCEPT !.pc = "cleanup", !.todo = todo, !.st = Nil])

\* A request of scope c enters: reserveAuthorizedAction has let it in.
Enter(o, c) == op[o].pc = "idle" /\ c \notin fenced

(* OpenSurface: reserveSurfaceSession drops expired surfaces and a stale     *)
(* binding of the same instance ID even when it then refuses.              *)
OpenSurface(o, s, p, c) ==
  /\ Enter(o, c) /\ gens < MaxGen
  /\ LET ses == [surface |-> s, plugin |-> p, scope |-> c, epoch |-> epoch[p], gen |-> gens + 1]
         st == [ses |-> ses, exp |-> clock + AssetSessionTTL, issued |-> 0, prepared |-> FALSE, gateway |-> 0]
         expired == {x \in DOMAIN sessions : Expired(sessions[x], clock)}
         stale == {x \in (DOMAIN sessions \ expired) \cap {s} : CanReplace(sessions[x].ses, ses)}
         left == DOMAIN sessions \ (expired \cup stale)
         todo == Sessions(expired \cup stale)
         refused == \/ s \in left
                    \/ Cardinality(left) >= MaxActiveSessions
                    \/ Cardinality({x \in left : sessions[x].ses.scope = c}) >= MaxActiveSessionsPerOwner
         me == [Idle EXCEPT !.scope = c, !.now = clock, !.st = st, !.todo = todo]
     IN /\ sessions' = IF refused THEN Without(sessions, expired \cup stale)
                       ELSE Put(Without(sessions, expired \cup stale), s, st)
        /\ Step(o, IF ~refused THEN [me EXCEPT !.pc = "openMint"]
                   ELSE IF todo = {} THEN Idle ELSE [me EXCEPT !.pc = "cleanup"])
        /\ gens' = gens + 1
  /\ UNCHANGED <<closures, tokVars, handed, epoch, fenced, revokedTo, clock>>

\* revokeSurfaceTokens for one of the generations a request has dropped.
revokeSurfaceTokens(o) ==
  \E ses \in op[o].todo :
    /\ records' = Revoke(OfGeneration(ses))
    /\ Step(o, IF op[o].pc = "cleanup" /\ op[o].todo = {ses} THEN Idle
               ELSE [op[o] EXCEPT !.todo = @ \ {ses}])
    /\ UNCHANGED <<svcVars, sessionIndex, minted, floors, saturated, handed, hostVars>>

OpenMint(o) ==
  /\ op[o].pc = "openMint" /\ op[o].todo = {}
  /\ LET ses == op[o].st.ses
         n == op[o].now
     IN IF MintRefused(ses, n)
        THEN Prune(n) /\ Step(o, [op[o] EXCEPT !.pc = "openRelease"]) /\ UNCHANGED handed
        ELSE /\ Mint(Fresh, "ticket", ses, n, n + AssetTicketTTL)
             /\ Step(o, Idle) /\ handed' = handed \cup {Fresh}
  /\ UNCHANGED <<svcVars, hostVars>>

\* releaseSurfaceReservation: only if the state is still the one reserved.
OpenRelease(o) ==
  /\ op[o].pc = "openRelease"
  /\ LET s == op[o].st.ses.surface
     IN Delete(IF s \in DOMAIN sessions /\ sessions[s] = op[o].st THEN {s} ELSE {})
  /\ Step(o, Idle)
  /\ UNCHANGED <<closures, tokVars, handed, hostVars>>

\* getState of an expired surface, by whichever request looks it up.
GetStateExpired(s) ==
  /\ s \in DOMAIN sessions /\ Expired(sessions[s], clock)
  /\ Delete({s})
  /\ records' = Revoke(OfGeneration(sessions[s].ses))
  /\ UNCHANGED <<closures, sessionIndex, minted, floors, saturated, op, handed, hostVars>>

-----------------------------------------------------------------------------
(* PrepareSurface of the host: ExchangeAssetTicket, the reading of the     *)
(* assets, MarkSurfacePrepared, and DisposeAssetSession when one of them   *)
(* fails.                                                                  *)

ExchangeAssetTicket(o, t) ==
  /\ t \in handed \cap DOMAIN records /\ records[t].kind = "ticket"
  /\ LET s == records[t].ses.surface
         c == records[t].ses.scope
     IN /\ Enter(o, c) /\ Current(s, clock) /\ sessions[s].ses.scope = c
        /\ Step(o, [Idle EXCEPT !.pc = "consume", !.scope = c, !.now = clock, !.st = sessions[s], !.tok = {t}])
  /\ UNCHANGED <<svcVars, tokVars, handed, hostVars>>

ConsumeTicket(o) ==
  /\ op[o].pc = "consume"
  /\ \E t \in op[o].tok :
       IF Live(t, op[o].now) /\ records[t].ses = op[o].st.ses
       THEN Consume(t) /\ Step(o, [op[o] EXCEPT !.pc = "mintSession", !.tok = {}])
       ELSE Step(o, Idle) /\ UNCHANGED records
  /\ UNCHANGED <<svcVars, sessionIndex, minted, floors, saturated, handed, hostVars>>

MintAssetSession(o) ==
  /\ op[o].pc = "mintSession"
  /\ LET ses == op[o].st.ses
         n == op[o].now
     IN IF MintRefused(ses, n)
        THEN Prune(n) /\ Step(o, Idle)
        ELSE /\ Mint(Fresh, "asset", ses, n, n + AssetSessionTTL)
             /\ Step(o, [op[o] EXCEPT !.pc = "exchange", !.tok = {Fresh}])
  /\ UNCHANGED <<svcVars, handed, hostVars>>

\* The surface must still be in the very state the exchange started from.
Unchanged(o) ==
  LET s == op[o].st.ses.surface IN s \in DOMAIN sessions /\ sessions[s] = op[o].st

CommitExchange(o) ==
  /\ op[o].pc = "exchange"
  /\ IF Unchanged(o)
     THEN LET s == op[o].st.ses.surface
              st == [op[o].st EXCEPT !.issued = Max(op[o].tok)]
          IN /\ sessions' = [sessions EXCEPT ![s] = st]
             /\ Step(o, [op[o] EXCEPT !.pc = "prepare", !.st = st])
     ELSE Cleanup(o, {op[o].st.ses}) /\ UNCHANGED sessions
  /\ UNCHANGED <<closures, tokVars, handed, hostVars>>

MarkSurfacePrepared(o) ==
  /\ op[o].pc = "prepare"
  /\ LET s == op[o].st.ses.surface
     IN IF Current(s, op[o].now) /\ sessions[s].issued = op[o].st.issued
        THEN /\ sessions' = [sessions EXCEPT ![s].prepared = TRUE]
             /\ handed' = handed \cup op[o].tok
             /\ Step(o, Idle)
        ELSE Step(o, [op[o] EXCEPT !.pc = "disposeInspect"]) /\ UNCHANGED <<sessions, handed>>
  /\ UNCHANGED <<closures, tokVars, hostVars>>

\* An asset cannot be read: the exchanged session is thrown away again.
PrepareFails(o) ==
  /\ op[o].pc = "prepare"
  /\ Step(o, [op[o] EXCEPT !.pc = "disposeInspect"])
  /\ UNCHANGED <<svcVars, tokVars, handed, hostVars>>

\* DisposeAssetSession: Inspect, getState, and the delete of what was seen.
DisposeInspect(o) ==
  /\ op[o].pc = "disposeInspect"
  /\ Step(o, IF Live(Max(op[o].tok), op[o].now) THEN [op[o] EXCEPT !.pc = "disposeGet"] ELSE Idle)
  /\ UNCHANGED <<svcVars, tokVars, handed, hostVars>>

DisposeGet(o) ==
  /\ op[o].pc = "disposeGet"
  /\ LET s == op[o].st.ses.surface
     IN Step(o, IF /\ Current(s, op[o].now)
                   /\ sessions[s].issued \in op[o].tok /\ sessions[s].ses = op[o].st.ses
                THEN [op[o] EXCEPT !.pc = "disposeDelete", !.st = sessions[s]] ELSE Idle)
  /\ UNCHANGED <<svcVars, tokVars, handed, hostVars>>

DisposeDelete(o) ==
  /\ op[o].pc = "disposeDelete"
  /\ LET st == op[o].st
         s == st.ses.surface
     IN IF /\ s \in DOMAIN sessions /\ sessions[s].ses = st.ses
           /\ sessions[s].exp = st.exp /\ sessions[s].issued = st.issued
        THEN Delete({s}) /\ Cleanup(o, {st.ses})
        ELSE Step(o, Idle) /\ UNCHANGED sessions
  /\ UNCHANGED <<closures, tokVars, handed, hostVars>>

-----------------------------------------------------------------------------
(* MintGatewayToken: the first gateway token of a surface, and its          *)
(* rotation against the previous one.                                      *)

\* validateBridgeHandshake up to the look at the previous token.
Handshake(o, s, prev) ==
  /\ Current(s, clock) /\ Enter(o, sessions[s].ses.scope)
  /\ sessions[s].issued # 0 /\ sessions[s].prepared
  /\ (sessions[s].gateway = 0) <=> (prev = 0)
  /\ Step(o, [Idle EXCEPT !.pc = IF prev = 0 THEN "mintAsset" ELSE "inspect", !.scope = sessions[s].ses.scope,
                          !.now = clock, !.st = sessions[s], !.tok = IF prev = 0 THEN {} ELSE {prev}])
  /\ UNCHANGED <<svcVars, tokVars, handed, hostVars>>

InspectPrevious(o) ==
  /\ op[o].pc = "inspect"
  /\ LET prev == Max(op[o].tok)
     IN Step(o, IF Live(prev, op[o].now) /\ prev = op[o].st.gateway /\ records[prev].ses = op[o].st.ses
                THEN [op[o] EXCEPT !.pc = "mintAsset", !.tok = {}] ELSE Idle)
  /\ UNCHANGED <<svcVars, tokVars, handed, hostVars>>

LeaseExpiry(n) == n + (IF GatewayTokenTTL < AssetSessionTTL THEN GatewayTokenTTL ELSE AssetSessionTTL)

MintRotatedAsset(o) ==
  /\ op[o].pc = "mintAsset"
  /\ LET ses == op[o].st.ses
         n == op[o].now
     IN IF MintRefused(ses, n)
        THEN Prune(n) /\ Step(o, Idle)
        ELSE /\ Mint(Fresh, "asset", ses, n, LeaseExpiry(n))
             /\ Step(o, [op[o] EXCEPT !.pc = "mintGateway", !.tok = {Fresh}])
  /\ UNCHANGED <<svcVars, handed, hostVars>>

MintRotatedGateway(o) ==
  /\ op[o].pc = "mintGateway"
  /\ LET ses == op[o].st.ses
         n == op[o].now
     IN IF MintRefused(ses, n)
        THEN Prune(n) /\ Step(o, [op[o] EXCEPT !.pc = "drop", !.drop = op[o].tok, !.tok = {}])
        ELSE /\ Mint(Fresh, "gateway", ses, n, LeaseExpiry(n))
             /\ Step(o, [op[o] EXCEPT !.pc = "rotate", !.tok = @ \cup {Fresh}])
  /\ UNCHANGED <<svcVars, handed, hostVars>>

\* Mutation: the superseded pair is left to expire.
CommitRotationKeepsPrevious(o) ==
  /\ op[o].pc = "rotate"
  /\ IF Unchanged(o)
     THEN LET s == op[o].st.ses.surface
          IN /\ sessions' = [sessions EXCEPT ![s] = [@ EXCEPT !.exp = LeaseExpiry(op[o].now),
                                                      !.issued = Min(op[o].tok), !.gateway = Max(op[o].tok)]]
             /\ Step(o, Idle) /\ handed' = handed \cup op[o].tok
     ELSE Step(o, [op[o] EXCEPT !.pc = "drop", !.drop = op[o].tok, !.tok = {}]) /\ UNCHANGED <<sessions, handed>>
  /\ UNCHANGED <<closures, tokVars, hostVars>>

\* The asset session is minted first: it is the smaller of the two IDs.
CommitRotation(o) ==
  /\ op[o].pc = "rotate"
  /\ IF Unchanged(o)
     THEN LET s == op[o].st.ses.surface
          IN /\ sessions' = [sessions EXCEPT ![s] = [@ EXCEPT !.exp = LeaseExpiry(op[o].now),
                                                      !.issued = Min(op[o].tok), !.gateway = Max(op[o].tok)]]
             /\ Step(o, [op[o] EXCEPT !.pc = "drop", !.drop = {op[o].st.issued, op[o].st.gateway} \ {0}])
     ELSE Step(o, [op[o] EXCEPT !.pc = "drop", !.drop = op[o].tok, !.tok = {}]) /\ UNCHANGED sessions
  /\ UNCHANGED <<closures, tokVars, handed, hostVars>>

\* RevokeTokenID of the superseded or abandoned tokens, the asset session
\* first; then the new pair is returned.
DropToken(o) ==
  /\ op[o].pc = "drop"
  /\ LET t == Min(op[o].drop)
         last == op[o].drop = {t}
     IN /\ records' = Revoke({t})
        /\ Step(o, IF last THEN Idle ELSE [op[o] EXCEPT !.drop = @ \ {t}])
        /\ handed' = IF last THEN handed \cup op[o].tok ELSE handed
  /\ UNCHANGED <<svcVars, sessionIndex, minted, floors, saturated, hostVars>>

-----------------------------------------------------------------------------
(* Tokens minted on the authority of a gateway token.                      *)

\* ValidateSurfaceGatewayToken: the token, the surface, and the token again.
Authorize(o, t) ==
  /\ t \in handed /\ Live(t, clock) /\ records[t].kind = "gateway"
  /\ Enter(o, records[t].ses.scope)
  /\ Step(o, [Idle EXCEPT !.pc = "authState", !.scope = records[t].ses.scope, !.now = clock, !.tok = {t}])
  /\ UNCHANGED <<svcVars, tokVars, handed, hostVars>>

AuthorizeState(o) ==
  /\ op[o].pc = "authState"
  /\ LET here == {s \in DOMAIN sessions : Current(s, op[o].now) /\ sessions[s].gateway \in op[o].tok}
     IN Step(o, IF here = {} THEN Idle
                ELSE [op[o] EXCEPT !.pc = "authBind", !.st = sessions[CHOOSE s \in here : TRUE]])
  /\ UNCHANGED <<svcVars, tokVars, handed, hostVars>>

AuthorizeBind(o) ==
  /\ op[o].pc = "authBind"
  /\ LET t == Max(op[o].tok)
     IN Step(o, IF Live(t, op[o].now) /\ records[t].ses = op[o].st.ses
                THEN [op[o] EXCEPT !.pc = "authorized", !.tok = {}] ELSE Idle)
  /\ UNCHANGED <<svcVars, tokVars, handed, hostVars>>

\* One Mint, whatever has become of the surface since.
MintBound(o, kind) ==
  /\ op[o].pc = "authorized"
  /\ LET n == op[o].now
     IN IF MintRefused(op[o].st.ses, n)
        THEN Prune(n) /\ UNCHANGED handed
        ELSE Mint(Fresh, kind, op[o].st.ses, n, n + AssetTicketTTL) /\ handed' = handed \cup {Fresh}
  /\ Step(o, Idle)
  /\ UNCHANGED <<svcVars, hostVars>>

MintConfirmationToken(o) == MintBound(o, "confirm")

MintHandleGrant(o) == MintBound(o, "handle")

\* ValidateConfirmationTokenID.
ConsumeConfirmation(t) ==
  /\ t \in handed /\ Live(t, clock) /\ records[t].kind = "confirm"
  /\ Consume(t)
  /\ UNCHANGED <<svcVars, sessionIndex, minted, floors, saturated, op, handed, hostVars>>

-----------------------------------------------------------------------------
(* Disposal and revocation.                                                *)

\* DisposeSurface, DisposeBoundSurface, and MarkSurfacePrepared or
\* DisposeBoundSurface finding the surface expired.
DisposeSurface(o, s) ==
  /\ s \in DOMAIN sessions /\ Enter(o, sessions[s].ses.scope)
  /\ Delete({s})
  /\ Step(o, [Idle EXCEPT !.pc = "cleanup", !.scope = sessions[s].ses.scope, !.todo = {sessions[s].ses}])
  /\ UNCHANGED <<closures, tokVars, handed, hostVars>>

\* retainSurfaceClosureLocked evicts the oldest closure of an owner at its
\* limit, then the oldest of all at the global one.
Oldest(f, S) == {x \in S : \A y \in S : f[x].exp <= f[y].exp}
OfOwner(f, c) == {x \in DOMAIN f : f[x].scope = c}
EvictFor(f, c) ==
  {g \in {Without(f, E) : E \in SUBSET DOMAIN f} :
     LET gone == DOMAIN f \ DOMAIN g
         own == OfOwner(f, c)
         full == Cardinality(own) >= MaxActiveSessionsPerOwner
     IN \E first \in IF full THEN {{x} : x \in Oldest(f, own)} ELSE {{}} :
          LET rest == DOMAIN f \ first
          IN \E second \in IF Cardinality(rest) >= MaxActiveSessions
                           THEN {{x} : x \in Oldest(f, rest)} ELSE {{}} :
               gone = first \cup second}

\* ReconcileSurfaceRevocation of an open surface, in one critical section.
ReconcileActive(s) ==
  /\ Current(s, clock)
  /\ LET ses == sessions[s].ses
         kept == Without(closures, {x \in DOMAIN closures : Expired(closures[x], clock)})
     IN /\ \E g \in EvictFor(kept, ses.scope) :
             closures' = Put(g, s, [gen |-> ses.gen, scope |-> ses.scope, exp |-> clock + ClosureTTL])
        /\ records' = Revoke(OfGeneration(ses))
  /\ Delete({s})
  /\ UNCHANGED <<sessionIndex, minted, floors, saturated, op, handed, hostVars>>

\* ReconcileSurfaceRevocation of an expired one: dropped, revoked later.
ReconcileExpired(o, s) ==
  /\ s \in DOMAIN sessions /\ Expired(sessions[s], clock) /\ Enter(o, sessions[s].ses.scope)
  /\ closures' = Without(closures, {x \in DOMAIN closures : Expired(closures[x], clock)})
  /\ Delete({s})
  /\ Step(o, [Idle EXCEPT !.pc = "cleanup", !.scope = sessions[s].ses.scope, !.todo = {sessions[s].ses}])
  /\ UNCHANGED <<tokVars, handed, hostVars>>

RevokeAllSurfaces(o) ==
  /\ op[o].pc = "idle" /\ sessions # <<>>
  /\ Delete(DOMAIN sessions)
  /\ Step(o, [Idle EXCEPT !.pc = "cleanup", !.todo = Sessions(DOMAIN sessions)])
  /\ UNCHANGED <<closures, tokVars, handed, hostVars>>

\* RevokePlugin: the registry has raised the plugin's epoch under the
\* lifecycle write lock; its surfaces go first, its tokens second.
RevokePlugin(o, p) ==
  /\ op[o].pc = "idle" /\ epoch[p] < MaxEpoch
  /\ epoch' = [epoch EXCEPT ![p] = @ + 1]
  /\ Delete({s \in DOMAIN sessions : sessions[s].ses.plugin = p})
  /\ Step(o, [Idle EXCEPT !.pc = "floor", !.st = p, !.now = epoch[p] + 1])
  /\ UNCHANGED <<closures, tokVars, handed, fenced, revokedTo, gens, clock>>

\* The registry has raised the epoch, and the audit journal refuses the entry the
\* revocation begins with: the surfaces stay, bound to a revision that is stale.
RevokeRefused(p) ==
  /\ epoch[p] < MaxEpoch
  /\ epoch' = [epoch EXCEPT ![p] = @ + 1]
  /\ UNCHANGED <<svcVars, tokVars, op, handed, fenced, revokedTo, gens, clock>>

\* The table of revoke floors has no room for another plugin.
FloorsFull == Cardinality({q \in Plugins : floors[q] > 0}) >= MaxRevokeFloors

RevokePluginTokens(o) ==
  /\ op[o].pc = "floor"
  /\ LET p == op[o].st
         e == op[o].now
         full == floors[p] = 0 /\ FloorsFull
     IN /\ floors' = IF e > floors[p] /\ ~full THEN [floors EXCEPT ![p] = e] ELSE floors
        /\ saturated' = (saturated \/ (e > floors[p] /\ full))
        /\ records' = Revoke({t \in DOMAIN records : records[t].ses.plugin = p /\ records[t].ses.epoch < e})
        /\ revokedTo' = [revokedTo EXCEPT ![p] = Max({@, e})]
  /\ Step(o, Idle)
  /\ UNCHANGED <<svcVars, sessionIndex, minted, handed, epoch, fenced, gens, clock>>

\* Mutation: handle grants are not in the session index.
InScopeSurfaceKinds(c) == {t \in sessionIndex : records[t].ses.scope = c /\ records[t].kind \in {"asset", "gateway"}}

\* RevokeSessionScope, behind the fence that has drained the scope.
InScope(c) == {t \in sessionIndex : records[t].ses.scope = c}
RevokeSessionScope(c) ==
  /\ c \notin fenced /\ \A o \in Ops : op[o].scope # c
  /\ fenced' = fenced \cup {c}
  /\ Delete({s \in DOMAIN sessions : sessions[s].ses.scope = c})
  /\ records' = Revoke(InScope(c))
  /\ sessionIndex' = sessionIndex \ InScope(c)
  /\ UNCHANGED <<closures, minted, floors, saturated, op, handed, epoch, revokedTo, gens, clock>>

Tick ==
  /\ clock < MaxTime
  /\ clock' = clock + 1
  /\ UNCHANGED <<svcVars, tokVars, op, handed, epoch, fenced, revokedTo, gens>>

Next ==
  \/ \E o \in Ops :
       \/ \E s \in Surfaces, p \in Plugins, c \in Scopes : OpenSurface(o, s, p, c)
       \/ revokeSurfaceTokens(o) \/ OpenMint(o) \/ OpenRelease(o)
       \/ \E t \in handed : ExchangeAssetTicket(o, t) \/ Authorize(o, t)
       \/ ConsumeTicket(o) \/ MintAssetSession(o) \/ CommitExchange(o)
       \/ MarkSurfacePrepared(o) \/ PrepareFails(o)
       \/ DisposeInspect(o) \/ DisposeGet(o) \/ DisposeDelete(o)
       \/ \E s \in DOMAIN sessions : \E prev \in {0} \cup handed : Handshake(o, s, prev)
       \/ InspectPrevious(o) \/ MintRotatedAsset(o) \/ MintRotatedGateway(o)
       \/ CommitRotation(o) \/ DropToken(o)
       \/ AuthorizeState(o) \/ AuthorizeBind(o)
       \/ MintConfirmationToken(o) \/ MintHandleGrant(o)
       \/ \E s \in DOMAIN sessions : DisposeSurface(o, s) \/ ReconcileExpired(o, s)
       \/ RevokeAllSurfaces(o)
       \/ \E p \in Plugins : RevokePlugin(o, p)
       \/ RevokePluginTokens(o)
  \/ \E s \in DOMAIN sessions : GetStateExpired(s) \/ ReconcileActive(s)
  \/ \E t \in handed : ConsumeConfirmation(t)
  \/ \E c \in Scopes : RevokeSessionScope(c)
  \/ \E p \in Plugins : RevokeRefused(p)
  \/ Tick

Spec == Init /\ [][Next]_vars

-----------------------------------------------------------------------------
Session == [surface : Surfaces, plugin : Plugins, scope : Scopes, epoch : 1..MaxEpoch, gen : 1..MaxGen]
InFlight == {op[o] : o \in Ops}

\* Types of the two tables, and their keys: a surface state is stored under
\* its own surface instance ID (addSurfaceStateLocked) and the session index
\* only names existing records.
TypeOK ==
  /\ DOMAIN sessions \subseteq Surfaces /\ DOMAIN closures \subseteq Surfaces
  /\ \A s \in DOMAIN sessions : sessions[s].ses \in Session /\ sessions[s].ses.surface = s
  /\ DOMAIN records \subseteq 1..MaxToken
  /\ \A t \in DOMAIN records : records[t].kind \in SurfaceKinds \cup {"handle"} /\ records[t].ses \in Session
  /\ sessionIndex \subseteq DOMAIN records /\ handed \subseteq 1..minted
  /\ floors \in [Plugins -> 0..MaxEpoch] /\ saturated \in BOOLEAN

\* A gateway token or asset session a client has been given works only while
\* its surface is open and names it as the current one: whatever closes or
\* replaces the surface, and whatever rotation replaces the token, the old
\* one is revoked unless the request doing so is still on its way
\* (DisposeSurface, reserveSurfaceSession, CommitRotation, RevokePlugin).
HandedTokenIsCurrent ==
  \A t \in handed \cap DOMAIN records :
    records[t].kind \in {"asset", "gateway"} /\ Live(t, clock) =>
      \/ \E s \in DOMAIN sessions : sessions[s].ses = records[t].ses /\ t \in {sessions[s].issued, sessions[s].gateway}
      \/ \E r \in InFlight : \/ records[t].ses \in r.todo
                             \/ t \in r.drop
                             \/ r.pc = "floor" /\ r.st = records[t].ses.plugin

\* Revoking an old generation, an abandoned exchange or a superseded token
\* never takes down the tokens the open surface is using, although the new
\* generation may reuse the surface instance ID (RevokeSurfaceGeneration).
CurrentTokensNotRevoked ==
  \A s \in DOMAIN sessions :
    \A t \in {sessions[s].issued, sessions[s].gateway} \cap DOMAIN records :
      ~records[t].revoked /\ records[t].ses = sessions[s].ses

\* Of the gateway tokens given out for one surface generation at most one is
\* accepted, even while rotations race (MintGatewayToken).
OneLiveGateway ==
  \A t, u \in {x \in handed : Live(x, clock) /\ records[x].kind = "gateway"} :
    records[t].ses = records[u].ses => t = u

\* After RevokePlugin has run for an epoch no token of an older epoch of that
\* plugin is accepted again, not even one minted by a request that started
\* before, and not when the table of revoke floors is full.
RevokedEpochsStayRevoked ==
  \A t \in DOMAIN records :
    records[t].ses.epoch < revokedTo[records[t].ses.plugin] => records[t].revoked

\* A torn-down session has no open surface and no token left that is not
\* revoked: the session index still names every live token of the scope when
\* RevokeSessionScope walks it.
TornDownSessionIsEmpty ==
  \A c \in fenced :
    /\ \A s \in DOMAIN sessions : sessions[s].ses.scope # c
    /\ \A t \in DOMAIN records : records[t].ses.scope = c => records[t].revoked

-----------------------------------------------------------------------------
(* The inductive invariant behind the two properties above.                *)

TokenConstants == Nil \notin Scopes

\* What the proofs need of a surface session.
IsSession(ses) == ses.plugin \in Plugins /\ ses.scope \in Scopes /\ ses.epoch \in Nat

\* An epoch that was revoked is below the plugin's floor, or the plugin has
\* none because the table is full and Mint refuses it altogether.
FloorsHold ==
  /\ floors \in [Plugins -> Nat] /\ revokedTo \in [Plugins -> Nat]
  /\ epoch \in [Plugins -> Nat]
  /\ saturated => FloorsFull
  /\ \A p \in Plugins : revokedTo[p] <= floors[p] \/ (floors[p] = 0 /\ saturated)

\* A token that is not revoked is in the session index, of an epoch that is
\* not revoked and of a scope that is not torn down.
RecordsHold ==
  /\ minted \in Nat
  /\ \A t \in DOMAIN records :
       /\ t \in 1..minted /\ IsSession(records[t].ses)
       /\ DOMAIN records[t] = {"kind", "ses", "exp", "revoked", "consumed"}
       /\ \/ t \notin sessionIndex
          \/ records[t].ses.epoch < revokedTo[records[t].ses.plugin]
          \/ records[t].ses.scope \in fenced
          => records[t].revoked

SessionsHold ==
  \A s \in DOMAIN sessions :
    /\ IsSession(sessions[s].ses) /\ sessions[s].ses.scope \notin fenced
    /\ DOMAIN sessions[s] = {"ses", "exp", "issued", "prepared", "gateway"}

\* The steps of a request that lead to a Mint for the session it has read.
Minting == {"openMint", "consume", "mintSession", "inspect", "mintAsset", "mintGateway", "authorized"}

\* A request r, with these token records, so many of them minted and these
\* scopes torn down: it holds the teardown of its scope off, and what it will
\* mint belongs to that scope.
RequestHolds(r, recs, m, closed) ==
  /\ DOMAIN r = {"pc", "scope", "st", "now", "tok", "drop", "todo"}
  /\ r.scope \notin closed
  /\ r.pc \in Minting => IsSession(r.st.ses) /\ r.st.ses.scope = r.scope
  /\ r.pc \in {"authState", "authBind"} =>
       \E t \in 1..m : r.tok = {t} /\ (t \in DOMAIN recs => recs[t].ses.scope = r.scope)
  /\ r.pc = "floor" => r.st \in Plugins /\ r.now \in Nat \ {0}

RequestsHold == DOMAIN op = Ops /\ \A o \in Ops : RequestHolds(op[o], records, minted, fenced)

\* The invariant that RevokedEpochsStayRevoked and TornDownSessionIsEmpty are
\* proved from: who can still mint for a revoked epoch or a torn-down scope
\* (Mint, RevokePlugin, RevokeSessionScope).
TokenInv == FloorsHold /\ RecordsHold /\ SessionsHold /\ RequestsHold /\ fenced \subseteq Scopes

\* The tables stay within their limits (Mint, reserveSurfaceSession and
\* retainSurfaceClosureLocked), for each plugin and each owner too.
WithinLimits ==
  /\ Cardinality(DOMAIN records) <= MaxRecords
  /\ \A p \in Plugins : Cardinality({t \in DOMAIN records : records[t].ses.plugin = p}) <= MaxRecordsPerPlugin
  /\ \A f \in {sessions, closures} : Cardinality(DOMAIN f) <= MaxActiveSessions
  /\ \A c \in Scopes :
       /\ Cardinality({s \in DOMAIN sessions : sessions[s].ses.scope = c}) <= MaxActiveSessionsPerOwner
       /\ Cardinality(OfOwner(closures, c)) <= MaxActiveSessionsPerOwner

=============================================================================
