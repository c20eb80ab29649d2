-------------------------- MODULE MCSurfaceTokens --------------------------
(***************************************************************************)
(* The surfaces of a Host, their tokens, confirmations and answers, on     *)
(* small instances.  focus says what a behaviour exercises; no call is     *)
(* under way in the others (MethodConfirmation), and the variables of      *)
(* their other parts are 0.                                                *)
(*   rotate        two requests on one surface: openings, exchanges,       *)
(*                 rotations and disposals interleave without time passing;*)
(*   expiry        two requests on one surface while records, sessions and *)
(*                 closures expire and the record tables fill up;          *)
(*   revoke        two surfaces of two plugins in one scope, and           *)
(*   teardown      of one plugin in two scopes, under plugin and session   *)
(*                 revocation (all four SurfaceTokens);                    *)
(*   stores        three intents of two plugins in two scopes, in the      *)
(*                 three confirmation stores (ConfirmationStores);         *)
(*   confirm       three calls of a confirmed and preflighted method while *)
(*                 the plugin is changed and revoked, and                  *)
(*   prepare       two on a surface while the world changes between        *)
(*                 preparation and commit (MethodConfirmation);            *)
(*   polls         one call and two polls of one receiver, receivers one   *)
(*                 call and one poll of two, two_surfaces one call and two *)
(*                 surfaces (SurfaceMethods);                              *)
(*   http          every route with every result of its Host call          *)
(*                 (HTTPAdapter);                                          *)
(*   web           two calls on one web surface under lease renewal,       *)
(*                 revocation and expiry (WebSurfaces).                    *)
(***************************************************************************)
EXTENDS MethodConfirmation, TLC

CONSTANTS o1, o2, s1, s2, s3, p1, p2, p3, c1, c2, c3

VARIABLES
  focus,
  sessions, closures, records, sessionIndex, minted, floors, saturated,
  epoch, op, handed, fenced, revokedTo, gens, clock,
  now, mem, sqlite, control, told,
  live, current, receivers, inv, poll, methodHanded,
  req, result, answer,
  surf, lease, expired, active, files, denied, fileMu, leaseMu, webCall, late

tVars == <<sessions, closures, records, sessionIndex, minted, floors,
           saturated, epoch, op, handed, fenced, revokedTo, gens, clock>>
sVars == <<now, mem, sqlite, control, told>>
qVars == <<live, current, receivers, inv, poll, methodHanded>>
hVars == <<req, result, answer>>
wVars == <<surf, lease, expired, active, files, denied, fileMu, leaseMu,
           webCall, late>>

Rotate == INSTANCE SurfaceTokens
  WITH Ops <- {o1, o2}, Surfaces <- {s1}, Plugins <- {p1}, Scopes <- {c1},
       MaxRecords <- 5, MaxRecordsPerPlugin <- 6, MaxRevokeFloors <- 1,
       MaxActiveSessions <- 1, MaxActiveSessionsPerOwner <- 1,
       AssetTicketTTL <- 1, AssetSessionTTL <- 2, GatewayTokenTTL <- 1,
       ClosureTTL <- 1, MaxGen <- 2, MaxToken <- 6, MaxEpoch <- 2,
       MaxTime <- 0, Nil <- Nil
Expiry == INSTANCE SurfaceTokens
  WITH Ops <- {o1, o2}, Surfaces <- {s1}, Plugins <- {p1}, Scopes <- {c1},
       MaxRecords <- 4, MaxRecordsPerPlugin <- 3, MaxRevokeFloors <- 1,
       MaxActiveSessions <- 1, MaxActiveSessionsPerOwner <- 1,
       AssetTicketTTL <- 1, AssetSessionTTL <- 2, GatewayTokenTTL <- 1,
       ClosureTTL <- 1, MaxGen <- 2, MaxToken <- 4, MaxEpoch <- 1,
       MaxTime <- 2, Nil <- Nil
Revoke == INSTANCE SurfaceTokens
  WITH Ops <- {o1, o2}, Surfaces <- {s2, s3}, Plugins <- {p2, p3},
       Scopes <- {c1}, MaxRecords <- 4, MaxRecordsPerPlugin <- 4,
       MaxRevokeFloors <- 1, MaxActiveSessions <- 2,
       MaxActiveSessionsPerOwner <- 2, AssetTicketTTL <- 1,
       AssetSessionTTL <- 2, GatewayTokenTTL <- 1, ClosureTTL <- 1,
       MaxGen <- 2, MaxToken <- 2, MaxEpoch <- 2, MaxTime <- 0, Nil <- Nil
Teardown == INSTANCE SurfaceTokens
  WITH Ops <- {o1, o2}, Surfaces <- {s2, s3}, Plugins <- {p1},
       Scopes <- {c2, c3}, MaxRecords <- 4, MaxRecordsPerPlugin <- 4,
       MaxRevokeFloors <- 1, MaxActiveSessions <- 2,
       MaxActiveSessionsPerOwner <- 1, AssetTicketTTL <- 1,
       AssetSessionTTL <- 2, GatewayTokenTTL <- 1, ClosureTTL <- 1,
       MaxGen <- 2, MaxToken <- 2, MaxEpoch <- 2, MaxTime <- 0, Nil <- Nil
Stores == INSTANCE ConfirmationStores
  WITH IDs <- {s1, s2, s3}, Plugins <- {p2, p3}, Scopes <- {c2, c3},
       Envs <- {"e"}, Operations <- {"op"}, Revisions <- {1},
       OwnerEnv <- [c \in {c2, c3} |-> "e"], MaxTotal <- 2,
       MaxPerOwnerPlugin <- 2, MaxPerSession <- 1,
       MaxSessionRevocations <- 1, MaxTime <- 1
Prepare == INSTANCE MethodConfirmation
  WITH Calls <- {o1, o2}, IDs <- {"i1"}, Requests <- {"q1"},
       Confirmed <- {"q1"}, Preflighted <- {"q1"}, OnSurface <- {"q1"},
       MaxRev <- 2, MaxWorld <- 2, Nil <- Nil
TwoPolls == INSTANCE SurfaceMethods
  WITH Surfaces <- {"s"}, Methods <- {"m"}, Invokers <- {"i1"},
       Polls <- {"l1", "l2"}, MaxReceivers <- 1, MaxCalls <- 1, Nil <- Nil,
       handed <- methodHanded
Receivers == INSTANCE SurfaceMethods
  WITH Surfaces <- {"s"}, Methods <- {"m"}, Invokers <- {"i1"},
       Polls <- {"l1"}, MaxReceivers <- 2, MaxCalls <- 1, Nil <- Nil,
       handed <- methodHanded
TwoSurfaces == INSTANCE SurfaceMethods
  WITH Surfaces <- {"s", "t"}, Methods <- {"m"}, Invokers <- {"i1"},
       Polls <- {}, MaxReceivers <- 2, MaxCalls <- 1, Nil <- Nil,
       handed <- methodHanded
HTTP == INSTANCE HTTPAdapter
Web == INSTANCE WebSurfaces
  WITH Surfaces <- {"s"}, Calls <- {o1, o2}, MaxWatches <- 1, MaxActive <- 1,
       MaxChunks <- 1, MaxLease <- 2, Nil <- Nil, call <- webCall

MCInit ==
  /\ focus \in {"rotate", "expiry", "revoke", "teardown", "stores", "confirm",
               "prepare", "polls", "receivers", "two_surfaces", "http", "web"}
  /\ CASE focus = "rotate" -> Rotate!Init
       [] focus = "expiry" -> Expiry!Init
       [] focus = "revoke" -> Revoke!Init
       [] focus = "teardown" -> Teardown!Init
       [] OTHER ->
          /\ sessions = 0 /\ closures = 0 /\ records = 0 /\ sessionIndex = 0
          /\ minted = 0 /\ floors = 0 /\ saturated = 0 /\ epoch = 0 /\ op = 0
          /\ handed = 0 /\ fenced = 0 /\ revokedTo = 0 /\ gens = 0
          /\ clock = 0
  /\ IF focus = "stores" THEN Stores!Init
     ELSE
          /\ now = 0 /\ mem = 0 /\ sqlite = 0 /\ control = 0 /\ told = 0
  /\ IF focus = "prepare" THEN Prepare!Init ELSE Init
  /\ CASE focus = "polls" -> TwoPolls!Init
       [] focus = "receivers" -> Receivers!Init
       [] focus = "two_surfaces" -> TwoSurfaces!Init
       [] OTHER ->
          /\ live = 0 /\ current = 0 /\ receivers = 0 /\ inv = 0 /\ poll = 0
          /\ methodHanded = 0
  /\ IF focus = "http" THEN HTTP!Init
     ELSE
          /\ req = 0 /\ result = 0 /\ answer = 0
  /\ IF focus = "web" THEN Web!Init
     ELSE
          /\ surf = 0 /\ lease = 0 /\ expired = 0 /\ active = 0 /\ files = 0
          /\ denied = 0 /\ fileMu = 0 /\ leaseMu = 0 /\ webCall = 0
          /\ late = 0

MCNext ==
  /\ UNCHANGED focus
  /\ \/ /\ \/ focus = "rotate" /\ Rotate!Next
           \/ focus = "expiry" /\ Expiry!Next
           \/ focus = "revoke" /\ Revoke!Next
           \/ focus = "teardown" /\ Teardown!Next
        /\ UNCHANGED <<sVars, vars, qVars, hVars, wVars>>
     \/ /\ focus = "stores" /\ Stores!Next
        /\ UNCHANGED <<tVars, vars, qVars, hVars, wVars>>
     \/ /\ \/ focus = "confirm" /\ Next
           \/ focus = "prepare" /\ Prepare!Next
        /\ UNCHANGED <<tVars, sVars, qVars, hVars, wVars>>
     \/ /\ \/ focus = "polls" /\ TwoPolls!Next
           \/ focus = "receivers" /\ Receivers!Next
           \/ focus = "two_surfaces" /\ TwoSurfaces!Next
        /\ UNCHANGED <<tVars, sVars, vars, hVars, wVars>>
     \/ /\ focus = "http" /\ HTTP!Next
        /\ UNCHANGED <<tVars, sVars, vars, qVars, wVars>>
     \/ /\ focus = "web" /\ Web!Next
        /\ UNCHANGED <<tVars, sVars, vars, qVars, hVars>>

MCSpec == MCInit /\ [][MCNext]_<<focus, tVars, sVars, vars, qVars, hVars,
                                 wVars>>

Symmetry == Permutations({o1, o2}) \cup Permutations({s2, s3})
              \cup Permutations({p2, p3}) \cup Permutations({c2, c3})

Tokens == {"rotate", "expiry", "revoke", "teardown"}

\* A gateway token or asset session a client has been given works only while
\* its surface is open and names it, unless the request that closes, replaces
\* or rotates it is still on its way (DisposeSurface, reserveSurfaceSession,
\* MintGatewayToken, RevokePlugin); none of those requests ever revokes the
\* tokens the open surface is using, although a new generation may have the old
\* surface instance ID (RevokeSurfaceGeneration); and of the gateway tokens given
\* out for one surface generation at most one is accepted, even while rotations
\* race (MintGatewayToken).
HandedTokenIsCurrent ==
  focus \in Tokens => /\ Rotate!HandedTokenIsCurrent /\ Rotate!CurrentTokensNotRevoked
                      /\ Rotate!OneLiveGateway

\* What a revocation ended stays ended.  After RevokePlugin has run for an epoch
\* no token of an older epoch of that plugin is accepted again, not even one
\* minted by a request that started before, and not when the table of revoke
\* floors is full (TokenManager.RevokePlugin, TokenManager.Mint); and no call
\* passes its last check under a confirmation of a revision whose tokens were
\* revoked, wherever the call and the deletion of the plugin's intents are
\* (ValidateConfirmationTokenID, revokePluginRuntimeCapabilities).
RevokedStaysRevoked ==
  [][/\ focus \in Tokens => (Rotate!RevokedEpochsStayRevoked)'
     /\ focus = "confirm" => PassesUnrevoked
     /\ focus = "prepare" => Prepare!PassesUnrevoked]_<<tVars, vars>>

\* A torn-down session or surface is empty.  No open surface and no unrevoked
\* token is left of a torn-down session: the session index names every live token
\* of the scope when RevokeSessionScope walks it, whatever expired or was pruned,
\* and the tables of records, sessions and closures and the index describe each
\* other and stay within their limits (TokenManager.Mint, reserveSurfaceSession,
\* retainSurfaceClosureLocked); the invariant that TornDownSessionIsEmpty and
\* RevokedEpochsStayRevoked are proved from holds.  Nothing is stored, committed, opened or left open
\* for a removed web surface; the counters of reservations are the requests that
\* hold one; an entry credential admits one document; and requests take the lease
\* lock and the file lock in one order (removeWebSurfaces, reserveWebResource,
\* EnterWebSurface).
TornDownIsEmpty ==
  /\ focus \in Tokens => Rotate!TornDownSessionIsEmpty
  /\ focus = "rotate" => Rotate!TokenConstants /\ Rotate!TokenInv
  /\ focus = "expiry" => /\ Expiry!TypeOK /\ Expiry!WithinLimits
                         /\ Expiry!TokenConstants /\ Expiry!TokenInv
  /\ focus = "revoke" => /\ Revoke!TypeOK /\ Revoke!WithinLimits
                         /\ Revoke!TokenConstants /\ Revoke!TokenInv
  /\ focus = "teardown" => /\ Teardown!TypeOK /\ Teardown!WithinLimits
                           /\ Teardown!TokenConstants /\ Teardown!TokenInv
  /\ focus = "web" => /\ Web!TypeOK /\ Web!RemovedIsStill /\ Web!ReservationsExact
                      /\ Web!LoadsAreAtomic /\ Web!LocksOrdered

\* What a caller is told is what happened.  The answer of a route carries the
\* outcome of its Host call, in an envelope that can be encoded
\* (writeProjectionError, writeJSON; HTTPAdapter names the exception).  A surface
\* method is handed to the application at most once, an invoker told that it was
\* not committed never has it handed out, and a queued call that can be handed
\* out never waits for the idle timer of the poll (invokeSurfaceMethod,
\* SurfaceMethods).  The memory, SQLite and control stores of confirmation intents
\* answer alike, and the memory store's counters are those of its intents
\* (removeRecords); the invariant that DispatchWasConfirmed is proved from holds.
AnswersTrue ==
  /\ focus = "stores" => Stores!CountersExact /\ Stores!StoresAgree
  /\ focus = "confirm" => ConfirmationConstants /\ ConfirmationInv
  /\ focus = "prepare" => Prepare!ConfirmationConstants /\ Prepare!ConfirmationInv
  /\ focus = "http" => HTTP!AnswerTrue /\ HTTP!EnvelopesEncode
  /\ focus = "polls" => TwoPolls!OutcomesTrue
  /\ focus = "receivers" => Receivers!OutcomesTrue /\ Receivers!QueuedCallWakes
  /\ focus = "two_surfaces" => TwoSurfaces!OutcomesTrue
=============================================================================
