----------------------------- MODULE WebSurfaces -----------------------------
(***************************************************************************)
(* Requests from the dedicated web origins of open surfaces (pkg/host/       *)
(* web_surface.go, web_resources.go, web_file_transfer.go, web_socket.go,    *)
(* web_connections.go, web_private_files.go, surface_files.go).  A request   *)
(* is the sequence of steps of its handler; between two steps other requests *)
(* renew the lease of the surface, dispose it, or find that policy denies    *)
(* the plugin and remove its surfaces.  leaseMu keeps a renewal away from    *)
(* loading requests, fileMu keeps removal away from finite operations.       *)
(***************************************************************************)
EXTENDS Integers, FiniteSets, Sequences

CONSTANTS
  Surfaces,      \* surfaces of one plugin and one session
  Calls,         \* requests
  MaxWatches,    \* reservations of one surface
  MaxActive,     \* reservations of the Host
  MaxChunks,     \* chunks of one transfer
  MaxLease,      \* asset sessions ever minted for a surface
  Nil

VARIABLES
  surf,          \* the binding of each surface's origin
  lease,         \* the asset session the token store accepts, 0 for none
  expired,       \* surfaces whose lease has run out
  active,        \* webSurfaces.activeResources
  files,         \* open handles and attached reviews of a surface's selected files
  denied,        \* policy does not let the plugin run
  fileMu, leaseMu,
  call,          \* the requests
  late           \* surfaces that were acted on after their removal

vars == <<surf, lease, expired, active, files, denied, fileMu, leaseMu, call, late>>

\* A writer that waits keeps new readers out.
Free == [readers |-> {}, waiting |-> {}]

\* The steps of each handler, in the order of its code.
EnterWebSurface == <<"rlease", "snapshot", "validate", "enter">>
ValidateWebSurface == <<"rlease", "snapshot", "validate">>
ReadWebSurfaceAsset == <<"rlease", "snapshot", "validate", "ready", "validate", "read", "snapshot", "validate">>
WebResource == <<"snapshot", "validate", "ready", "run", "snapshot", "validate", "fence", "bound", "act">>
watchWebResource == <<"snapshot", "validate", "ready", "run", "reserve">> \o WebResource \o <<"look">>
webFileChunk == <<"current", "snapshot", "validate", "run", "validate", "fence", "live", "chunk">>
TransferWebFile == <<"snapshot", "validate", "ready", "reserve">> \o webFileChunk
TransferWebPrivateFile == <<"snapshot", "validate", "ready", "run", "reserve", "stage", "fence", "bound", "act">>
webNetworkInvocation == <<"snapshot", "validate", "ready", "ceiling", "current">>
OpenWebSocketConnection == <<"snapshot", "validate", "reserve">> \o webNetworkInvocation \o <<"dial", "hold">>
OpenWebConnectionHTTP == webNetworkInvocation \o <<"dial", "hold">>
\* Mutant of SurfaceFile: the fence is taken before the policy check.
SurfaceFileFencedFirst == <<"fence", "run", "gateway", "live", "open">>
SurfaceFile == <<"run", "fence", "gateway", "live", "open">>
surfaceFileHandle == <<"run", "fence", "gateway", "live", "use">>
SelectSurfaceFile == <<"run", "gateway", "live", "pick", "fence", "live", "open">>
MintBridgeToken == <<"gateway", "run", "wlease", "mint">>
DisposeSurface == <<"dispose", "remove">>

Handlers ==
  [enter |-> EnterWebSurface, check |-> ValidateWebSurface, asset |-> ReadWebSurfaceAsset,
   resource |-> WebResource, watch |-> watchWebResource, transfer |-> TransferWebFile,
   private |-> TransferWebPrivateFile, socket |-> OpenWebSocketConnection, http |-> OpenWebConnectionHTTP,
   file |-> SurfaceFile, handle |-> surfaceFileHandle, select |-> SelectSurfaceFile, mint |-> MintBridgeToken, dispose |-> DisposeSurface]

Idle == [kind |-> Nil, on |-> Nil, todo |-> <<>>, seen |-> 0, held |-> FALSE, chunks |-> 0, revoking |-> FALSE, told |-> Nil]

\* A surface has just been prepared, or its document is loaded and has its lease.
Init ==
  /\ surf \in [Surfaces -> {[at |-> "bound", entered |-> e, ready |-> e, request |-> 1, watches |-> 0] : e \in BOOLEAN}]
  /\ lease = [s \in Surfaces |-> 1] /\ expired = {} /\ active = 0
  /\ files = [s \in Surfaces |-> 0] /\ denied = FALSE
  /\ fileMu = Free /\ leaseMu = Free /\ late = {}
  /\ call = [c \in Calls |-> Idle]

TypeOK ==
  /\ \A s \in Surfaces : surf[s].at \in {"bound", "removed", "pruned"} /\ surf[s].watches \in 0..MaxWatches
  /\ active \in 0..MaxActive /\ expired \subseteq Surfaces /\ late \subseteq Surfaces
  /\ \A c \in Calls : call[c].kind \in DOMAIN Handlers \cup {Nil} /\ call[c].seen \in 0..MaxLease
  /\ \A m \in {fileMu, leaseMu} : m.readers \cup m.waiting \subseteq Calls

Bound(s) == surf[s].at = "bound"
Step(c) == Head(call[c].todo)
Last(c) == Len(call[c].todo) = 1
Open(c) == call[c].kind # Nil /\ call[c].told = Nil
Running(c, step) == Open(c) /\ ~call[c].revoking /\ Step(c) = step
Moved(c) == [call[c] EXCEPT !.todo = Tail(@)]

\* What is left of a request that has returned: what its caller was told, and which
\* request it was if it loaded the document.
Loads == {"enter", "check", "asset"}
Over(c, told) ==
  [Idle EXCEPT !.kind = IF call[c].kind \in Loads THEN call[c].kind ELSE Nil, !.on = call[c].on, !.told = told]

Unlocked(m, c) == [readers |-> m.readers \ {c}, waiting |-> m.waiting \ {c}]

\* The deferred calls of a handler: both mutexes and the reservation, which goes
\* back to its own binding even when the binding has been removed.
Returned(c, told) ==
  LET s == call[c].on IN
  /\ call' = [call EXCEPT ![c] = Over(c, told)]
  /\ surf' = [surf EXCEPT ![s].watches = IF call[c].held THEN @ - 1 ELSE @]
  /\ active' = IF call[c].held THEN active - 1 ELSE active
  /\ fileMu' = Unlocked(fileMu, c) /\ leaseMu' = Unlocked(leaseMu, c)

\* A write that has stored bytes and then fails has an unknown outcome.
Failed(c, told) ==
  /\ Returned(c, IF call[c].kind = "transfer" /\ call[c].chunks > 0 THEN "unknown" ELSE told)
  /\ UNCHANGED <<lease, expired, files, denied, late>>

\* A step of a handler that touches nothing but the request itself.
Passed(c, now) ==
  /\ IF Last(c) THEN Returned(c, "ok")
     ELSE call' = [call EXCEPT ![c] = now] /\ UNCHANGED <<surf, active, fileMu, leaseMu>>
  /\ UNCHANGED <<lease, expired, files, denied, late>>

Tested(c, holds, told) == IF holds THEN Passed(c, Moved(c)) ELSE Failed(c, told)

Start(c, kind, s) ==
  /\ call[c] = Idle
  /\ call' = [call EXCEPT ![c] = [Idle EXCEPT !.kind = kind, !.on = s, !.todo = Handlers[kind]]]
  /\ UNCHANGED <<surf, lease, expired, active, files, denied, fileMu, leaseMu, late>>

-----------------------------------------------------------------------------
(* Steps. *)

RLockable(c, m) == m.waiting = {} /\ c \notin m.readers
Lockable(c, m) == c \in m.waiting /\ m.readers = {}

LeaseRead(c) ==
  /\ Running(c, "rlease") /\ RLockable(c, leaseMu)
  /\ leaseMu' = [leaseMu EXCEPT !.readers = @ \cup {c}] /\ call' = [call EXCEPT ![c] = Moved(c)]
  /\ UNCHANGED <<surf, lease, expired, active, files, denied, fileMu, late>>

Fence(c) ==
  /\ Running(c, "fence") /\ RLockable(c, fileMu)
  /\ fileMu' = [fileMu EXCEPT !.readers = @ \cup {c}] /\ call' = [call EXCEPT ![c] = Moved(c)]
  /\ UNCHANGED <<surf, lease, expired, active, files, denied, leaseMu, late>>

\* A denied plugin loses its tokens, and the request that found out goes on to
\* remove its surfaces.
revokeDeniedPluginRuntime(c) ==
  /\ lease' = [s \in Surfaces |-> 0]
  /\ call' = [call EXCEPT ![c].revoking = TRUE]
  /\ fileMu' = [fileMu EXCEPT !.waiting = @ \cup {c}]
  /\ UNCHANGED <<surf, expired, active, files, denied, leaseMu, late>>

\* webSurface copies the binding under mu; the entry credential is good until
\* the surface is entered, the resource credential after that.
webSurface(c) ==
  /\ Running(c, "snapshot")
  /\ LET b == surf[call[c].on] IN
     IF Bound(call[c].on) /\ b.entered = (call[c].kind # "enter")
     THEN Passed(c, [Moved(c) EXCEPT !.seen = b.request]) ELSE Failed(c, "audience")

\* The copied asset session is validated without the lock.
validateSurfaceAssetSession(c) ==
  LET s == call[c].on IN
  /\ Running(c, "validate")
  /\ IF s \in expired \/ lease[s] = 0 THEN Failed(c, "revoked")
     ELSE IF call[c].seen # lease[s] THEN Failed(c, "renewed")
     ELSE IF denied THEN revokeDeniedPluginRuntime(c)
     ELSE Passed(c, Moved(c))

canRun(c) ==
  /\ Running(c, "run")
  /\ IF denied THEN revokeDeniedPluginRuntime(c) ELSE Passed(c, Moved(c))

\* Network access of a denied plugin is refused; its surfaces stay.
connectionCeiling(c) == Running(c, "ceiling") /\ Tested(c, ~denied, "denied")

GatewayReady(c) == Running(c, "ready") /\ Tested(c, surf[call[c].on].ready, "notReady")

\* The parent's gateway token and the runtime generation it was minted for.
Gateway(c) == Running(c, "gateway") /\ Tested(c, lease[call[c].on] # 0 /\ call[c].on \notin expired, "revoked")

\* A request's context ends with its binding and with the lease.
Current(c) == Running(c, "current") /\ Tested(c, Bound(call[c].on) /\ call[c].on \notin expired, "canceled")

liveFileSurface(c) ==
  /\ Running(c, "live")
  /\ Tested(c, Bound(call[c].on) /\ surf[call[c].on].ready /\ call[c].on \notin expired, "revoked")

BoundStill(c) == Running(c, "bound") /\ Tested(c, Bound(call[c].on), "revoked")

\* Reading the asset, receiving an upload, choosing a file and connecting take
\* time and may fail.
SlowIO(c) ==
  /\ Open(c) /\ ~call[c].revoking /\ Step(c) \in {"read", "stage", "pick", "dial"}
  /\ \E ok \in BOOLEAN : Tested(c, ok, "failed")

\* The entry credential is spent under mu.
Enter(c) ==
  LET s == call[c].on IN
  /\ Running(c, "enter")
  /\ IF Bound(s) /\ ~surf[s].entered
     THEN /\ call' = [call EXCEPT ![c] = Over(c, "ok")] /\ leaseMu' = Unlocked(leaseMu, c)
          /\ surf' = [surf EXCEPT ![s].entered = TRUE]
          /\ UNCHANGED <<lease, expired, active, files, denied, fileMu, late>>
     ELSE Failed(c, "audience")

reserveWebResource(c) ==
  LET s == call[c].on IN
  /\ Running(c, "reserve")
  /\ IF ~Bound(s) THEN Failed(c, "revoked")
     ELSE IF surf[s].watches >= MaxWatches \/ active >= MaxActive THEN Failed(c, "limit")
     ELSE /\ call' = [call EXCEPT ![c] = [Moved(c) EXCEPT !.held = TRUE]]
          /\ surf' = [surf EXCEPT ![s].watches = @ + 1] /\ active' = active + 1
          /\ UNCHANGED <<lease, expired, files, denied, fileMu, leaseMu, late>>

Acted(c) == late' = IF surf[call[c].on].at = "removed" THEN late \cup {call[c].on} ELSE late

\* A finite operation on settings, storage or a staged upload, under the fence.
\* A watch lets the fence go before it compares what it read.
Act(c) ==
  /\ Running(c, "act") /\ Acted(c)
  /\ IF call[c].kind = "watch"
     THEN /\ call' = [call EXCEPT ![c] = Moved(c)] /\ fileMu' = Unlocked(fileMu, c)
          /\ UNCHANGED <<surf, active, leaseMu>>
     ELSE Returned(c, "ok")
  /\ UNCHANGED <<lease, expired, files, denied>>

\* A watch reports a change or that its time is over, or looks again a second
\* later, unless its binding has ended.
Look(c) ==
  /\ Running(c, "look")
  /\ \/ Passed(c, call[c])
     \/ Bound(call[c].on) /\ call' = [call EXCEPT ![c].todo = WebResource \o <<"look">>]
        /\ UNCHANGED <<surf, lease, expired, active, files, denied, fileMu, leaseMu, late>>
     \/ ~Bound(call[c].on) /\ Failed(c, "revoked")

\* One chunk goes through the handle; the next one is authorised anew.
Chunk(c) ==
  /\ Running(c, "chunk")
  /\ \/ /\ Acted(c) /\ Returned(c, "ok")
        /\ UNCHANGED <<lease, expired, files, denied>>
     \/ /\ call[c].chunks < MaxChunks /\ Acted(c)
        /\ call' = [call EXCEPT ![c].todo = webFileChunk, ![c].chunks = @ + 1] /\ fileMu' = Unlocked(fileMu, c)
        /\ UNCHANGED <<surf, lease, expired, active, files, denied, leaseMu>>
     \/ Failed(c, "failed")

\* A handle is opened, or a chosen file attached, for the surface.
OpenFile(c) ==
  /\ Running(c, "open") /\ Acted(c) /\ Returned(c, "ok")
  /\ files' = [files EXCEPT ![call[c].on] = 1]
  /\ UNCHANGED <<lease, expired, denied>>

\* A handle is read, written, moved or synchronised, or closed; a write that fails
\* after some bytes has an unknown outcome.
UseHandle(c) ==
  /\ Running(c, "use")
  /\ IF files[call[c].on] = 0 THEN Failed(c, "closed")
     ELSE /\ Acted(c) /\ \E told \in {"ok", "failed", "unknown"} : Returned(c, told)
          /\ \E closes \in BOOLEAN : files' = [files EXCEPT ![call[c].on] = IF closes THEN 0 ELSE @]
          /\ UNCHANGED <<lease, expired, denied>>

\* A channel or a response body ends when it is closed, and is closed when its
\* binding or its lease ends.
CloseChannel(c) == Running(c, "hold") /\ Passed(c, call[c])

\* Writers announce themselves before they wait for the readers.
AskLock(c) ==
  /\ \/ /\ Running(c, "wlease") /\ c \notin leaseMu.waiting
        /\ leaseMu' = [leaseMu EXCEPT !.waiting = @ \cup {c}] /\ UNCHANGED fileMu
     \/ /\ Running(c, "remove") /\ c \notin fileMu.waiting
        /\ fileMu' = [fileMu EXCEPT !.waiting = @ \cup {c}] /\ UNCHANGED leaseMu
  /\ UNCHANGED <<surf, lease, expired, active, files, denied, call, late>>

LeaseLocked(c) ==
  /\ Running(c, "wlease") /\ Lockable(c, leaseMu)
  /\ call' = [call EXCEPT ![c] = Moved(c)]
  /\ UNCHANGED <<surf, lease, expired, active, files, denied, fileMu, leaseMu, late>>

\* The token store replaces the asset session; the bindings of the surface
\* follow (renewWebSurface).
renewWebSurface(s, version) ==
  /\ surf' = IF Bound(s) THEN [surf EXCEPT ![s].request = version, ![s].ready = TRUE] ELSE surf
  /\ expired' = expired \ {s}

MintGatewayToken(c) ==
  LET s == call[c].on IN
  /\ Running(c, "mint")
  /\ IF lease[s] = 0 \/ s \in expired \/ lease[s] = MaxLease THEN Failed(c, "revoked")
     ELSE /\ lease' = [lease EXCEPT ![s] = @ + 1] /\ renewWebSurface(s, lease[s] + 1)
          /\ call' = [call EXCEPT ![c] = Over(c, "ok")] /\ leaseMu' = Unlocked(leaseMu, c)
          /\ UNCHANGED <<active, files, denied, fileMu, late>>

Dispose(c) ==
  /\ Running(c, "dispose")
  /\ lease' = [lease EXCEPT ![call[c].on] = 0] /\ call' = [call EXCEPT ![c] = Moved(c)]
  /\ UNCHANGED <<surf, expired, active, files, denied, fileMu, leaseMu, late>>

\* Mutant of removeWebSurfaces: it does not wait for the operations under the fence.
removeWebSurfacesUnfenced(c, gone) ==
  /\ c \in fileMu.waiting
  /\ surf' = [s \in Surfaces |-> IF s \in gone /\ Bound(s) THEN [surf[s] EXCEPT !.at = "removed"] ELSE surf[s]]
  /\ files' = [s \in Surfaces |-> IF s \in gone /\ Bound(s) THEN 0 ELSE files[s]]
  /\ fileMu' = Unlocked(fileMu, c) /\ leaseMu' = Unlocked(leaseMu, c)

\* Bindings are canceled and dropped and their file handles closed, all under
\* fileMu and mu.
removeWebSurfaces(c, gone) ==
  /\ Lockable(c, fileMu)
  /\ surf' = [s \in Surfaces |-> IF s \in gone /\ Bound(s) THEN [surf[s] EXCEPT !.at = "removed"] ELSE surf[s]]
  /\ files' = [s \in Surfaces |-> IF s \in gone /\ Bound(s) THEN 0 ELSE files[s]]
  /\ fileMu' = Unlocked(fileMu, c) /\ leaseMu' = Unlocked(leaseMu, c)

Disposed(c) ==
  /\ Running(c, "remove") /\ removeWebSurfaces(c, {call[c].on})
  /\ call' = [call EXCEPT ![c] = Over(c, "ok")]
  /\ UNCHANGED <<lease, expired, active, denied, late>>

\* The request that found the plugin denied fails when its surfaces are gone; its
\* reservation is given back.
Denied(c) ==
  /\ Open(c) /\ call[c].revoking /\ removeWebSurfaces(c, Surfaces)
  /\ call' = [call EXCEPT ![c].told = "revoking"]
  /\ UNCHANGED <<lease, expired, active, denied, late>>

DeniedReturns(c) ==
  /\ call[c].told = "revoking" /\ Failed(c, "denied")

\* prepareWebSurface for another surface drops the bindings whose lease is over,
\* without the fence and without closing their files.
Prune(s) ==
  /\ s \in expired /\ Bound(s)
  /\ surf' = [surf EXCEPT ![s].at = "pruned"]
  /\ UNCHANGED <<lease, expired, active, files, denied, fileMu, leaseMu, call, late>>

Expire(s) ==
  /\ s \notin expired /\ expired' = expired \cup {s}
  /\ UNCHANGED <<surf, lease, active, files, denied, fileMu, leaseMu, call, late>>

PolicyDenies ==
  /\ ~denied /\ denied' = TRUE
  /\ UNCHANGED <<surf, lease, expired, active, files, fileMu, leaseMu, call, late>>

Request(c) ==
  \/ LeaseRead(c) \/ Fence(c) \/ webSurface(c) \/ validateSurfaceAssetSession(c) \/ canRun(c)
  \/ connectionCeiling(c) \/ GatewayReady(c) \/ Gateway(c) \/ Current(c) \/ liveFileSurface(c) \/ BoundStill(c) \/ SlowIO(c)
  \/ Enter(c) \/ reserveWebResource(c) \/ Act(c) \/ Look(c) \/ Chunk(c) \/ OpenFile(c) \/ UseHandle(c) \/ CloseChannel(c)
  \/ AskLock(c) \/ LeaseLocked(c) \/ MintGatewayToken(c) \/ Dispose(c) \/ Disposed(c) \/ Denied(c) \/ DeniedReturns(c)

Next ==
  \/ \E c \in Calls : Request(c) \/ \E kind \in DOMAIN Handlers, s \in Surfaces : Start(c, kind, s)
  \/ \E s \in Surfaces : Prune(s) \/ Expire(s)
  \/ PolicyDenies

Spec == Init /\ [][Next]_vars

-----------------------------------------------------------------------------
(* Once removeWebSurfaces has returned for a surface, no operation that had    *)
(* passed its checks earlier still stores, commits, opens or attaches anything *)
(* for it, and none of its file handles is left open (the fence of WebResource,*)
(* webFileChunk, SurfaceFile and the BeforeCommit of uploads).  Bindings that  *)
(* prepareWebSurface prunes after their lease keep their handles.              *)
RemovedIsStill ==
  /\ late = {}
  /\ \A s \in Surfaces : surf[s].at = "removed" => files[s] = 0

(* The counters of reservations are exact: they count the requests that hold a *)
(* reservation and have not returned, whatever way a request ends and whether  *)
(* or not its binding still exists (reserveWebResource).                       *)
ReservationsExact ==
  LET holders == {c \in Calls : call[c].held} IN
  /\ active = Cardinality(holders)
  /\ \A s \in Surfaces : surf[s].watches = Cardinality({c \in holders : call[c].on = s})
  /\ \A c \in holders : call[c].told \in {Nil, "revoking"}

(* The entry credential admits one document however many requests present it,  *)
(* and a renewal is invisible to requests that load the document: a request    *)
(* under leaseMu never presents an asset session that was replaced under it    *)
(* (EnterWebSurface, ValidateWebSurface, ReadWebSurfaceAsset).                 *)
LoadsAreAtomic ==
  /\ \A s \in Surfaces : Cardinality({c \in Calls : call[c].kind = "enter" /\ call[c].on = s /\ call[c].told = "ok"}) <= 1
  /\ \A c \in Calls : call[c].told = "renewed" => call[c].kind \notin Loads

(* Requests cannot wait for one another in a circle: whoever waits for leaseMu *)
(* holds neither mutex, and whoever waits for fileMu does not hold it (the     *)
(* policy check, which may remove surfaces, comes before the fence).           *)
LocksOrdered ==
  \A c \in Calls :
    /\ (c \in leaseMu.waiting \/ Running(c, "rlease")) /\ ~Running(c, "mint") => c \notin fileMu.readers \cup leaseMu.readers
    /\ (c \in fileMu.waiting \/ Running(c, "fence")) => c \notin fileMu.readers

=============================================================================
