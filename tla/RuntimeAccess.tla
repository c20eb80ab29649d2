--------------------------- MODULE RuntimeAccess ---------------------------
(***************************************************************************)
(* What an invocation may do through the Host's I/O broker: the access its *)
(* method declares and the registration made of it, and the decision on    *)
(* every control request of the worker (pkg/host/runtime_io.go,            *)
(* plugin_data_upgrade.go), on mounts and selected files                   *)
(* (internal/resourceio/service.go, filesystem.go, copy.go, selected*.go)  *)
(* and on the network (pkg/host/runtime_network.go).                       *)
(*                                                                         *)
(* The rights of the session and the declarations of the method are chosen *)
(* at the start; every call records what it did.  RuntimeIO models the     *)
(* handles and their races, ReviewedResources the authority behind a       *)
(* selection or a connection.                                              *)
(***************************************************************************)
EXTENDS Integers, FiniteSets

CONSTANTS Families  \* the kinds of invocation to look at

VARIABLES inv,     \* rights and declarations of the invocation
          reg,     \* its registration: none, refused or accepted
          handle,  \* the file it has open
          did,     \* what its last call did
          said,    \* how that call was answered
          net      \* its network call

vars == <<inv, reg, handle, did, said, net>>

StorageOps == [files |-> {"read", "write", "delete", "list"},
               kv |-> {"get", "put", "delete", "list"}, sqlite |-> {"query", "exec"}]

Kinds == DOMAIN StorageOps

\* The operations of a process: those that only look, and the rest.
ProcessLooks == {"attach", "status", "read_stdout", "read_stderr", "wait"}

ProcessOps == ProcessLooks \union {"start", "write_stdin", "close_stdin", "terminate", "kill", "close"}

Transports == {"http", "websocket", "tcp", "udp"}

SafeMethods == {"GET", "HEAD", "OPTIONS"}

None == [place |-> "none", read |-> FALSE, write |-> FALSE]

NoCall == [stage |-> "idle", transport |-> "none", method |-> "", origin |-> "a", first |-> "",
           crossed |-> FALSE, lease |-> FALSE, canceled |-> FALSE, sent |-> FALSE]

Base == [fam |-> "mount", canRead |-> TRUE, canWrite |-> TRUE, readOnly |-> FALSE, perms |-> {},
         mountReadOnly |-> FALSE, selWritable |-> FALSE, stores |-> {}, process |-> {},
         declaredBytes |-> 0, transactions |-> FALSE, upgrade |-> "none",
         connector |-> [transport |-> "none", methods |-> {}, secret |-> FALSE, tls |-> FALSE]]

FilePermissions == {"fs.workspace.read", "fs.workspace.write", "fs.selected.read", "fs.selected.write"}

\* A manifest's declarations: the operations of a store are of its kind, a plugin with
\* process access holds the permission for it, and the names of its stores are its own.
Invocations(f) ==
  CASE f = "mount" ->
         {[Base EXCEPT !.canRead = r, !.canWrite = w, !.perms = p, !.mountReadOnly = ro, !.selWritable = sw] :
            r, w, ro, sw \in BOOLEAN, p \in SUBSET FilePermissions}
    [] f = "storage" ->
         UNION {{[Base EXCEPT !.fam = f, !.canRead = r, !.canWrite = w, !.transactions = t,
                    !.stores = {[id |-> "data", kind |-> k, ops |-> o]}] :
                   r, w, t \in BOOLEAN, o \in SUBSET StorageOps[k] \ {{}}} : k \in Kinds}
    [] f = "process" ->
         {[Base EXCEPT !.fam = f, !.canRead = r, !.canWrite = w, !.readOnly = ro, !.process = o,
             !.perms = {"process.local"}, !.declaredBytes = b,
             !.stores = {[id |-> i, kind |-> "kv", ops |-> {"get"}]}] :
            r, w, ro \in BOOLEAN, o \in {ProcessOps, ProcessLooks, {"start"}}, b \in {0, 2},
            i \in {"data", "process.local"}}
    [] f = "network" ->
         {[Base EXCEPT !.fam = f, !.canRead = r, !.canWrite = w, !.perms = p,
             !.connector = [transport |-> t, secret |-> s, tls |-> x,
                            methods |-> IF t = "http" THEN {"GET", "POST"} ELSE {}]] :
            r, w, s, x \in BOOLEAN, t \in Transports,
            p \in {{"network.client"}, {"network.client", "network.listen"}}}
    [] f = "upgrade" -> {[Base EXCEPT !.fam = f, !.upgrade = "active"]}

TypeOK ==
  /\ reg \in {"none", "refused", "accepted"} /\ said \in {"none", "ok", "denied", "invalid"}
  /\ inv.perms \subseteq FilePermissions \union {"process.local", "network.client", "network.listen"}
  /\ net.stage \in {"idle", "authorized", "leased", "granted", "ready", "open", "ended"}

Init ==
  /\ \E f \in Families : inv \in Invocations(f)
  /\ reg = "none" /\ handle = None /\ did = {} /\ said = "none" /\ net = NoCall

-----------------------------------------------------------------------------
(* Registration.                                                           *)

\* The handle grants of the payload: one for every store, under its name.
mintWorkerStorageHandleGrants == {s.id : s \in inv.stores}

validRuntimeStorageOperation(kind, op) == kind \in Kinds /\ op \in StorageOps[kind]

validRuntimeNetworkAccess(c) ==
  IF c.transport = "http" THEN c.methods # {} ELSE c.transport \in Transports /\ c.methods = {}

newHostRuntimeIORegistration ==
  /\ inv.connector.transport # "none" =>
       validRuntimeNetworkAccess(inv.connector) /\ "network.client" \in inv.perms
  /\ inv.process # {} => "process.local" \in mintWorkerStorageHandleGrants
  /\ inv.process \subseteq ProcessOps
  /\ \A s \in inv.stores :
       /\ s.id \in mintWorkerStorageHandleGrants /\ s.ops # {}
       /\ \A o \in s.ops : validRuntimeStorageOperation(s.kind, o)

register ==
  /\ reg = "none"
  /\ reg' = IF newHostRuntimeIORegistration THEN "accepted" ELSE "refused"
  /\ UNCHANGED <<inv, handle, did, said, net>>

Answer(verdict, effects) == said' = verdict /\ did' = IF verdict = "ok" THEN effects ELSE {}

Ready == reg = "accepted"

-----------------------------------------------------------------------------
(* Storage and processes.                                                  *)

runtimeStorageWritesNoSQLite(kind, op) == op \notin {"read", "list", "get", "query", "exec"}

runtimeStorageOperationWrites(kind, op) ==
  CASE kind = "files" -> op \notin {"read", "list"}
    [] kind = "kv" -> op \notin {"get", "list"}
    [] kind = "sqlite" -> op # "query"

\* The call of the data broker an operation ends in; none for an operation of another kind.
dispatchStorageFiles(op) ==
  CASE op = "read" -> "ReadFile" [] op = "write" -> "WriteFile" [] op = "delete" -> "DeleteFile"
    [] op = "list" -> "ListFiles" [] OTHER -> "none"

dispatchStorageKV(op) ==
  CASE op = "get" -> "GetKV" [] op = "put" -> "PutKV" [] op = "delete" -> "DeleteKV"
    [] op = "list" -> "ListKV" [] OTHER -> "none"

\* A batch of statements is an exec only.
dispatchStorageSQLite(op, batch) ==
  CASE op = "exec" -> "ExecSQLite" [] op = "query" /\ ~batch -> "QuerySQLite" [] OTHER -> "none"

DataCall(kind, op, batch) ==
  CASE kind = "files" -> dispatchStorageFiles(op) [] kind = "kv" -> dispatchStorageKV(op)
    [] kind = "sqlite" -> dispatchStorageSQLite(op, batch)

AllOps == UNION {StorageOps[k] : k \in Kinds}

storageAllowed(kind, op, batch) ==
  /\ batch => inv.transactions
  /\ \E s \in inv.stores : s.kind = kind /\ op \in s.ops
  /\ IF runtimeStorageOperationWrites(kind, op) THEN inv.canWrite ELSE inv.canRead

dispatchStorage(kind, op, batch) ==
  /\ Ready /\ inv.fam = "storage" /\ inv.upgrade = "none"
  /\ IF ~storageAllowed(kind, op, batch) THEN Answer("denied", {})
     ELSE LET c == DataCall(kind, op, batch)
          IN IF c = "none" THEN Answer("invalid", {}) ELSE Answer("ok", {[place |-> "store", what |-> c]})
  /\ UNCHANGED <<inv, reg, handle, net>>

\* A worker that converts data sees the two data sets and nothing else, until the
\* conversion has ended; the input is read only.
dispatchUpgrade(set, kind, op) ==
  /\ Ready /\ inv.fam = "upgrade"
  /\ LET settings == kind = "settings"
         writes == IF settings THEN op = "write" ELSE runtimeStorageOperationWrites(kind, op)
         known == IF settings THEN op \in {"read", "write"} ELSE validRuntimeStorageOperation(kind, op)
         call == IF settings THEN (IF op = "read" THEN "ReadSettings" ELSE "WriteSettings")
                 ELSE DataCall(kind, op, FALSE)
     IN IF inv.upgrade # "active" \/ (set = "input" /\ writes) \/ ~known THEN Answer("denied", {})
        ELSE Answer("ok", {[place |-> set, what |-> call]})
  /\ UNCHANGED <<inv, reg, handle, net>>

UpgradeEnds ==
  /\ inv.upgrade = "active" /\ inv' = [inv EXCEPT !.upgrade = "over"] /\ did' = {}
  /\ UNCHANGED <<reg, handle, said, net>>

\* The output buffer a start asks for: the declared one when it names none, never more.
applyProcessLimits(asked) ==
  IF inv.declaredBytes = 0 THEN <<"ok", asked>>
  ELSE IF asked = 0 THEN <<"ok", inv.declaredBytes>>
  ELSE IF asked > inv.declaredBytes THEN <<"denied", 0>> ELSE <<"ok", asked>>

\* Mutant of processAllowed: whatever the method declares.
processUndeclared(op) == inv.canRead /\ (op \notin ProcessLooks => ~inv.readOnly /\ inv.canWrite)

processAllowed(op) ==
  /\ inv.canRead /\ (op \notin ProcessLooks => ~inv.readOnly /\ inv.canWrite)
  /\ op \in inv.process

dispatchProcess(op, asked) ==
  /\ Ready /\ inv.fam = "process"
  /\ LET limits == IF op = "start" THEN applyProcessLimits(asked) ELSE <<"ok", 0>>
     IN IF ~processAllowed(op) THEN Answer("denied", {})
        ELSE Answer(limits[1], {[place |-> "process", what |-> op, bytes |-> limits[2]]})
  /\ UNCHANGED <<inv, reg, handle, net>>

-----------------------------------------------------------------------------
(* Mounts and selected files.                                              *)

allowedMount(write) ==
  /\ inv.canRead /\ (write => inv.canWrite)
  /\ IF write THEN "fs.workspace.write" \in inv.perms
     ELSE {"fs.workspace.read", "fs.workspace.write"} \intersect inv.perms # {}

\* selectedMount.useContext and WithSelection: the rights, then what was approved.
useSelection(write) ==
  /\ inv.canRead /\ (write => inv.canWrite /\ inv.selWritable)
  /\ IF write THEN "fs.selected.write" \in inv.perms
     ELSE {"fs.selected.read", "fs.selected.write"} \intersect inv.perms # {}

resolveMount(place, write) ==
  IF place = "selected" THEN useSelection(write) ELSE allowedMount(write)

Effect(place, what) == [place |-> place, what |-> what]

Options == [read : BOOLEAN, write : BOOLEAN, create : BOOLEAN, createNew : BOOLEAN,
            truncate : BOOLEAN, append : BOOLEAN]

normalizeOpenOptions(o) ==
  /\ o.read \/ o.write
  /\ o.create \/ o.createNew \/ o.truncate \/ o.append => o.write
  /\ ~(o.append /\ o.truncate)

\* Mount.OpenFile and Selection.OpenFile of a file that is there or can be created.
OpenAllowed(place, o) ==
  IF place = "selected" THEN useSelection(o.write) ELSE ~(inv.mountReadOnly /\ o.write)

OpenEffects(place, o) ==
  IF o.create \/ o.createNew \/ o.truncate THEN {Effect(place, "write")} ELSE {}

MountCall == Ready /\ inv.fam = "mount"

fsOpen(place, o) ==
  /\ MountCall /\ handle = None
  /\ LET write == o.write \/ o.create \/ o.createNew \/ o.truncate \/ o.append
     IN IF ~resolveMount(place, write) THEN Answer("denied", {}) /\ UNCHANGED handle
        ELSE IF ~normalizeOpenOptions(o) THEN Answer("invalid", {}) /\ UNCHANGED handle
        ELSE IF ~OpenAllowed(place, o) THEN Answer("denied", {}) /\ UNCHANGED handle
        ELSE /\ Answer("ok", OpenEffects(place, o))
             /\ handle' = [place |-> place, read |-> o.read, write |-> o.write]
  /\ UNCHANGED <<inv, reg, net>>

\* A read or write of the open file: what the descriptor allows, and for a selected file
\* the authority once more.
FileChunk(what) ==
  /\ MountCall /\ handle # None
  /\ IF (handle.place = "selected" => useSelection(what = "write")) /\ (IF what = "write" THEN handle.write ELSE handle.read)
     THEN Answer("ok", {Effect(handle.place, what)}) ELSE Answer("denied", {})
  /\ UNCHANGED <<inv, reg, handle, net>>

fsClose ==
  /\ MountCall /\ handle # None /\ handle' = None /\ Answer("ok", {})
  /\ UNCHANGED <<inv, reg, net>>

\* fs.stat, fs.read_dir.open, fs.watch.
fsLook(op, place) ==
  /\ MountCall
  /\ IF resolveMount(place, FALSE)
     THEN IF op = "watch" /\ place = "selected" THEN Answer("invalid", {}) ELSE Answer("ok", {Effect(place, "read")})
     ELSE Answer("denied", {})
  /\ UNCHANGED <<inv, reg, handle, net>>

MutationAllowed(place) == IF place = "selected" THEN useSelection(TRUE) ELSE ~inv.mountReadOnly

\* fs.mkdir, fs.remove, fs.set_times.
fsChange(place) ==
  /\ MountCall
  /\ IF resolveMount(place, TRUE) /\ MutationAllowed(place)
     THEN Answer("ok", {Effect(place, "write")}) ELSE Answer("denied", {})
  /\ UNCHANGED <<inv, reg, handle, net>>

renameResolves(from, to) == resolveMount(from, TRUE) /\ resolveMount(to, TRUE)

\* Within one mount.
fsRename(from, to) ==
  /\ MountCall
  /\ IF ~renameResolves(from, to) \/ ~MutationAllowed(from) THEN Answer("denied", {})
     ELSE IF from # to THEN Answer("invalid", {}) ELSE Answer("ok", {Effect(from, "write")})
  /\ UNCHANGED <<inv, reg, handle, net>>

\* copyBetweenMounts: the source is opened to read, the destination to write.
fsCopy(from, to) ==
  /\ MountCall
  /\ IF resolveMount(from, FALSE) /\ resolveMount(to, TRUE) /\ MutationAllowed(to)
     THEN Answer("ok", {Effect(from, "read"), Effect(to, "write")}) ELSE Answer("denied", {})
  /\ UNCHANGED <<inv, reg, handle, net>>

-----------------------------------------------------------------------------
(* The network.                                                            *)

\* Mutant of AuthorizeNetwork: any method of a declared connector.
authorizeAnyMethod(transport, method) == inv.connector.transport = transport

AuthorizeNetwork(transport, method) ==
  /\ inv.connector.transport = transport
  /\ transport = "http" => method \in inv.connector.methods

\* net.tcp.listen: a permission of its own, and the policy adapter's word.
listenTCP ==
  /\ Ready /\ inv.fam = "network"
  /\ \/ "network.listen" \in inv.perms /\ Answer("ok", {Effect("listen", "open")})
     \/ Answer("denied", {})
  /\ UNCHANGED <<inv, reg, handle, net>>

\* A request, or the opening of a socket, begins by an authorization of its target.
Begin(transport, method) ==
  /\ Ready /\ inv.fam = "network" /\ net.stage = "idle"
  /\ IF AuthorizeNetwork(transport, method)
     THEN /\ net' = [NoCall EXCEPT !.stage = "authorized", !.transport = transport, !.method = method]
          /\ Answer("ok", {})
     ELSE Answer("denied", {}) /\ UNCHANGED net
  /\ UNCHANGED <<inv, reg, handle>>

\* The right of the session to make this request at all (connectionAuthority.acquire).
acquireAllowed(method) == inv.canRead /\ (inv.canWrite \/ method \in SafeMethods)

acquire ==
  /\ net.stage = "authorized"
  /\ \/ acquireAllowed(net.method) /\ net' = [net EXCEPT !.stage = "leased", !.lease = TRUE]
     \/ net' = [net EXCEPT !.stage = "ended"]
  /\ UNCHANGED <<inv, reg, handle, did, said>>

\* Every failure after the lease was taken gives it back.
fail == net' = [net EXCEPT !.stage = "ended", !.lease = FALSE]

\* The private-network policy, the grant, and whether the lease still stands.
admitNetwork ==
  /\ net.stage = "leased"
  /\ \/ ~net.canceled /\ net' = [net EXCEPT !.stage = "granted"]
     \/ fail
  /\ UNCHANGED <<inv, reg, handle, did, said>>

\* Credentials go to the origin the request began with; a request that has left it keeps
\* none, and may not present a certificate.
RoundTrip ==
  /\ net.stage = "granted"
  /\ LET first == IF net.first = "" THEN net.origin ELSE net.first
         crossed == net.crossed \/ net.origin # first
         stays == [net EXCEPT !.first = first, !.crossed = crossed]
     IN \/ /\ ~net.canceled /\ ~(crossed /\ inv.connector.tls)
           /\ net' = [stays EXCEPT !.stage = "ready", !.sent = inv.connector.secret /\ ~crossed]
        \/ fail
  /\ UNCHANGED <<inv, reg, handle, did, said>>

\* The executor opens the connection, or not.
Open ==
  /\ net.stage = "ready"
  /\ \/ /\ ~net.canceled /\ net' = [net EXCEPT !.stage = "open"]
        /\ did' = {[place |-> "net", what |-> net.transport, origin |-> net.origin,
                    method |-> net.method, secret |-> net.sent]}
     \/ fail /\ did' = {}
  /\ UNCHANGED <<inv, reg, handle, said>>

\* A redirect of an HTTP request closes the response before the next hop; a 303 becomes a GET.
Redirect(origin, method) ==
  /\ net.stage = "open" /\ net.transport = "http" /\ method \in {net.method, "GET"}
  /\ net' = IF AuthorizeNetwork("http", method)
            THEN [net EXCEPT !.stage = "authorized", !.origin = origin, !.method = method,
                             !.lease = FALSE, !.sent = FALSE]
            ELSE [net EXCEPT !.stage = "ended", !.lease = FALSE]
  /\ did' = {}
  /\ UNCHANGED <<inv, reg, handle, said>>

\* The connection, the socket or the body is closed.
CloseConnection ==
  /\ net.stage = "open" /\ fail /\ did' = {}
  /\ UNCHANGED <<inv, reg, handle, said>>

\* The lease is canceled by a revocation: it leaves the table at once.
CancelLease ==
  /\ net.lease /\ net' = [net EXCEPT !.canceled = TRUE, !.lease = FALSE]
  /\ UNCHANGED <<inv, reg, handle, did, said>>

Next ==
  \/ register \/ UpgradeEnds
  \/ \E k \in Kinds, o \in AllOps, b \in BOOLEAN : dispatchStorage(k, o, b)
  \/ \E s \in {"input", "output"}, k \in Kinds \union {"settings"}, o \in AllOps : dispatchUpgrade(s, k, o)
  \/ \E o \in ProcessOps, n \in {0, 1, 3} : dispatchProcess(o, n)
  \/ \E p \in {"workspace", "selected"} :
       \/ fsChange(p) \/ \E o \in Options : fsOpen(p, o)
       \/ \E op \in {"stat", "read_dir", "watch"} : fsLook(op, p)
       \/ \E q \in {"workspace", "selected"} : fsRename(p, q) \/ fsCopy(p, q)
  \/ \E what \in {"read", "write"} : FileChunk(what)
  \/ fsClose \/ listenTCP
  \/ \E t \in Transports : \E m \in IF t = "http" THEN {"GET", "POST", "PUT"} ELSE {""} : Begin(t, m)
  \/ acquire \/ admitNetwork \/ RoundTrip \/ Open \/ CloseConnection \/ CancelLease
  \/ \E o \in {"a", "b"}, m \in {"GET", "POST"} : Redirect(o, m)

Spec == Init /\ [][Next]_vars

-----------------------------------------------------------------------------
(* Properties.                                                             *)

Mutates == {"WriteFile", "DeleteFile", "PutKV", "DeleteKV", "ExecSQLite", "WriteSettings"}

\* What an operation a method declares lets it do.
Performs == [files |-> [read |-> "ReadFile", write |-> "WriteFile", delete |-> "DeleteFile", list |-> "ListFiles"],
             kv |-> [get |-> "GetKV", put |-> "PutKV", delete |-> "DeleteKV", list |-> "ListKV"],
             sqlite |-> [query |-> "QuerySQLite", exec |-> "ExecSQLite"]]

ReadOf(place) == IF place = "selected" THEN "fs.selected.read" ELSE "fs.workspace.read"

WriteOf(place) == IF place = "selected" THEN "fs.selected.write" ELSE "fs.workspace.write"

MayRead(place) == inv.canRead /\ {ReadOf(place), WriteOf(place)} \intersect inv.perms # {}

MayWrite(place) ==
  /\ inv.canRead /\ inv.canWrite /\ WriteOf(place) \in inv.perms
  /\ IF place = "selected" THEN inv.selWritable ELSE ~inv.mountReadOnly

\* Whatever a call did, on a mount or a selected file, in a store, in the data sets of a
\* conversion, to a process or over the network, the rights of the session and the
\* permissions of the method cover it; what it did in a store, to a process or over the
\* network is an operation, a transport and an HTTP method that the method declares, after
\* every redirect too; and credentials only ever go to the origin a request began with (allowedMount, useContext, dispatchStorage,
\* dispatchUpgrade, dispatchProcess, AuthorizeNetwork, connectionAuthority.acquire,
\* RoundTrip).
EffectsWithinRights ==
  \A e \in did :
    CASE e.place \in {"workspace", "selected"} -> IF e.what = "write" THEN MayWrite(e.place) ELSE MayRead(e.place)
      [] e.place = "store" -> /\ IF e.what \in Mutates THEN inv.canWrite ELSE inv.canRead
                              /\ \E s \in inv.stores : \E o \in s.ops : e.what = Performs[s.kind][o]
      [] e.place = "input" -> e.what \notin Mutates
      [] e.place = "output" -> inv.upgrade = "active"
      [] e.place = "process" -> /\ e.what \in inv.process /\ "process.local" \in inv.perms
                                /\ inv.canRead /\ (e.what \notin ProcessLooks => inv.canWrite /\ ~inv.readOnly)
                                /\ inv.declaredBytes > 0 => e.bytes <= inv.declaredBytes
      [] e.place = "listen" -> "network.listen" \in inv.perms
      [] e.place = "net" -> /\ e.what = inv.connector.transport /\ "network.client" \in inv.perms
                            /\ e.what = "http" => e.method \in inv.connector.methods
                            /\ inv.canRead /\ (inv.canWrite \/ e.method \in SafeMethods)
                            /\ e.secret => e.origin = net.first /\ ~net.crossed

\* A network call that has ended holds no lease, and an open one whose lease was not
\* canceled holds it (admitNetwork, RoundTrip, OpenTCP, networkLeaseBody).
LeaseEndsWithCall ==
  /\ net.stage \in {"idle", "authorized", "ended"} => ~net.lease
  /\ net.stage \in {"leased", "granted", "ready", "open"} => net.lease \/ net.canceled

=============================================================================
