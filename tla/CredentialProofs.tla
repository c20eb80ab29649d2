-------------------------- MODULE CredentialProofs --------------------------
(***************************************************************************)
(* Proofs about what the Host hands out and takes back, for every value of *)
(* the constants.  SurfaceTokens: the token store, the surface sessions    *)
(* and the requests under way agree, a revoked epoch stays revoked and a   *)
(* torn-down session owns no live token.  RuntimeLeases (here L): a lease  *)
(* runs at most once, in the generation and the form it was minted for.    *)
(* Each has its inductive invariant beside its specification; the lemmas   *)
(* go through the actions.                                                 *)
(***************************************************************************)
EXTENDS SurfaceTokens, Sequences, TLAPS

USE DEF svcVars, tokVars, hostVars

RequestFields == {"pc", "scope", "st", "now", "tok", "drop", "todo"}
Special == Minting \cup {"authState", "authBind", "floor"}

\* A step leaves every token that it does not remove or mint in its session.
Carried == \A t \in DOMAIN records' :
             t \in 1..minted => t \in DOMAIN records /\ records'[t].ses = records[t].ses
\* A request that a Mint leaves behind: it is not special, or about to mint again
\* for a session of its own scope.
Goes(r) == /\ DOMAIN r = RequestFields /\ r.scope \notin fenced
           /\ r.pc \notin Special \/ (r.pc \in Minting /\ IsSession(r.st.ses) /\ r.st.ses.scope = r.scope)
TokensStay == UNCHANGED <<records, sessionIndex, minted, floors, saturated, fenced, revokedTo>>

\* The highest of one number (the only token of a request).
LEMMA MaxOfOne == ASSUME NEW t \in Nat PROVE Max({t}) = t
BY DEF Max

\* The highest of two numbers (RevokePlugin).
LEMMA MaxOfTwo == ASSUME NEW a \in Nat, NEW b \in Nat
                  PROVE Max({a, b}) \in {a, b} /\ Max({a, b}) >= a /\ Max({a, b}) >= b
<1>1. \E x \in {a, b} : \A y \in {a, b} : x >= y
  <2>1. CASE a >= b BY <2>1
  <2>2. CASE b >= a BY <2>2
  <2> QED BY <2>1, <2>2
<1> QED BY <1>1 DEF Max

\* A request that neither mints, nor validates a gateway token, nor raises a floor
\* only has to be one of a scope that is not torn down (reserveAuthorizedAction).
LEMMA PlainRequest ==
  ASSUME NEW r, NEW recs, NEW m, NEW closed,
         DOMAIN r = RequestFields, r.scope \notin closed, r.pc \notin Special
  PROVE RequestHolds(r, recs, m, closed)
BY Zenon DEF RequestHolds, RequestFields, Special

\* An idle goroutine holds up no teardown.
LEMMA IdleRequest ==
  ASSUME NEW recs, NEW m, NEW closed, TokenConstants, closed \subseteq Scopes
  PROVE RequestHolds(Idle, recs, m, closed)
<1>1. DOMAIN Idle = RequestFields /\ Idle.scope = Nil /\ Idle.pc = "idle"
  BY DEF Idle, RequestFields
<1>2. Idle.pc \notin Special BY <1>1 DEF Special, Minting
<1> QED BY <1>1, <1>2, PlainRequest, Zenon DEF TokenConstants

\* A request about to mint, for a session of its own scope.
LEMMA MintingRequest ==
  ASSUME NEW r, NEW recs, NEW m, NEW closed,
         DOMAIN r = RequestFields, r.scope \notin closed, r.pc \in Minting,
         IsSession(r.st.ses), r.st.ses.scope = r.scope
  PROVE RequestHolds(r, recs, m, closed)
<1>1. r.pc \notin {"authState", "authBind"} /\ r.pc # "floor" BY DEF Minting
<1> QED BY <1>1, Zenon DEF RequestHolds, RequestFields

\* What a request holds survives a step that carries the tokens over.
LEMMA CarriedRequest ==
  ASSUME RecordsHold, Carried, minted' \in Nat, minted <= minted',
         NEW r, NEW closed, RequestHolds(r, records, minted, closed)
  PROVE RequestHolds(r, records', minted', closed)
<1>1. ASSUME r.pc \in {"authState", "authBind"}
      PROVE \E t \in 1..minted' : r.tok = {t} /\ (t \in DOMAIN records' => records'[t].ses.scope = r.scope)
  <2>1. PICK t \in 1..minted : r.tok = {t} /\ (t \in DOMAIN records => records[t].ses.scope = r.scope)
    BY <1>1, Zenon DEF RequestHolds
  <2>2. t \in 1..minted' BY DEF RecordsHold
  <2>3. t \in DOMAIN records' => records'[t].ses.scope = r.scope BY <2>1, Zenon DEF Carried
  <2> QED BY <2>1, <2>2, <2>3, Zenon
<1> QED BY <1>1, Zenon DEF RequestHolds

\* The other requests keep what they hold while one of them moves on.
LEMMA RequestMoves ==
  ASSUME RequestsHold, RecordsHold, Carried, minted' \in Nat, minted <= minted', fenced' = fenced,
         NEW o \in Ops, NEW r, RequestHolds(r, records, minted, fenced),
         op' = [op EXCEPT ![o] = r]
  PROVE RequestsHold'
<1>1. DOMAIN op' = Ops /\ op'[o] = r /\ \A x \in Ops \ {o} : op'[x] = op[x]
  BY Zenon DEF RequestsHold
<1>2. \A x \in Ops : RequestHolds(op'[x], records, minted, fenced) BY <1>1, Zenon DEF RequestsHold
<1>3. \A x \in Ops : RequestHolds(op'[x], records', minted', fenced) BY <1>2, CarriedRequest, Zenon
<1> QED BY <1>1, <1>3, Zenon DEF RequestsHold

\* Requests that stay where they are still carry what they need.
LEMMA RequestsStay ==
  ASSUME RequestsHold, RecordsHold, Carried, minted' = minted, fenced' = fenced, op' = op
  PROVE RequestsHold'
<1>1. minted' \in Nat /\ minted <= minted' BY DEF RecordsHold
<1>2. \A x \in Ops : RequestHolds(op[x], records', minted', fenced)
  BY <1>1, CarriedRequest, Zenon DEF RequestsHold
<1> QED BY <1>2, Zenon DEF RequestsHold

-----------------------------------------------------------------------------
\* Revoking tokens, of whichever set, only ever helps (RevokeTokenID,
\* RevokeSurfaceGeneration).
LEMMA RevokeKeeps ==
  ASSUME RecordsHold, NEW S, records' = Revoke(S),
         UNCHANGED <<sessionIndex, minted, fenced, revokedTo>>
  PROVE RecordsHold' /\ Carried
<1>1. DOMAIN records' = DOMAIN records BY Zenon DEF Revoke
<1>2. ASSUME NEW t \in DOMAIN records
      PROVE /\ DOMAIN records'[t] = DOMAIN records[t] /\ records'[t].ses = records[t].ses
            /\ records[t].revoked => records'[t].revoked
  BY DEF Revoke, RecordsHold
<1> QED BY <1>1, <1>2, Zenon DEF RecordsHold, Carried

\* Consuming a record keeps what the store says of records (Validate with Consume).
LEMMA ConsumeKeeps ==
  ASSUME RecordsHold, NEW x \in DOMAIN records, Consume(x),
         UNCHANGED <<sessionIndex, minted, fenced, revokedTo>>
  PROVE RecordsHold' /\ Carried
<1>1. DOMAIN records' = DOMAIN records BY Zenon DEF Consume
<1>2. ASSUME NEW t \in DOMAIN records
      PROVE /\ DOMAIN records'[t] = DOMAIN records[t] /\ records'[t].ses = records[t].ses
            /\ records'[t].revoked = records[t].revoked
  BY DEF Consume, RecordsHold
<1> QED BY <1>1, <1>2, Zenon DEF RecordsHold, Carried

\* Pruning keeps what the store says of the other records
\* (pruneExpiredRecordsLocked).
LEMMA PruneKeeps ==
  ASSUME RecordsHold, NEW n, Prune(n), UNCHANGED <<fenced, revokedTo>>
  PROVE RecordsHold' /\ Carried
<1>1. /\ DOMAIN records' = Kept(n) /\ Kept(n) \subseteq DOMAIN records
      /\ \A t \in Kept(n) : records'[t] = records[t]
      /\ sessionIndex' = sessionIndex \cap Kept(n) /\ minted' = minted
  BY DEF Prune, Without, Kept
<1> QED BY <1>1, Zenon DEF RecordsHold, Carried

\* A token that Mint grants is of an epoch at or above every revocation and of a
\* scope that is not torn down: with a full table of floors a plugin without one
\* is refused.
LEMMA MintKeeps ==
  ASSUME RecordsHold, FloorsHold, NEW kind, NEW ses, NEW n, NEW exp,
         IsSession(ses), ses.scope \notin fenced, ~MintRefused(ses, n),
         Mint(Fresh, kind, ses, n, exp), UNCHANGED <<fenced, revokedTo>>
  PROVE RecordsHold' /\ Carried /\ minted' = minted + 1 /\ minted' \in Nat /\ minted <= minted'
<1> DEFINE t0 == minted + 1
           new == [kind |-> kind, ses |-> ses, exp |-> exp, revoked |-> FALSE, consumed |-> FALSE]
<1>1. /\ DOMAIN records' = Kept(n) \cup {t0} /\ Kept(n) \subseteq DOMAIN records
      /\ records'[t0] = new
      /\ \A t \in Kept(n) \ {t0} : records'[t] = records[t]
      /\ sessionIndex' = (sessionIndex \cap Kept(n)) \cup {t0}
  BY DEF Mint, Without, Kept, Put, Fresh
<1>2. minted \in Nat /\ minted' = t0 /\ t0 \in Nat /\ minted <= t0 /\ t0 \notin 1..minted
  BY DEF Mint, Fresh, RecordsHold
<1>3. ~(ses.epoch < revokedTo[ses.plugin])
  <2>1. ~(saturated /\ floors[ses.plugin] = 0) /\ ~(ses.epoch < floors[ses.plugin])
    BY Zenon DEF MintRefused
  <2> QED BY <2>1 DEF FloorsHold, IsSession
<1>4. /\ new.ses = ses /\ DOMAIN new = {"kind", "ses", "exp", "revoked", "consumed"}
  OBVIOUS
<1>5. 1..minted \subseteq 1..t0 /\ t0 \in 1..t0 BY <1>2
<1> HIDE DEF t0, new
<1>6. Carried BY <1>1, <1>2, Zenon DEF Carried
<1>7. ASSUME NEW t \in DOMAIN records'
      PROVE /\ t \in 1..t0 /\ IsSession(records'[t].ses)
            /\ DOMAIN records'[t] = {"kind", "ses", "exp", "revoked", "consumed"}
            /\ \/ t \notin sessionIndex'
               \/ records'[t].ses.epoch < revokedTo[records'[t].ses.plugin]
               \/ records'[t].ses.scope \in fenced
               => records'[t].revoked
  <2>1. CASE t = t0 BY <2>1, <1>1, <1>3, <1>4, <1>5, Zenon
  <2>2. CASE t # t0
    <3>1. t \in Kept(n) /\ t \in DOMAIN records /\ records'[t] = records[t] BY <2>2, <1>1, Zenon
    <3> QED BY <3>1, <1>1, <1>5, Zenon DEF RecordsHold
  <2> QED BY <2>1, <2>2, Zenon
<1>8. RecordsHold' BY <1>2, <1>7, Zenon DEF RecordsHold, IsSession
<1> QED BY <1>2, <1>6, <1>8, Zenon DEF t0

\* Removing sessions keeps what the service says of the others.
LEMMA SessionsShrink ==
  ASSUME SessionsHold, NEW S, sessions' = Without(sessions, S), fenced' = fenced
  PROVE SessionsHold'
<1>1. DOMAIN sessions' \subseteq DOMAIN sessions /\ \A s \in DOMAIN sessions' : sessions'[s] = sessions[s]
  BY Zenon DEF Without
<1> QED BY <1>1, Zenon DEF SessionsHold

\* The revoke floors keep what they say when neither they nor the epochs move.
LEMMA FloorsStay ==
  ASSUME FloorsHold, UNCHANGED <<floors, saturated, revokedTo, epoch>> PROVE FloorsHold'
BY Zenon DEF FloorsHold, FloorsFull

-----------------------------------------------------------------------------
\* A step of one request, given what it leaves of the tokens and the sessions.
LEMMA RequestStep ==
  ASSUME TokenInv, RecordsHold', Carried, minted' \in Nat, minted <= minted', SessionsHold',
         UNCHANGED <<floors, saturated, revokedTo, epoch, fenced>>,
         NEW o \in Ops, NEW r, Step(o, r), RequestHolds(r, records, minted, fenced)
  PROVE TokenInv'
<1>1. RequestsHold' BY RequestMoves, Zenon DEF Step, TokenInv
<1>2. FloorsHold' BY FloorsStay, Zenon DEF TokenInv
<1> QED BY <1>1, <1>2, Zenon DEF TokenInv

\* The same while no token changes.
LEMMA QuietStep ==
  ASSUME TokenInv, TokensStay, epoch' = epoch, SessionsHold',
         NEW o \in Ops, NEW r, Step(o, r), RequestHolds(r, records, minted, fenced)
  PROVE TokenInv'
<1>1. RecordsHold' BY Zenon DEF TokenInv, RecordsHold, TokensStay
<1>2. Carried BY Zenon DEF Carried, TokensStay
<1>3. minted' \in Nat /\ minted <= minted' BY DEF TokenInv, RecordsHold, TokensStay
<1> QED BY <1>1, <1>2, <1>3, RequestStep, Zenon DEF TokensStay

\* The same while tokens are revoked.
LEMMA RevokingStep ==
  ASSUME TokenInv, NEW S, records' = Revoke(S), SessionsHold',
         UNCHANGED <<sessionIndex, minted, floors, saturated, revokedTo, epoch, fenced>>,
         NEW o \in Ops, NEW r, Step(o, r), RequestHolds(r, records, minted, fenced)
  PROVE TokenInv'
<1>1. RecordsHold' /\ Carried BY RevokeKeeps, Zenon DEF TokenInv
<1>2. minted' \in Nat /\ minted <= minted' BY DEF TokenInv, RecordsHold
<1> QED BY <1>1, <1>2, RequestStep, Zenon

\* A request that asks for a token goes on, with it or without it.
LEMMA MintStep ==
  ASSUME TokenInv, UNCHANGED <<sessions, revokedTo, epoch, fenced>>,
         NEW o \in Ops, NEW kind, NEW n, NEW exp, NEW refused, NEW granted,
         op[o].pc \in Minting,
         \/ Prune(n) /\ Step(o, refused)
         \/ /\ ~MintRefused(op[o].st.ses, n)
            /\ Mint(Fresh, kind, op[o].st.ses, n, exp) /\ Step(o, granted),
         Goes(refused), Goes(granted)
  PROVE TokenInv'
<1>1. \A r \in {refused, granted} : RequestHolds(r, records, minted, fenced)
  BY PlainRequest, MintingRequest, Zenon DEF Goes
<1>2. SessionsHold' BY Zenon DEF TokenInv, SessionsHold
<1>3. CASE Prune(n) /\ Step(o, refused)
  <2>1. RecordsHold' /\ Carried BY <1>3, PruneKeeps, Zenon DEF TokenInv
  <2>2. minted' \in Nat /\ minted <= minted' /\ UNCHANGED <<floors, saturated>>
    BY <1>3 DEF Prune, TokenInv, RecordsHold
  <2> QED BY <1>1, <1>2, <1>3, <2>1, <2>2, RequestStep, Zenon
<1>4. CASE /\ ~MintRefused(op[o].st.ses, n)
           /\ Mint(Fresh, kind, op[o].st.ses, n, exp) /\ Step(o, granted)
  <2>1. IsSession(op[o].st.ses) /\ op[o].st.ses.scope \notin fenced
    BY Zenon DEF TokenInv, RequestsHold, RequestHolds
  <2>2. RecordsHold' /\ Carried /\ minted' \in Nat /\ minted <= minted'
    BY <1>4, <2>1, MintKeeps, Zenon DEF TokenInv
  <2>3. UNCHANGED <<floors, saturated>> BY <1>4, Zenon DEF Mint
  <2> QED BY <1>1, <1>2, <1>4, <2>2, <2>3, RequestStep, Zenon
<1> QED BY <1>3, <1>4, Zenon

\* What the invariant says of the request a step belongs to.
LEMMA OwnRequest ==
  ASSUME TokenConstants, TokenInv, NEW o \in Ops
  PROVE /\ DOMAIN op[o] = RequestFields /\ op[o].scope \notin fenced
        /\ DOMAIN Idle = RequestFields /\ Idle.scope \notin fenced /\ Idle.pc \notin Special
        /\ op[o].pc \in Minting => IsSession(op[o].st.ses) /\ op[o].st.ses.scope = op[o].scope
        /\ RequestHolds(Idle, records, minted, fenced)
<1>1. DOMAIN Idle = RequestFields /\ Idle.scope = Nil /\ Idle.pc = "idle"
  BY DEF Idle, RequestFields
<1>2. Idle.pc \notin Special BY <1>1 DEF Special, Minting
<1>3. Idle.scope \notin fenced BY <1>1, Zenon DEF TokenConstants, TokenInv
<1>4. RequestHolds(Idle, records, minted, fenced) BY IdleRequest, Zenon DEF TokenInv
<1> QED BY <1>1, <1>2, <1>3, <1>4, Zenon DEF TokenInv, RequestsHold, RequestHolds, RequestFields

-----------------------------------------------------------------------------
\* OpenSurface reserves a surface for a session of its own scope.
LEMMA OpenSurfaceKeeps ==
  ASSUME TokenConstants, TokenInv, NEW o \in Ops, NEW s \in Surfaces, NEW p \in Plugins, NEW c \in Scopes,
         OpenSurface(o, s, p, c)
  PROVE TokenInv'
<1> DEFINE ses == [surface |-> s, plugin |-> p, scope |-> c, epoch |-> epoch[p], gen |-> gens + 1]
           st == [ses |-> ses, exp |-> clock + AssetSessionTTL, issued |-> 0, prepared |-> FALSE, gateway |-> 0]
<1>1. c \notin fenced /\ TokensStay /\ epoch' = epoch /\ fenced' = fenced
  BY Zenon DEF OpenSurface, Enter, TokensStay
<1>2. PICK gone, todo :
        \/ /\ sessions' = Without(sessions, gone)
           /\ \/ Step(o, Idle)
              \/ Step(o, [[Idle EXCEPT !.scope = c, !.now = clock, !.st = st, !.todo = todo] EXCEPT !.pc = "cleanup"])
        \/ /\ sessions' = Put(Without(sessions, gone), s, st)
           /\ Step(o, [[Idle EXCEPT !.scope = c, !.now = clock, !.st = st, !.todo = todo] EXCEPT !.pc = "openMint"])
  BY Zenon DEF OpenSurface
<1>3. /\ st.ses = ses /\ DOMAIN st = {"ses", "exp", "issued", "prepared", "gateway"}
      /\ ses.plugin = p /\ ses.scope = c /\ ses.epoch = epoch[p]
  OBVIOUS
<1>4. IsSession(ses) BY <1>3, Zenon DEF IsSession, TokenInv, FloorsHold
<1> HIDE DEF ses, st
<1>5. SessionsHold'
  <2>1. CASE sessions' = Without(sessions, gone) BY <1>1, <2>1, SessionsShrink, Zenon DEF TokenInv
  <2>2. CASE sessions' = Put(Without(sessions, gone), s, st)
    <3>1. ASSUME NEW x \in DOMAIN sessions'
          PROVE sessions'[x] = st \/ (x \in DOMAIN sessions /\ sessions'[x] = sessions[x])
      BY <2>2, Zenon DEF Put, Without
    <3> QED BY <1>1, <1>3, <1>4, <3>1, Zenon DEF TokenInv, SessionsHold
  <2> QED BY <1>2, <2>1, <2>2, Zenon
<1>6. DOMAIN Idle = RequestFields BY OwnRequest, Zenon
<1>7. ASSUME NEW v \in {"cleanup", "openMint"}
      PROVE LET r == [[Idle EXCEPT !.scope = c, !.now = clock, !.st = st, !.todo = todo] EXCEPT !.pc = v]
            IN DOMAIN r = RequestFields /\ r.scope = c /\ r.pc = v /\ r.st = st
  BY <1>6 DEF RequestFields
<1>8. "cleanup" \notin Special /\ "openMint" \in Minting BY DEF Special, Minting
<1>9. CASE Step(o, Idle) BY <1>1, <1>5, <1>9, OwnRequest, QuietStep, Zenon
<1>10. CASE Step(o, [[Idle EXCEPT !.scope = c, !.now = clock, !.st = st, !.todo = todo] EXCEPT !.pc = "cleanup"])
  BY <1>1, <1>5, <1>7, <1>8, <1>10, PlainRequest, QuietStep, Zenon
<1>11. CASE Step(o, [[Idle EXCEPT !.scope = c, !.now = clock, !.st = st, !.todo = todo] EXCEPT !.pc = "openMint"])
  BY <1>1, <1>3, <1>4, <1>5, <1>7, <1>8, <1>11, MintingRequest, QuietStep, Zenon
<1> QED BY <1>2, <1>9, <1>10, <1>11, Zenon

\* The steps that revoke what a request dropped or superseded.
LEMMA RevocationsKeep ==
  ASSUME TokenConstants, TokenInv, NEW o \in Ops, revokeSurfaceTokens(o) \/ DropToken(o)
  PROVE TokenInv'
<1>1. SessionsHold' /\ UNCHANGED <<sessionIndex, minted, floors, saturated, revokedTo, epoch, fenced>>
  BY Zenon DEF revokeSurfaceTokens, DropToken, TokenInv, SessionsHold
<1>2. DOMAIN op[o] = RequestFields BY OwnRequest, Zenon
<1>3. CASE revokeSurfaceTokens(o)
  <2>1. PICK S, todo : /\ records' = Revoke(S)
                       /\ Step(o, Idle) \/ Step(o, [op[o] EXCEPT !.todo = todo])
    BY <1>3, Zenon DEF revokeSurfaceTokens
  <2> DEFINE r == [op[o] EXCEPT !.todo = todo]
  <2>2. /\ DOMAIN r = RequestFields /\ r.pc = op[o].pc /\ r.scope = op[o].scope
        /\ r.st = op[o].st /\ r.tok = op[o].tok /\ r.now = op[o].now
    BY <1>2 DEF RequestFields
  <2>3. RequestHolds(op[o], records, minted, fenced) BY Zenon DEF TokenInv, RequestsHold
  <2> HIDE DEF r
  <2>4. RequestHolds(r, records, minted, fenced) BY <1>2, <2>2, <2>3, Zenon DEF RequestHolds
  <2> QED BY <1>1, <2>1, <2>4, OwnRequest, RevokingStep, Zenon DEF r
<1>4. CASE DropToken(o)
  <2>1. PICK S, drop : /\ records' = Revoke(S)
                       /\ Step(o, Idle) \/ Step(o, [op[o] EXCEPT !.drop = drop])
    BY <1>4, Zenon DEF DropToken
  <2> DEFINE r == [op[o] EXCEPT !.drop = drop]
  <2>2. DOMAIN r = RequestFields /\ r.pc = "drop" /\ r.scope = op[o].scope
    BY <1>2, <1>4 DEF RequestFields, DropToken
  <2>3. r.pc \notin Special BY <2>2 DEF Special, Minting
  <2> HIDE DEF r
  <2>4. RequestHolds(r, records, minted, fenced) BY <2>2, <2>3, OwnRequest, PlainRequest, Zenon
  <2> QED BY <1>1, <2>1, <2>4, OwnRequest, RevokingStep, Zenon DEF r
<1> QED BY <1>3, <1>4, Zenon

\* The five places that mint: what they mint for is what the request holds.
LEMMA MintsKeep ==
  ASSUME TokenConstants, TokenInv, NEW o \in Ops,
         \/ OpenMint(o) \/ MintAssetSession(o) \/ MintRotatedAsset(o) \/ MintRotatedGateway(o)
         \/ \E kind \in {"confirm", "handle"} : MintBound(o, kind)
  PROVE TokenInv'
<1>1. UNCHANGED <<sessions, revokedTo, epoch, fenced>>
  BY Zenon DEF OpenMint, MintAssetSession, MintRotatedAsset, MintRotatedGateway, MintBound
<1>2. ASSUME NEW v \in {"openRelease", "exchange", "rotate", "drop"} PROVE v \notin Special
  BY <1>2 DEF Special, Minting
<1>0. /\ DOMAIN op[o] = RequestFields /\ op[o].scope \notin fenced /\ Goes(Idle)
      /\ op[o].pc \in Minting => IsSession(op[o].st.ses) /\ op[o].st.ses.scope = op[o].scope
  BY OwnRequest, Zenon DEF Goes
<1>3. CASE OpenMint(o)
  <2> DEFINE r == [op[o] EXCEPT !.pc = "openRelease"]
  <2>1. DOMAIN r = RequestFields /\ r.pc = "openRelease" /\ r.scope = op[o].scope BY <1>0 DEF RequestFields
  <2>2. op[o].pc \in Minting BY <1>3 DEF OpenMint, Minting
  <2>3. PICK n, exp : \/ Prune(n) /\ Step(o, r)
                      \/ /\ ~MintRefused(op[o].st.ses, n)
                         /\ Mint(Fresh, "ticket", op[o].st.ses, n, exp) /\ Step(o, Idle)
    BY <1>3, Zenon DEF OpenMint
  <2> HIDE DEF r
  <2>4. Goes(r) BY <1>0, <1>2, <2>1, <2>2, Zenon DEF Goes
  <2> QED BY <1>0, <1>1, <2>2, <2>3, <2>4, MintStep, Zenon
<1>4. CASE MintAssetSession(o)
  <2> DEFINE r == [op[o] EXCEPT !.pc = "exchange", !.tok = {Fresh}]
  <2>1. DOMAIN r = RequestFields /\ r.pc = "exchange" /\ r.scope = op[o].scope BY <1>0 DEF RequestFields
  <2>2. op[o].pc \in Minting BY <1>4 DEF MintAssetSession, Minting
  <2>3. PICK n, exp : \/ Prune(n) /\ Step(o, Idle)
                      \/ /\ ~MintRefused(op[o].st.ses, n)
                         /\ Mint(Fresh, "asset", op[o].st.ses, n, exp) /\ Step(o, r)
    BY <1>4, Zenon DEF MintAssetSession
  <2> HIDE DEF r
  <2>4. Goes(r) BY <1>0, <1>2, <2>1, <2>2, Zenon DEF Goes
  <2> QED BY <1>0, <1>1, <2>2, <2>3, <2>4, MintStep, Zenon
<1>5. CASE MintRotatedAsset(o)
  <2> DEFINE r == [op[o] EXCEPT !.pc = "mintGateway", !.tok = {Fresh}]
  <2>1. DOMAIN r = RequestFields /\ r.pc = "mintGateway" /\ r.scope = op[o].scope /\ r.st = op[o].st
    BY <1>0 DEF RequestFields
  <2>2. op[o].pc \in Minting /\ r.pc \in Minting BY <1>5, <2>1 DEF MintRotatedAsset, Minting
  <2>3. PICK n, exp : \/ Prune(n) /\ Step(o, Idle)
                      \/ /\ ~MintRefused(op[o].st.ses, n)
                         /\ Mint(Fresh, "asset", op[o].st.ses, n, exp) /\ Step(o, r)
    BY <1>5, Zenon DEF MintRotatedAsset
  <2> HIDE DEF r
  <2>4. Goes(r) BY <1>0, <1>2, <2>1, <2>2, Zenon DEF Goes
  <2> QED BY <1>0, <1>1, <2>2, <2>3, <2>4, MintStep, Zenon
<1>6. CASE MintRotatedGateway(o)
  <2> DEFINE r == [op[o] EXCEPT !.pc = "drop", !.drop = op[o].tok, !.tok = {}]
             g == [op[o] EXCEPT !.pc = "rotate", !.tok = @ \cup {Fresh}]
  <2>1. /\ DOMAIN r = RequestFields /\ r.pc = "drop" /\ r.scope = op[o].scope
        /\ DOMAIN g = RequestFields /\ g.pc = "rotate" /\ g.scope = op[o].scope
    BY <1>0 DEF RequestFields
  <2>2. op[o].pc \in Minting BY <1>6 DEF MintRotatedGateway, Minting
  <2>3. PICK n, exp : \/ Prune(n) /\ Step(o, r)
                      \/ /\ ~MintRefused(op[o].st.ses, n)
                         /\ Mint(Fresh, "gateway", op[o].st.ses, n, exp) /\ Step(o, g)
    BY <1>6, Zenon DEF MintRotatedGateway
  <2> HIDE DEF r, g
  <2>4. Goes(r) /\ Goes(g) BY <1>0, <1>2, <2>1, <2>2, Zenon DEF Goes
  <2> QED BY <1>0, <1>1, <2>2, <2>3, <2>4, MintStep, Zenon
<1>7. CASE \E kind \in {"confirm", "handle"} : MintBound(o, kind)
  <2>1. PICK kind \in {"confirm", "handle"} : MintBound(o, kind) BY <1>7, Zenon
  <2>2. op[o].pc \in Minting BY <2>1 DEF MintBound, Minting
  <2>3. PICK n, exp : \/ Prune(n) /\ Step(o, Idle)
                      \/ /\ ~MintRefused(op[o].st.ses, n)
                         /\ Mint(Fresh, kind, op[o].st.ses, n, exp) /\ Step(o, Idle)
    BY <2>1, Zenon DEF MintBound
  <2> QED BY <1>0, <1>1, <2>2, <2>3, MintStep, Zenon
<1> QED BY <1>3, <1>4, <1>5, <1>6, <1>7, Zenon

\* The requests that take a session or a gateway token in hand
\* (ExchangeAssetTicket, validateBridgeHandshake, ValidateSurfaceGatewayToken).
LEMMA EntriesKeep ==
  ASSUME TokenConstants, TokenInv, NEW o \in Ops,
         \/ \E t \in handed : ExchangeAssetTicket(o, t) \/ Authorize(o, t)
         \/ \E s \in DOMAIN sessions : \E prev \in {0} \cup handed : Handshake(o, s, prev)
  PROVE TokenInv'
<1> USE OwnRequest
<1>1. TokensStay /\ epoch' = epoch /\ SessionsHold'
  BY Zenon DEF ExchangeAssetTicket, Authorize, Handshake, TokensStay, TokenInv, SessionsHold
<1>2. ASSUME NEW t \in handed, ExchangeAssetTicket(o, t) PROVE TokenInv'
  <2> DEFINE s == records[t].ses.surface
             c == records[t].ses.scope
             r == [Idle EXCEPT !.pc = "consume", !.scope = c, !.now = clock, !.st = sessions[s], !.tok = {t}]
  <2>1. /\ s \in DOMAIN sessions /\ sessions[s].ses.scope = c /\ Step(o, r)
    BY <1>2, Zenon DEF ExchangeAssetTicket, Current
  <2>2. DOMAIN r = RequestFields /\ r.pc = "consume" /\ r.scope = c /\ r.st = sessions[s] BY DEF RequestFields
  <2>3. r.pc \in Minting BY <2>2 DEF Minting
  <2> HIDE DEF r
  <2>4. RequestHolds(r, records, minted, fenced)
    BY <2>1, <2>2, <2>3, MintingRequest, Zenon DEF TokenInv, SessionsHold
  <2> QED BY <1>1, <2>1, <2>4, QuietStep, Zenon
<1>3. ASSUME NEW s \in DOMAIN sessions, NEW prev, Handshake(o, s, prev) PROVE TokenInv'
  <2> DEFINE c == sessions[s].ses.scope
             next == IF prev = 0 THEN "mintAsset" ELSE "inspect"
             tok == IF prev = 0 THEN {} ELSE {prev}
             r == [Idle EXCEPT !.pc = next, !.scope = c, !.now = clock, !.st = sessions[s], !.tok = tok]
  <2>1. Step(o, r) BY <1>3, Zenon DEF Handshake
  <2>2. next \in Minting BY DEF Minting
  <2> HIDE DEF next, tok
  <2>3. DOMAIN r = RequestFields /\ r.pc = next /\ r.scope = c /\ r.st = sessions[s] BY DEF RequestFields
  <2> HIDE DEF r
  <2>4. RequestHolds(r, records, minted, fenced)
    BY <2>2, <2>3, MintingRequest, Zenon DEF TokenInv, SessionsHold
  <2> QED BY <1>1, <2>1, <2>4, QuietStep, Zenon
<1>4. ASSUME NEW t \in handed, Authorize(o, t) PROVE TokenInv'
  <2> DEFINE c == records[t].ses.scope
             r == [Idle EXCEPT !.pc = "authState", !.scope = c, !.now = clock, !.tok = {t}]
  <2>1. t \in DOMAIN records /\ c \notin fenced /\ Step(o, r)
    BY <1>4, Zenon DEF Authorize, Live, Enter
  <2>2. DOMAIN r = RequestFields /\ r.pc = "authState" /\ r.scope = c /\ r.tok = {t} BY DEF RequestFields
  <2>3. r.pc \notin Minting /\ r.pc # "floor" BY <2>2 DEF Minting
  <2>4. t \in 1..minted BY <2>1, Zenon DEF TokenInv, RecordsHold
  <2> HIDE DEF r
  <2>5. RequestHolds(r, records, minted, fenced)
    BY <2>1, <2>2, <2>3, <2>4, Zenon DEF RequestHolds, RequestFields
  <2> QED BY <1>1, <2>1, <2>5, QuietStep, Zenon
<1> QED BY <1>2, <1>3, <1>4, Zenon

\* The steps of a request that look at its token or session and go on or give up.
LEMMA LooksKeep ==
  ASSUME TokenConstants, TokenInv, NEW o \in Ops,
         \/ PrepareFails(o) \/ DisposeInspect(o) \/ DisposeGet(o) \/ InspectPrevious(o)
         \/ AuthorizeState(o) \/ AuthorizeBind(o)
  PROVE TokenInv'
<1> USE OwnRequest
<1>1. TokensStay /\ epoch' = epoch /\ SessionsHold'
  BY Zenon DEF PrepareFails, DisposeInspect, DisposeGet, InspectPrevious, AuthorizeState,
     AuthorizeBind, TokensStay, TokenInv, SessionsHold
<1>2. CASE PrepareFails(o) \/ DisposeInspect(o) \/ DisposeGet(o)
  <2>1. ASSUME NEW v \in {"disposeInspect", "disposeGet", "disposeDelete"}, NEW st
        PROVE /\ RequestHolds([op[o] EXCEPT !.pc = v], records, minted, fenced)
              /\ RequestHolds([op[o] EXCEPT !.pc = v, !.st = st], records, minted, fenced)
    <3> DEFINE r == [op[o] EXCEPT !.pc = v]
               q == [op[o] EXCEPT !.pc = v, !.st = st]
    <3>1. v \notin Special BY DEF Special, Minting
    <3>2. /\ DOMAIN r = RequestFields /\ r.pc = v /\ r.scope = op[o].scope
          /\ DOMAIN q = RequestFields /\ q.pc = v /\ q.scope = op[o].scope
      BY DEF RequestFields
    <3> HIDE DEF r, q
    <3>3. RequestHolds(r, records, minted, fenced) /\ RequestHolds(q, records, minted, fenced)
      BY <3>1, <3>2, PlainRequest, Zenon
    <3> QED BY <3>3, Zenon DEF r, q
  <2>2. CASE PrepareFails(o)
    <3>1. Step(o, [op[o] EXCEPT !.pc = "disposeInspect"]) BY <2>2, Zenon DEF PrepareFails
    <3> QED BY <1>1, <2>1, <3>1, QuietStep, Zenon
  <2>3. CASE DisposeInspect(o)
    <3>1. Step(o, Idle) \/ Step(o, [op[o] EXCEPT !.pc = "disposeGet"]) BY <2>3, Zenon DEF DisposeInspect
    <3> QED BY <1>1, <2>1, <3>1, QuietStep, Zenon
  <2>4. CASE DisposeGet(o)
    <3>1. PICK st : Step(o, Idle) \/ Step(o, [op[o] EXCEPT !.pc = "disposeDelete", !.st = st])
      BY <2>4, Zenon DEF DisposeGet
    <3> QED BY <1>1, <2>1, <3>1, QuietStep, Zenon
  <2> QED BY <1>2, <2>2, <2>3, <2>4, Zenon
<1>3. CASE InspectPrevious(o)
  <2> DEFINE r == [op[o] EXCEPT !.pc = "mintAsset", !.tok = {}]
  <2>1. Step(o, Idle) \/ Step(o, r) BY <1>3, Zenon DEF InspectPrevious
  <2>2. DOMAIN r = RequestFields /\ r.pc = "mintAsset" /\ r.scope = op[o].scope /\ r.st = op[o].st
    BY DEF RequestFields
  <2>3. r.pc \in Minting /\ op[o].pc \in Minting BY <1>3, <2>2 DEF Minting, InspectPrevious
  <2> HIDE DEF r
  <2>4. RequestHolds(r, records, minted, fenced) BY <2>2, <2>3, MintingRequest, Zenon
  <2> QED BY <1>1, <2>1, <2>4, QuietStep, Zenon
<1>4. CASE AuthorizeState(o)
  <2>1. PICK st : Step(o, Idle) \/ Step(o, [op[o] EXCEPT !.pc = "authBind", !.st = st])
    BY <1>4, Zenon DEF AuthorizeState
  <2> DEFINE r == [op[o] EXCEPT !.pc = "authBind", !.st = st]
  <2>2. DOMAIN r = RequestFields /\ r.pc = "authBind" /\ r.scope = op[o].scope /\ r.tok = op[o].tok
    BY DEF RequestFields
  <2>3. r.pc \notin Minting /\ r.pc # "floor" BY <2>2 DEF Minting
  <2>4. \E t \in 1..minted : op[o].tok = {t} /\ (t \in DOMAIN records => records[t].ses.scope = op[o].scope)
    BY <1>4, Zenon DEF AuthorizeState, TokenInv, RequestsHold, RequestHolds
  <2> HIDE DEF r
  <2>5. RequestHolds(r, records, minted, fenced)
    BY <2>2, <2>3, <2>4, Zenon DEF RequestHolds, RequestFields
  <2> QED BY <1>1, <2>1, <2>5, QuietStep, Zenon DEF r
<1>5. CASE AuthorizeBind(o)
  <2> DEFINE r == [op[o] EXCEPT !.pc = "authorized", !.tok = {}]
  <2>1. PICK t \in 1..minted : op[o].tok = {t} /\ (t \in DOMAIN records => records[t].ses.scope = op[o].scope)
    BY <1>5, Zenon DEF AuthorizeBind, TokenInv, RequestsHold, RequestHolds
  <2>2. Max(op[o].tok) = t
    <3>1. t \in Nat BY DEF TokenInv, RecordsHold
    <3> QED BY <2>1, <3>1, MaxOfOne, Zenon
  <2>3. Step(o, Idle) \/ (t \in DOMAIN records /\ records[t].ses = op[o].st.ses /\ Step(o, r))
    BY <1>5, <2>2, Zenon DEF AuthorizeBind, Live
  <2>4. DOMAIN r = RequestFields /\ r.pc = "authorized" /\ r.scope = op[o].scope /\ r.st = op[o].st
    BY DEF RequestFields
  <2>5. r.pc \in Minting BY <2>4 DEF Minting
  <2> HIDE DEF r
  <2>6. ASSUME t \in DOMAIN records, records[t].ses = op[o].st.ses
        PROVE RequestHolds(r, records, minted, fenced)
    BY <2>1, <2>4, <2>5, <2>6, MintingRequest, ZenonT(40) DEF TokenInv, RecordsHold
  <2> QED BY <1>1, <2>3, <2>6, QuietStep, Zenon
<1> QED BY <1>2, <1>3, <1>4, <1>5, Zenon

\* A cleanup of dropped generations holds off only the teardown of its scope.
LEMMA CleanupRequest ==
  ASSUME TokenConstants, TokenInv, NEW o \in Ops, NEW todo, NEW c, c \notin fenced
  PROVE /\ RequestHolds([op[o] EXCEPT !.pc = "cleanup", !.todo = todo, !.st = Nil], records, minted, fenced)
        /\ RequestHolds([Idle EXCEPT !.pc = "cleanup", !.scope = c, !.todo = todo], records, minted, fenced)
        /\ RequestHolds([Idle EXCEPT !.pc = "cleanup", !.todo = todo], records, minted, fenced)
<1> USE OwnRequest
<1> DEFINE q == [op[o] EXCEPT !.pc = "cleanup", !.todo = todo, !.st = Nil]
           r == [Idle EXCEPT !.pc = "cleanup", !.scope = c, !.todo = todo]
           i == [Idle EXCEPT !.pc = "cleanup", !.todo = todo]
<1>1. DOMAIN q = RequestFields /\ q.pc = "cleanup" /\ q.scope = op[o].scope BY DEF RequestFields
<1>2. DOMAIN r = RequestFields /\ r.pc = "cleanup" /\ r.scope = c BY DEF RequestFields
<1>3. DOMAIN i = RequestFields /\ i.pc = "cleanup" /\ i.scope = Idle.scope BY DEF RequestFields
<1>4. "cleanup" \notin Special BY DEF Special, Minting
<1> HIDE DEF q, r, i
<1>5. \A x \in {q, r, i} : RequestHolds(x, records, minted, fenced)
  BY <1>1, <1>2, <1>3, <1>4, PlainRequest, Zenon
<1> QED BY <1>5, Zenon DEF q, r, i

\* The steps that take surfaces out of the table.
LEMMA DeletionsKeep ==
  ASSUME TokenConstants, TokenInv, NEW o \in Ops,
         \/ OpenRelease(o) \/ DisposeDelete(o) \/ RevokeAllSurfaces(o)
         \/ \E s \in DOMAIN sessions : DisposeSurface(o, s) \/ ReconcileExpired(o, s)
  PROVE TokenInv'
<1>1. TokensStay /\ epoch' = epoch
  BY Zenon DEF OpenRelease, DisposeDelete, RevokeAllSurfaces, DisposeSurface, ReconcileExpired, TokensStay
<1>2. \/ sessions' = sessions
      \/ \E S : sessions' = Without(sessions, S)
  BY Zenon DEF OpenRelease, DisposeDelete, RevokeAllSurfaces, DisposeSurface, ReconcileExpired, Delete
<1>3. SessionsHold'
  <2>1. CASE sessions' = sessions BY <1>1, <2>1, Zenon DEF TokenInv, SessionsHold, TokensStay
  <2> QED BY <1>1, <1>2, <2>1, SessionsShrink, Zenon DEF TokenInv, TokensStay
<1>4. \/ Step(o, Idle)
      \/ \E todo : Step(o, [op[o] EXCEPT !.pc = "cleanup", !.todo = todo, !.st = Nil])
      \/ \E todo, c : c \notin fenced /\ Step(o, [Idle EXCEPT !.pc = "cleanup", !.scope = c, !.todo = todo])
      \/ \E todo : Step(o, [Idle EXCEPT !.pc = "cleanup", !.todo = todo])
  BY Zenon DEF OpenRelease, DisposeDelete, RevokeAllSurfaces, DisposeSurface, ReconcileExpired,
     Cleanup, Enter
<1>5. Idle.scope \notin fenced BY OwnRequest, Zenon
<1> QED BY <1>1, <1>3, <1>4, <1>5, OwnRequest, CleanupRequest, QuietStep, Zenon

\* A surface that is written back keeps its session.
LEMMA WriteBack ==
  ASSUME SessionsHold, fenced' = fenced, NEW s \in DOMAIN sessions, NEW st,
         sessions' = [sessions EXCEPT ![s] = st],
         st.ses = sessions[s].ses, DOMAIN st = DOMAIN sessions[s]
  PROVE SessionsHold'
<1>1. /\ DOMAIN sessions' = DOMAIN sessions /\ sessions'[s] = st
      /\ \A x \in DOMAIN sessions \ {s} : sessions'[x] = sessions[x]
  BY Zenon
<1> QED BY <1>1, Zenon DEF SessionsHold

\* The requests behind a written surface: plain ones.
LEMMA AfterWrite ==
  ASSUME TokenConstants, TokenInv, NEW o \in Ops, NEW v \in {"prepare", "disposeInspect", "drop"}, NEW st, NEW drop
  PROVE /\ RequestHolds([op[o] EXCEPT !.pc = v], records, minted, fenced)
        /\ RequestHolds([op[o] EXCEPT !.pc = v, !.st = st], records, minted, fenced)
        /\ RequestHolds([op[o] EXCEPT !.pc = v, !.drop = drop], records, minted, fenced)
        /\ RequestHolds([op[o] EXCEPT !.pc = v, !.drop = drop, !.tok = {}], records, minted, fenced)
<1>0. DOMAIN op[o] = RequestFields /\ op[o].scope \notin fenced BY OwnRequest, Zenon
<1>1. v \notin Special BY DEF Special, Minting
<1> DEFINE a == [op[o] EXCEPT !.pc = v]
           b == [op[o] EXCEPT !.pc = v, !.st = st]
           c == [op[o] EXCEPT !.pc = v, !.drop = drop]
           d == [op[o] EXCEPT !.pc = v, !.drop = drop, !.tok = {}]
<1>2. DOMAIN a = RequestFields /\ a.pc = v /\ a.scope = op[o].scope BY <1>0 DEF RequestFields
<1>3. DOMAIN b = RequestFields /\ b.pc = v /\ b.scope = op[o].scope BY <1>0 DEF RequestFields
<1>4. DOMAIN c = RequestFields /\ c.pc = v /\ c.scope = op[o].scope BY <1>0 DEF RequestFields
<1>5. DOMAIN d = RequestFields /\ d.pc = v /\ d.scope = op[o].scope BY <1>0 DEF RequestFields
<1> HIDE DEF a, b, c, d
<1>6. \A r \in {a, b, c, d} : RequestHolds(r, records, minted, fenced)
  BY <1>0, <1>1, <1>2, <1>3, <1>4, <1>5, PlainRequest, Zenon
<1> QED BY <1>6, Zenon DEF a, b, c, d

\* The steps that write back a surface they have looked at: its session stays
\* (ExchangeAssetTicket, MarkSurfacePrepared, MintGatewayToken).
LEMMA WritesKeep ==
  ASSUME TokenConstants, TokenInv, NEW o \in Ops,
         CommitExchange(o) \/ MarkSurfacePrepared(o) \/ CommitRotation(o)
  PROVE TokenInv'
<1>1. TokensStay /\ epoch' = epoch /\ fenced' = fenced /\ SessionsHold
  BY Zenon DEF CommitExchange, MarkSurfacePrepared, CommitRotation, TokensStay, TokenInv
<1>2. RequestHolds(Idle, records, minted, fenced) BY OwnRequest, Zenon
<1>3. ASSUME sessions' = sessions PROVE SessionsHold' BY <1>1, <1>3, Zenon DEF SessionsHold
<1>4. ASSUME NEW s \in DOMAIN sessions
      PROVE DOMAIN sessions[s] = {"ses", "exp", "issued", "prepared", "gateway"}
  BY <1>1, Zenon DEF SessionsHold
<1> DEFINE s == op[o].st.ses.surface
<1>5. CASE CommitExchange(o)
  <2> DEFINE x == Max(op[o].tok)
             st == [op[o].st EXCEPT !.issued = x]
             cl == [op[o] EXCEPT !.pc = "cleanup", !.todo = {op[o].st.ses}, !.st = Nil]
  <2>1. \/ /\ s \in DOMAIN sessions /\ sessions[s] = op[o].st /\ sessions' = [sessions EXCEPT ![s] = st]
           /\ Step(o, [op[o] EXCEPT !.pc = "prepare", !.st = st])
        \/ (Step(o, Idle) \/ Step(o, cl)) /\ sessions' = sessions
    BY <1>5, Zenon DEF CommitExchange, Unchanged, Cleanup
  <2> HIDE DEF x
  <2>2. s \in DOMAIN sessions /\ sessions[s] = op[o].st => st.ses = sessions[s].ses /\ DOMAIN st = DOMAIN sessions[s]
    BY <1>4
  <2>3. RequestHolds(cl, records, minted, fenced)
    <3>1. op[o].scope \notin fenced BY OwnRequest, Zenon
    <3> QED BY <3>1, CleanupRequest, Zenon
  <2> HIDE DEF st, s, cl
  <2>4. SessionsHold' BY <1>1, <1>3, <2>1, <2>2, WriteBack, Zenon
  <2> QED BY <1>1, <1>2, <2>1, <2>3, <2>4, AfterWrite, QuietStep, Zenon
<1>6. CASE MarkSurfacePrepared(o)
  <2> DEFINE st == [sessions[s] EXCEPT !.prepared = TRUE]
  <2>1. \/ s \in DOMAIN sessions /\ sessions' = [sessions EXCEPT ![s] = st] /\ Step(o, Idle)
        \/ Step(o, [op[o] EXCEPT !.pc = "disposeInspect"]) /\ sessions' = sessions
    BY <1>6, Zenon DEF MarkSurfacePrepared, Current
  <2>2. s \in DOMAIN sessions => st.ses = sessions[s].ses /\ DOMAIN st = DOMAIN sessions[s] BY <1>4
  <2> HIDE DEF st, s
  <2>3. SessionsHold' BY <1>1, <1>3, <2>1, <2>2, WriteBack, Zenon
  <2> QED BY <1>1, <1>2, <2>1, <2>3, AfterWrite, QuietStep, Zenon
<1>7. CASE CommitRotation(o)
  <2> DEFINE x == LeaseExpiry(op[o].now)
             y == Min(op[o].tok)
             z == Max(op[o].tok)
             st == [sessions[s] EXCEPT !.exp = x, !.issued = y, !.gateway = z]
             old == {op[o].st.issued, op[o].st.gateway} \ {0}
  <2>1. \/ /\ s \in DOMAIN sessions /\ sessions' = [sessions EXCEPT ![s] = st]
           /\ Step(o, [op[o] EXCEPT !.pc = "drop", !.drop = old])
        \/ Step(o, [op[o] EXCEPT !.pc = "drop", !.drop = op[o].tok, !.tok = {}]) /\ sessions' = sessions
    BY <1>7, Zenon DEF CommitRotation, Unchanged
  <2> HIDE DEF x, y, z, old
  <2>2. s \in DOMAIN sessions => st.ses = sessions[s].ses /\ DOMAIN st = DOMAIN sessions[s] BY <1>4
  <2> HIDE DEF st, s
  <2>3. SessionsHold' BY <1>1, <1>3, <2>1, <2>2, WriteBack, Zenon
  <2> QED BY <1>1, <2>1, <2>3, AfterWrite, QuietStep, Zenon
<1> QED BY <1>5, <1>6, <1>7, Zenon

\* A ticket is consumed by the exchange it admits (Validate with Consume).
LEMMA ConsumeTicketKeeps ==
  ASSUME TokenConstants, TokenInv, NEW o \in Ops, ConsumeTicket(o)
  PROVE TokenInv'
<1> USE OwnRequest
<1>1. SessionsHold' /\ UNCHANGED <<sessionIndex, minted, floors, saturated, revokedTo, epoch, fenced>>
  BY Zenon DEF ConsumeTicket, TokenInv, SessionsHold
<1> DEFINE r == [op[o] EXCEPT !.pc = "mintSession", !.tok = {}]
<1>2. \/ \E t \in DOMAIN records : Consume(t) /\ Step(o, r)
      \/ Step(o, Idle) /\ UNCHANGED records
  BY Zenon DEF ConsumeTicket, Live
<1>3. DOMAIN r = RequestFields /\ r.pc = "mintSession" /\ r.scope = op[o].scope /\ r.st = op[o].st
  BY DEF RequestFields
<1>4. r.pc \in Minting /\ op[o].pc \in Minting BY <1>3 DEF Minting, ConsumeTicket
<1> HIDE DEF r
<1>5. RequestHolds(r, records, minted, fenced) BY <1>3, <1>4, MintingRequest, Zenon
<1>6. CASE \E t \in DOMAIN records : Consume(t) /\ Step(o, r)
  <2>1. RecordsHold' /\ Carried BY <1>1, <1>6, ConsumeKeeps, Zenon DEF TokenInv
  <2>2. minted' \in Nat /\ minted <= minted' BY <1>1 DEF TokenInv, RecordsHold
  <2> QED BY <1>1, <1>5, <1>6, <2>1, <2>2, RequestStep, Zenon
<1>7. CASE Step(o, Idle) /\ UNCHANGED records
  BY <1>1, <1>7, QuietStep, Zenon DEF TokensStay
<1> QED BY <1>2, <1>6, <1>7, Zenon

-----------------------------------------------------------------------------
\* RevokePlugin: the request carries the epoch the registry has raised.
LEMMA RevokePluginKeeps ==
  ASSUME TokenConstants, TokenInv, NEW o \in Ops, NEW p \in Plugins, RevokePlugin(o, p)
  PROVE TokenInv'
<1> USE OwnRequest
<1>1. TokensStay /\ fenced' = fenced BY Zenon DEF RevokePlugin, TokensStay
<1>2. SessionsHold' BY <1>1, SessionsShrink, Zenon DEF RevokePlugin, Delete, TokenInv
<1>3. epoch' \in [Plugins -> Nat] /\ epoch[p] + 1 \in Nat \ {0} BY DEF RevokePlugin, TokenInv, FloorsHold
<1>4. FloorsHold' BY <1>1, <1>3, Zenon DEF TokenInv, FloorsHold, FloorsFull, TokensStay
<1> DEFINE e == epoch[p] + 1
           r == [Idle EXCEPT !.pc = "floor", !.st = p, !.now = e]
<1>5. Step(o, r) BY Zenon DEF RevokePlugin
<1> HIDE DEF e
<1>6. DOMAIN r = RequestFields /\ r.pc = "floor" /\ r.scope = Idle.scope /\ r.st = p /\ r.now = e
  BY DEF RequestFields
<1>7. r.pc \notin Minting /\ r.pc \notin {"authState", "authBind"} BY <1>6 DEF Minting
<1> HIDE DEF r
<1>8. RequestHolds(r, records, minted, fenced)
  BY <1>3, <1>6, <1>7, Zenon DEF RequestHolds, RequestFields, e
<1>9. RecordsHold' BY <1>1, Zenon DEF TokenInv, RecordsHold, TokensStay
<1>10. Carried BY <1>1, Zenon DEF Carried, TokensStay
<1>11. minted' \in Nat /\ minted <= minted' BY <1>1 DEF TokenInv, RecordsHold, TokensStay
<1>12. RequestsHold' BY <1>1, <1>5, <1>8, <1>10, <1>11, RequestMoves, Zenon DEF Step, TokenInv
<1> QED BY <1>1, <1>2, <1>4, <1>9, <1>12, Zenon DEF TokenInv

\* The floors after TokenManager.RevokePlugin: the plugin's floor reaches the
\* epoch, or the table is full and the plugin can mint nothing.
LEMMA RaiseFloors ==
  ASSUME FloorsHold, NEW p \in Plugins, NEW e \in Nat \ {0},
         floors' = IF e > floors[p] /\ ~(floors[p] = 0 /\ FloorsFull) THEN [floors EXCEPT ![p] = e] ELSE floors,
         saturated' = (saturated \/ (e > floors[p] /\ floors[p] = 0 /\ FloorsFull)),
         revokedTo' = [revokedTo EXCEPT ![p] = Max({revokedTo[p], e})], epoch' = epoch
  PROVE FloorsHold'
<1> DEFINE m == Max({revokedTo[p], e})
<1>1. floors[p] \in Nat /\ revokedTo[p] \in Nat BY DEF FloorsHold
<1>2. m \in {revokedTo[p], e} /\ m >= revokedTo[p] /\ m >= e BY <1>1, MaxOfTwo
<1>3. m \in Nat BY <1>1, <1>2
<1> HIDE DEF m
<1>4. /\ revokedTo' = [revokedTo EXCEPT ![p] = m] BY DEF m
<1>5. floors' \in [Plugins -> Nat] /\ revokedTo' \in [Plugins -> Nat] /\ epoch' \in [Plugins -> Nat]
  BY <1>3, <1>4 DEF FloorsHold
<1>6. saturated' => FloorsFull'
  <2>1. CASE floors[p] = 0 /\ FloorsFull
    <3>1. floors' = floors BY <2>1, Zenon
    <3> QED BY <2>1, <3>1, Zenon DEF FloorsFull
  <2>2. CASE ~(floors[p] = 0 /\ FloorsFull)
    <3>1. SUFFICES ASSUME saturated' PROVE FloorsFull' OBVIOUS
    <3>2. saturated /\ FloorsFull BY <2>2, <3>1, Zenon DEF FloorsHold
    <3>3. floors[p] # 0 BY <2>2, <3>2, Zenon
    <3>4. \A q \in Plugins : floors'[q] > 0 <=> floors[q] > 0
      BY <1>1, <3>3 DEF FloorsHold
    <3>5. {q \in Plugins : floors'[q] > 0} = {q \in Plugins : floors[q] > 0} BY <3>4, Zenon
    <3> QED BY <3>2, <3>5, Zenon DEF FloorsFull
  <2> QED BY <2>1, <2>2, Zenon
<1>7. ASSUME NEW q \in Plugins PROVE revokedTo'[q] <= floors'[q] \/ (floors'[q] = 0 /\ saturated')
  <2>1. CASE q # p
    <3>1. revokedTo'[q] = revokedTo[q] /\ floors'[q] = floors[q] BY <1>4, <2>1, Zenon DEF FloorsHold
    <3>2. saturated => saturated' BY Zenon
    <3> QED BY <3>1, <3>2, Zenon DEF FloorsHold
  <2>2. CASE q = p
    <3>1. revokedTo'[p] = m BY <1>4, Zenon DEF FloorsHold
    <3>2. CASE floors[p] = 0 /\ FloorsFull
      <4>1. e > floors[p] BY <3>2
      <4> QED BY <2>2, <3>2, <4>1, Zenon
    <3>3. CASE ~(floors[p] = 0 /\ FloorsFull)
      <4>1. revokedTo[p] <= floors[p] BY <3>3, Zenon DEF FloorsHold
      <4>2. floors'[p] = IF e > floors[p] THEN e ELSE floors[p] BY <3>3, Zenon DEF FloorsHold
      <4> QED BY <1>1, <1>2, <2>2, <3>1, <4>1, <4>2
    <3> QED BY <3>2, <3>3, Zenon
  <2> QED BY <2>1, <2>2, Zenon
<1> QED BY <1>5, <1>6, <1>7, Zenon DEF FloorsHold

\* TokenManager.RevokePlugin revokes every token below the epoch.
LEMMA RevokePluginTokensKeeps ==
  ASSUME TokenConstants, TokenInv, NEW o \in Ops, RevokePluginTokens(o)
  PROVE TokenInv'
<1> USE OwnRequest
<1> DEFINE p == op[o].st
           e == op[o].now
           S == {t \in DOMAIN records : records[t].ses.plugin = p /\ records[t].ses.epoch < e}
<1>1. p \in Plugins /\ e \in Nat \ {0}
  BY Zenon DEF RevokePluginTokens, TokenInv, RequestsHold, RequestHolds
<1>2. /\ records' = Revoke(S) /\ revokedTo' = [revokedTo EXCEPT ![p] = Max({revokedTo[p], e})]
      /\ UNCHANGED <<sessions, sessionIndex, minted, epoch, fenced>> /\ Step(o, Idle)
      /\ floors' = IF e > floors[p] /\ ~(floors[p] = 0 /\ FloorsFull) THEN [floors EXCEPT ![p] = e] ELSE floors
      /\ saturated' = (saturated \/ (e > floors[p] /\ floors[p] = 0 /\ FloorsFull))
  BY Zenon DEF RevokePluginTokens
<1> HIDE DEF p, e
<1>3. FloorsHold' BY <1>1, <1>2, RaiseFloors, Zenon DEF TokenInv
<1>4. revokedTo[p] \in Nat BY <1>1, Zenon DEF TokenInv, FloorsHold
<1>5. Max({revokedTo[p], e}) \in {revokedTo[p], e} BY <1>1, <1>4, MaxOfTwo
<1>6. DOMAIN records' = DOMAIN records BY <1>2, Zenon DEF Revoke
<1>7. ASSUME NEW t \in DOMAIN records
      PROVE /\ DOMAIN records'[t] = DOMAIN records[t] /\ records'[t].ses = records[t].ses
            /\ records[t].revoked \/ t \in S => records'[t].revoked
  BY <1>2 DEF Revoke, TokenInv, RecordsHold
<1>8. ASSUME NEW t \in DOMAIN records, records[t].ses.epoch < revokedTo'[records[t].ses.plugin]
      PROVE records[t].revoked \/ t \in S
  <2>1. CASE records[t].ses.plugin = p
    <3>1. revokedTo'[p] \in {revokedTo[p], e} BY <1>1, <1>2, <1>5, Zenon DEF TokenInv, FloorsHold
    <3> QED BY <1>8, <2>1, <3>1, Zenon DEF TokenInv, RecordsHold
  <2>2. CASE records[t].ses.plugin # p
    <3>1. records[t].ses.plugin \in Plugins BY Zenon DEF TokenInv, RecordsHold, IsSession
    <3>2. revokedTo'[records[t].ses.plugin] = revokedTo[records[t].ses.plugin]
      BY <1>2, <2>2, <3>1, Zenon DEF TokenInv, FloorsHold
    <3> QED BY <1>8, <3>2, Zenon DEF TokenInv, RecordsHold
  <2> QED BY <2>1, <2>2, Zenon
<1> HIDE DEF S
<1>9. RecordsHold'
  BY <1>2, <1>6, <1>7, <1>8, Zenon DEF TokenInv, RecordsHold
<1>10. Carried BY <1>6, <1>7, Zenon DEF Carried
<1>11. minted' \in Nat /\ minted <= minted' BY <1>2 DEF TokenInv, RecordsHold
<1>12. RequestsHold' BY <1>2, <1>10, <1>11, RequestMoves, Zenon DEF Step, TokenInv
<1>13. SessionsHold' BY <1>2, Zenon DEF TokenInv, SessionsHold
<1> QED BY <1>2, <1>3, <1>9, <1>12, <1>13, Zenon DEF TokenInv

\* RevokeSessionScope finds every token of the scope that still works in the
\* session index, and no request is left that could mint another.
LEMMA RevokeSessionScopeKeeps ==
  ASSUME TokenConstants, TokenInv, NEW c \in Scopes, RevokeSessionScope(c)
  PROVE TokenInv'
<1>1. /\ fenced' = fenced \cup {c} /\ sessionIndex' = sessionIndex \ InScope(c)
      /\ records' = Revoke(InScope(c))
      /\ sessions' = Without(sessions, {s \in DOMAIN sessions : sessions[s].ses.scope = c})
      /\ \A o \in Ops : op[o].scope # c
      /\ UNCHANGED <<minted, floors, saturated, op, epoch, revokedTo>>
  BY Zenon DEF RevokeSessionScope, Delete
<1>2. FloorsHold' BY <1>1, FloorsStay, Zenon DEF TokenInv
<1>3. SessionsHold'
  <2>1. \A s \in DOMAIN sessions' : s \in DOMAIN sessions /\ sessions'[s] = sessions[s] /\ sessions[s].ses.scope # c
    BY <1>1, Zenon DEF Without
  <2> QED BY <1>1, <2>1, Zenon DEF TokenInv, SessionsHold
<1>4. DOMAIN records' = DOMAIN records BY <1>1, Zenon DEF Revoke
<1>5. ASSUME NEW t \in DOMAIN records
      PROVE /\ DOMAIN records'[t] = DOMAIN records[t] /\ records'[t].ses = records[t].ses
            /\ records[t].revoked \/ t \in InScope(c) => records'[t].revoked
  BY <1>1 DEF Revoke, TokenInv, RecordsHold
<1>6. ASSUME NEW t \in DOMAIN records, t \notin sessionIndex' \/ records[t].ses.scope \in fenced'
      PROVE records[t].revoked \/ t \in InScope(c)
  BY <1>1, <1>6, Zenon DEF InScope, TokenInv, RecordsHold
<1>7. RecordsHold' BY <1>1, <1>4, <1>5, <1>6, Zenon DEF TokenInv, RecordsHold
<1>8. Carried BY <1>4, <1>5, Zenon DEF Carried
<1>9. minted' \in Nat /\ minted <= minted' BY <1>1 DEF TokenInv, RecordsHold
<1>10. ASSUME NEW x \in Ops PROVE RequestHolds(op[x], records', minted', fenced')
  <2>1. RequestHolds(op[x], records, minted, fenced) BY Zenon DEF TokenInv, RequestsHold
  <2>2. RequestHolds(op[x], records', minted', fenced) BY <1>8, <1>9, <2>1, CarriedRequest, Zenon DEF TokenInv
  <2>3. op[x].scope \notin fenced' BY <1>1, <2>1, Zenon DEF RequestHolds
  <2> QED BY <2>2, <2>3, Zenon DEF RequestHolds
<1>11. RequestsHold' BY <1>1, <1>10, Zenon DEF TokenInv, RequestsHold
<1> QED BY <1>1, <1>2, <1>3, <1>7, <1>11, Zenon DEF TokenInv

\* The steps outside a request: an expired surface dropped by whoever looks it up, a
\* closure reconciled, a confirmation consumed, and time.
LEMMA OthersKeep ==
  ASSUME TokenInv,
         \/ \E s \in DOMAIN sessions : GetStateExpired(s) \/ ReconcileActive(s)
         \/ \E t \in handed : ConsumeConfirmation(t)
         \/ Tick
  PROVE TokenInv'
<1>1. UNCHANGED <<sessionIndex, minted, floors, saturated, op, epoch, fenced, revokedTo>>
  BY Zenon DEF GetStateExpired, ReconcileActive, ConsumeConfirmation, Tick
<1>2. \/ \E S : records' = Revoke(S)
      \/ \E t \in DOMAIN records : Consume(t)
      \/ records' = records
  BY Zenon DEF GetStateExpired, ReconcileActive, ConsumeConfirmation, Tick, Live
<1>3. sessions' = sessions \/ \E S : sessions' = Without(sessions, S)
  BY Zenon DEF GetStateExpired, ReconcileActive, ConsumeConfirmation, Tick, Delete
<1>4. RecordsHold' /\ Carried
  <2>1. CASE records' = records BY <1>1, <2>1, Zenon DEF TokenInv, RecordsHold, Carried
  <2> QED BY <1>1, <1>2, <2>1, RevokeKeeps, ConsumeKeeps, Zenon DEF TokenInv
<1>5. SessionsHold'
  <2>1. CASE sessions' = sessions BY <1>1, <2>1, Zenon DEF TokenInv, SessionsHold
  <2> QED BY <1>1, <1>3, <2>1, SessionsShrink, Zenon DEF TokenInv
<1>6. RequestsHold' BY <1>1, <1>4, RequestsStay, Zenon DEF TokenInv
<1>7. FloorsHold' BY <1>1, FloorsStay, Zenon DEF TokenInv
<1> QED BY <1>1, <1>4, <1>5, <1>6, <1>7, Zenon DEF TokenInv

\* An epoch raised without a revocation leaves every token and surface as it was.
LEMMA RevokeRefusedKeeps ==
  ASSUME TokenInv, NEW p \in Plugins, RevokeRefused(p)
  PROVE TokenInv'
<1>1. op' = op /\ TokensStay /\ sessions' = sessions
  BY Zenon DEF RevokeRefused, TokensStay, svcVars, tokVars
<1>2. epoch' \in [Plugins -> Nat]
  BY DEF RevokeRefused, TokenInv, FloorsHold
<1> QED BY <1>1, <1>2, Zenon DEF TokensStay, TokenInv, FloorsHold, FloorsFull, RecordsHold,
          SessionsHold, RequestsHold

\* The initial state satisfies the invariant of the tokens.
LEMMA TokenInit == ASSUME TokenConstants, Init PROVE TokenInv
<1>1. DOMAIN sessions = {} /\ DOMAIN records = {} BY DEF Init
<1>2. FloorsHold BY DEF Init, FloorsHold
<1>3. RecordsHold /\ SessionsHold
  <2>1. minted \in Nat BY DEF Init
  <2> QED BY <1>1, <2>1, Zenon DEF RecordsHold, SessionsHold
<1>4. fenced = {} BY Zenon DEF Init
<1>5. RequestsHold
  <2>1. DOMAIN op = Ops /\ \A o \in Ops : op[o] = Idle BY Zenon DEF Init
  <2> QED BY <1>4, <2>1, IdleRequest, Zenon DEF RequestsHold
<1> QED BY <1>2, <1>3, <1>4, <1>5, Zenon DEF TokenInv

\* Every step of SurfaceTokenService, TokenManager and their callers keeps the
\* invariant of the tokens.
THEOREM TokenInvariant == TokenConstants /\ Spec => []TokenInv
<1> SUFFICES ASSUME TokenConstants PROVE Spec => []TokenInv BY Zenon
<1>1. TokenInv /\ [Next]_vars => TokenInv'
  <2> SUFFICES ASSUME TokenInv, [Next]_vars PROVE TokenInv' BY Zenon
  <2>1. CASE UNCHANGED vars
    <3>1. op' = op /\ TokensStay /\ sessions' = sessions /\ epoch' = epoch BY <2>1, Zenon DEF vars, TokensStay
    <3> QED BY <3>1, Zenon DEF TokensStay, TokenInv, FloorsHold, FloorsFull, RecordsHold,
              SessionsHold, RequestsHold
  <2>2. CASE \E o \in Ops :
               \/ \E s \in Surfaces, p \in Plugins, c \in Scopes : OpenSurface(o, s, p, c)
               \/ revokeSurfaceTokens(o) \/ DropToken(o) \/ ConsumeTicket(o)
               \/ OpenMint(o) \/ MintAssetSession(o) \/ MintRotatedAsset(o) \/ MintRotatedGateway(o)
               \/ MintConfirmationToken(o) \/ MintHandleGrant(o)
    BY <2>2, OpenSurfaceKeeps, RevocationsKeep, ConsumeTicketKeeps, MintsKeep, Zenon
       DEF MintConfirmationToken, MintHandleGrant
  <2>3. CASE \E o \in Ops :
               \/ \E t \in handed : ExchangeAssetTicket(o, t) \/ Authorize(o, t)
               \/ \E s \in DOMAIN sessions : \E prev \in {0} \cup handed : Handshake(o, s, prev)
               \/ PrepareFails(o) \/ DisposeInspect(o) \/ DisposeGet(o) \/ InspectPrevious(o)
               \/ AuthorizeState(o) \/ AuthorizeBind(o)
    BY <2>3, EntriesKeep, LooksKeep, Zenon
  <2>4. CASE \E o \in Ops :
               \/ OpenRelease(o) \/ DisposeDelete(o) \/ RevokeAllSurfaces(o)
               \/ \E s \in DOMAIN sessions : DisposeSurface(o, s) \/ ReconcileExpired(o, s)
               \/ CommitExchange(o) \/ MarkSurfacePrepared(o) \/ CommitRotation(o)
    BY <2>4, DeletionsKeep, WritesKeep, Zenon
  <2>5. CASE \E o \in Ops : RevokePluginTokens(o) \/ \E p \in Plugins : RevokePlugin(o, p)
    BY <2>5, RevokePluginKeeps, RevokePluginTokensKeeps, Zenon
  <2>6. CASE \E c \in Scopes : RevokeSessionScope(c)
    BY <2>6, RevokeSessionScopeKeeps, Zenon
  <2>7. CASE \/ \E s \in DOMAIN sessions : GetStateExpired(s) \/ ReconcileActive(s)
             \/ \E t \in handed : ConsumeConfirmation(t)
             \/ Tick
    BY <2>7, OthersKeep, Zenon
  <2>8. CASE \E p \in Plugins : RevokeRefused(p) BY <2>8, RevokeRefusedKeeps, Zenon
  <2> QED BY <2>1, <2>2, <2>3, <2>4, <2>5, <2>6, <2>7, <2>8, ZenonT(40) DEF Next
<1>2. Init => TokenInv BY TokenInit, Zenon
<1> QED BY <1>1, <1>2, PTL DEF Spec

\* What a revocation ended stays ended, however requests interleave with it.  After
\* RevokePlugin has run for an epoch, no token of an older epoch of the plugin is
\* accepted again, not even with a full table of floors; after RevokeSessionScope no
\* open surface and no working token of the scope is left (TokenManager.Mint).
THEOREM RevocationsStay ==
  TokenConstants /\ Spec => [](RevokedEpochsStayRevoked /\ TornDownSessionIsEmpty)
<1>1. TokenInv => RevokedEpochsStayRevoked /\ TornDownSessionIsEmpty
  BY Zenon DEF TokenInv, RecordsHold, SessionsHold, RevokedEpochsStayRevoked, TornDownSessionIsEmpty
<1> QED BY <1>1, TokenInvariant, PTL

-----------------------------------------------------------------------------
(* The runtime leases.                                                     *)

HIDE DEF svcVars, tokVars, hostVars

CONSTANTS Calls, Leases, Shapes, Stores, Total, Replays, Wants, DefaultTTL, MaxTTL

VARIABLES now, store, gen, ready, lease, rows, cache, call, ran, raced

L == INSTANCE RuntimeLeases

\* A step that only moves one call, to a record that has what its stage needs, keeps the
\* invariant (every step of InvokeWorker before the runtime executes).
LEMMA CallMoves ==
  ASSUME L!LeaseConstants, L!LeaseInv, NEW c \in Calls, NEW r \in L!CallRecords,
         call' = [call EXCEPT ![c] = r], UNCHANGED <<now, gen, ready, lease, cache, ran>>,
         raced \subseteq raced', L!Established(r),
         r.at = "clocked" => ~L!Expired(r.lease, now)
  PROVE  L!LeaseInv'
<1> USE DEF L!LeaseInv
<1>1. L!Shape'
  BY Zenon DEF L!Shape
<1>2. \A d \in Calls : call'[d] = IF d = c THEN r ELSE call[d]
  BY Zenon DEF L!Shape
<1>3. L!MintedHere' /\ L!ExecutedAsMinted'
  BY ZenonT(40) DEF L!MintedHere, L!ExecutedAsMinted
<1>4. L!StagesHold'
  BY <1>2 DEF L!StagesHold, L!Established, L!Canonical, L!Expired,
              L!workerInvocationContextFromInvocation
<1>5. \A l \in Leases : L!Over(l) => L!Over(l)'
  BY <1>2, Zenon DEF L!Over, L!Expired
<1>6. L!RanOnce'
  BY <1>5, Zenon DEF L!RanOnce
<1> QED BY <1>1, <1>3, <1>4, <1>6, Zenon

\* The moves of a call: it returns, which frees its slot, or goes on to another stage
\* with the same lease, clock reading and generation (InvokeWorker).
LEMMA Moves ==
  ASSUME L!LeaseConstants, L!LeaseInv, NEW c \in Calls
  PROVE  /\ L!Idle \in L!CallRecords /\ L!Established(L!Idle)
         /\ call[c] \in L!CallRecords /\ L!Established(call[c])
         /\ \A s \in L!Stages : /\ [call[c] EXCEPT !.at = s] \in L!CallRecords
                              /\ [call[c] EXCEPT !.at = s].at = s
                              /\ [call[c] EXCEPT !.at = s].lease = call[c].lease
                              /\ [call[c] EXCEPT !.at = s].clock = call[c].clock
                              /\ [call[c] EXCEPT !.at = s].gen = call[c].gen
         /\ L!Ends(c) => call' = [call EXCEPT ![c] = L!Idle]
         /\ \A s : L!Goes(c, s) => call' = [call EXCEPT ![c] = [call[c] EXCEPT !.at = s]]
<1>1. L!Idle \in L!CallRecords /\ L!Established(L!Idle)
  BY Zenon DEF L!Idle, L!CallRecords, L!Stages, L!Established, L!Waiting
<1>2. call[c] \in L!CallRecords /\ L!Established(call[c])
  BY Zenon DEF L!LeaseInv, L!Shape, L!StagesHold
<1>3. \A s \in L!Stages : /\ [call[c] EXCEPT !.at = s] \in L!CallRecords
                        /\ [call[c] EXCEPT !.at = s].at = s
                        /\ [call[c] EXCEPT !.at = s].lease = call[c].lease
                        /\ [call[c] EXCEPT !.at = s].clock = call[c].clock
                        /\ [call[c] EXCEPT !.at = s].gen = call[c].gen
  BY <1>2, Zenon DEF L!CallRecords
<1>4. L!Ends(c) => call' = [call EXCEPT ![c] = L!Idle]
  BY Zenon DEF L!Ends
<1>5. \A s : L!Goes(c, s) => call' = [call EXCEPT ![c] = [call[c] EXCEPT !.at = s]]
  BY Zenon DEF L!Goes
<1> QED BY <1>1, <1>2, <1>3, <1>4, <1>5, Zenon

\* A call that returns keeps the invariant (every early return of InvokeWorker).
LEMMA EndKeeps ==
  ASSUME L!LeaseConstants, L!LeaseInv, NEW c \in Calls, L!Ends(c),
         UNCHANGED <<now, gen, ready, lease, cache, ran>>, raced \subseteq raced'
  PROVE  L!LeaseInv'
<1>1. L!Idle.at = "idle"
  BY Zenon DEF L!Idle
<1> QED BY <1>1, Moves, CallMoves, Zenon

\* A call that goes on to a stage it has the right to keeps the invariant
\* (validateRuntimeLeaseAudience, VerifyRuntimeLease, callIPC).
LEMMA GoKeeps ==
  ASSUME L!LeaseConstants, L!LeaseInv, NEW c \in Calls, call[c].at # "idle",
         NEW s \in L!Stages \ {"idle", "clocked"}, L!Goes(c, s),
         UNCHANGED <<now, gen, ready, lease, cache, ran>>, raced \subseteq raced',
         s \in {"consume", "consuming", "register", "write", "sent"} =>
            L!Canonical(call[c].lease) /\ L!workerInvocationContextFromInvocation(call[c].lease),
         s = "sent" => ready /\ call[c].gen = gen
  PROVE  L!LeaseInv'
<1> DEFINE r == [call[c] EXCEPT !.at = s]
<1>1. /\ r \in L!CallRecords /\ r.at = s /\ r.lease = call[c].lease /\ r.gen = call[c].gen
      /\ call' = [call EXCEPT ![c] = r]
  BY Moves, Zenon
<1> HIDE DEF r
<1>2. L!Established(r)
  BY <1>1, Moves, ZenonT(40) DEF L!Established, L!Waiting
<1> QED BY <1>1, <1>2, CallMoves, ZenonT(40)

\* The stages of InvokeWorker, its replay stores and the runtime's checks keep the
\* invariant: each hands on what it established, though the generation may have
\* changed in between (InvokeWorker, ConsumeRuntimeLease, validate_runtime_lease).
LEMMA HostKeeps ==
  ASSUME L!LeaseConstants, L!LeaseInv, NEW c \in Calls,
         \/ \E l \in Leases : L!InvokeWorker(c, l)
         \/ L!acquire(c) \/ L!validateRuntimeLeaseAudience(c) \/ L!SignAndVerify(c)
         \/ L!ConsumeClock(c) \/ L!ConsumeMemory(c) \/ L!ConsumeSQLite(c) \/ L!ConsumeFails(c)
         \/ L!Register(c) \/ L!Write(c) \/ L!Cancel(c) \/ L!RuntimeReads(c)
  PROVE  L!LeaseInv'
<1> USE DEF L!Stay
<1>1. ASSUME NEW l \in Leases, L!InvokeWorker(c, l) PROVE L!LeaseInv'
  <2> DEFINE r == [call[c] EXCEPT !.at = "acquire", !.lease = l]
  <2>1. r \in L!CallRecords /\ r.at = "acquire" /\ r.lease = l
    BY Moves, ZenonT(40) DEF L!CallRecords, L!Stages
  <2>2. call' = [call EXCEPT ![c] = r]
    BY <1>1, ZenonT(40) DEF L!InvokeWorker
  <2>3. L!Established(r)
    BY <1>1, <2>1, Zenon DEF L!InvokeWorker, L!Established, L!Waiting
  <2> QED BY <1>1, <2>1, <2>2, <2>3, CallMoves, ZenonT(40) DEF L!InvokeWorker
<1>2. CASE L!acquire(c)
  <2>1. CASE L!Goes(c, "audience")
    BY <1>2, <2>1, GoKeeps, Zenon DEF L!acquire, L!Stages
  <2>2. CASE L!Ends(c)
    BY <1>2, <2>2, EndKeeps, Zenon DEF L!acquire
  <2> QED BY <1>2, <2>1, <2>2, Zenon DEF L!acquire
<1>3. CASE L!validateRuntimeLeaseAudience(c)
  <2>1. CASE L!Goes(c, "sign")
    BY <1>3, <2>1, GoKeeps, Zenon DEF L!validateRuntimeLeaseAudience, L!Stages
  <2>2. CASE L!Ends(c)
    BY <1>3, <2>2, EndKeeps, Zenon DEF L!validateRuntimeLeaseAudience
  <2> QED BY <1>3, <2>1, <2>2, Zenon DEF L!validateRuntimeLeaseAudience
<1>4. CASE L!SignAndVerify(c)
  <2>1. CASE L!Ends(c)
    BY <1>4, <2>1, EndKeeps, Zenon DEF L!SignAndVerify
  <2>2. CASE /\ L!VerifyRuntimeLease(call[c].lease)
             /\ L!workerInvocationContextFromInvocation(call[c].lease)
    <3>1. PICK s \in {"register", "consume"} : L!Goes(c, s)
      BY <1>4, <2>2, Zenon DEF L!SignAndVerify
    <3> QED BY <1>4, <2>2, <3>1, GoKeeps, Zenon DEF L!SignAndVerify, L!VerifyRuntimeLease, L!Stages
  <2> QED BY <1>4, <2>1, <2>2, Zenon DEF L!SignAndVerify
<1>5. CASE L!ConsumeClock(c)
  <2>1. CASE L!Ends(c)
    BY <1>5, <2>1, EndKeeps, Zenon DEF L!ConsumeClock
  <2>2. CASE call' = [call EXCEPT ![c].at = "consuming", ![c].clock = now]
    <3> DEFINE r == [call[c] EXCEPT !.at = "consuming", !.clock = now]
    <3>1. r \in L!CallRecords /\ r.at = "consuming" /\ r.lease = call[c].lease
      BY Moves, ZenonT(40) DEF L!CallRecords, L!Stages, L!LeaseInv, L!Shape
    <3>2. call' = [call EXCEPT ![c] = r]
      BY <2>2, ZenonT(40)
    <3>3. L!Established(r)
      BY <1>5, <3>1, Moves, Zenon DEF L!ConsumeClock, L!Established, L!Waiting
    <3> QED BY <1>5, <3>1, <3>2, <3>3, CallMoves, ZenonT(40) DEF L!ConsumeClock
  <2> QED BY <1>5, <2>1, <2>2, Zenon DEF L!ConsumeClock
<1>6. CASE L!ConsumeMemory(c) \/ L!ConsumeSQLite(c) \/ L!ConsumeFails(c)
  <2>1. /\ call[c].at = "consuming" /\ (L!Ends(c) \/ L!Goes(c, "register"))
        /\ UNCHANGED <<now, gen, ready, lease, cache, ran>> /\ raced \subseteq raced'
    BY <1>6, Zenon DEF L!ConsumeMemory, L!ConsumeSQLite, L!ConsumeFails, L!Consuming
  <2>2. L!Canonical(call[c].lease) /\ L!workerInvocationContextFromInvocation(call[c].lease)
    BY <2>1, Moves, Zenon DEF L!Established
  <2>3. CASE L!Goes(c, "register")
    BY <2>1, <2>2, <2>3, GoKeeps, Zenon DEF L!Stages
  <2> QED BY <2>1, <2>3, EndKeeps, Zenon
<1>7. CASE L!Register(c)
  <2>1. CASE L!Ends(c)
    BY <1>7, <2>1, EndKeeps, Zenon DEF L!Register
  <2>2. CASE call' = [call EXCEPT ![c].at = "write", ![c].gen = gen]
    <3> DEFINE r == [call[c] EXCEPT !.at = "write", !.gen = gen]
    <3>1. r \in L!CallRecords /\ r.at = "write" /\ r.lease = call[c].lease
      BY Moves, ZenonT(40) DEF L!CallRecords, L!Stages, L!LeaseInv, L!Shape
    <3>2. call' = [call EXCEPT ![c] = r]
      BY <2>2, ZenonT(40)
    <3>3. L!Established(r)
      BY <1>7, <3>1, Moves, Zenon DEF L!Register, L!Established, L!Waiting
    <3> QED BY <1>7, <3>1, <3>2, <3>3, CallMoves, ZenonT(40) DEF L!Register
  <2> QED BY <1>7, <2>1, <2>2, Zenon DEF L!Register
<1>8. CASE L!Write(c)
  <2>1. CASE L!Ends(c)
    BY <1>8, <2>1, EndKeeps, Zenon DEF L!Write
  <2>2. CASE ready /\ call[c].gen = gen /\ L!Goes(c, "sent")
    <3>1. L!Canonical(call[c].lease) /\ L!workerInvocationContextFromInvocation(call[c].lease)
      BY <1>8, Moves, Zenon DEF L!Write, L!Established
    <3> QED BY <1>8, <2>2, <3>1, GoKeeps, Zenon DEF L!Write, L!Stages, L!Waiting
  <2> QED BY <1>8, <2>1, <2>2, Zenon DEF L!Write
<1>9. CASE L!Cancel(c)
  BY <1>9, EndKeeps, Zenon DEF L!Cancel
<1>10. CASE L!RuntimeReads(c)
  <2>1. CASE L!Ends(c)
    BY <1>10, <2>1, EndKeeps, Zenon DEF L!RuntimeReads
  <2>2. CASE /\ L!BoundToFrame(c) /\ ~L!Expired(call[c].lease, now)
             /\ call' = [call EXCEPT ![c].at = "clocked", ![c].clock = now]
    <3> DEFINE r == [call[c] EXCEPT !.at = "clocked", !.clock = now]
    <3>1. /\ r \in L!CallRecords /\ r.at = "clocked" /\ r.lease = call[c].lease
          /\ r.gen = call[c].gen /\ r.clock = now
      <4>1. call[c] \in L!CallRecords /\ now \in Nat /\ "clocked" \in L!Stages
        BY Moves, Zenon DEF L!Stages, L!Waiting, L!LeaseInv, L!Shape
      <4> QED BY <4>1, ZenonT(40) DEF L!CallRecords
    <3>2. call' = [call EXCEPT ![c] = r]
      BY <2>2, ZenonT(40)
    <3>3. L!Established(r)
      <4>1. /\ call[c].at = "sent" /\ L!Established(call[c]) /\ now \in Nat
            /\ lease[call[c].lease].gen = call[c].gen /\ lease[call[c].lease].shape # "untargeted"
        BY <1>10, <2>2, Moves, ZenonT(40) DEF L!RuntimeReads, L!BoundToFrame, L!LeaseInv, L!Shape
      <4> HIDE DEF r
      <4> QED BY <2>2, <3>1, <4>1 DEF L!Established, L!Waiting
    <3> QED BY <1>10, <2>2, <3>1, <3>2, <3>3, CallMoves, ZenonT(40) DEF L!RuntimeReads
  <2> QED BY <1>10, <2>1, <2>2, Zenon DEF L!RuntimeReads
<1> QED BY <1>1, <1>2, <1>3, <1>4, <1>5, <1>6, <1>7, <1>8, <1>9, <1>10, Zenon

\* The runtime's consumption of a lease keeps the invariant: a lease that has run is
\* still in the cache, or is named raced because another call with an older clock
\* reading holds it while it is pruned (consume_key).
LEMMA LeaseConsumeKeeps ==
  ASSUME L!LeaseConstants, L!LeaseInv, NEW c \in Calls, L!consume_key(c)
  PROVE  L!LeaseInv'
<1> DEFINE l == call[c].lease
           kept == L!pruneExpired(cache, call[c].clock)
           lets == /\ l \notin kept /\ cache' = kept \cup {l}
                   /\ ran' = [ran EXCEPT ![l] = Append(@, call[c].gen)]
<1>1. /\ call[c].at = "clocked" /\ ready /\ L!Ends(c)
      /\ raced' = raced \cup L!Racing(cache, call[c].clock, "clocked")
      /\ cache' = IF lets THEN kept \cup {l} ELSE kept
      /\ ran' = IF lets THEN [ran EXCEPT ![l] = Append(@, call[c].gen)] ELSE ran
      /\ UNCHANGED <<now, gen, ready, lease>>
  <2>1. /\ call[c].at = "clocked" /\ ready /\ L!Ends(c)
        /\ raced' = raced \cup L!Racing(cache, call[c].clock, "clocked")
        /\ UNCHANGED <<now, gen, ready, lease>>
    BY Zenon DEF L!consume_key
  <2>2. lets \/ (cache' = kept /\ ran' = ran)
    BY Zenon DEF L!consume_key
  <2> HIDE DEF kept
  <2> QED BY <2>1, <2>2, Zenon
<1>2. /\ l \in Leases /\ lease[l] # Nil /\ lease[l] \in L!LeaseRecords
      /\ L!Canonical(l) /\ lease[l].shape = "proper"
      /\ call[c].gen = gen /\ lease[l].gen = gen
      /\ ~L!Expired(l, call[c].clock) /\ call[c].clock <= now
      /\ call[c].clock \in Nat /\ gen \in Nat
  <2>1. call[c] \in L!CallRecords /\ L!Established(call[c])
    BY Moves, Zenon
  <2>2. l \in Leases /\ lease[l] # Nil /\ lease[l] \in L!LeaseRecords
    BY <1>1, <2>1, Zenon DEF L!Established, L!LeaseInv, L!Shape
  <2>3. lease[l].shape \notin L!MintRefuses /\ lease[l].shape \in Shapes
    BY <2>2, Zenon DEF L!LeaseInv, L!MintedHere, L!LeaseRecords
  <2>4. L!Canonical(l) /\ lease[l].shape # "unbound" /\ lease[l].shape # "untargeted"
    BY <1>1, <2>1, Zenon DEF L!Established, L!Waiting, L!workerInvocationContextFromInvocation
  <2>5. lease[l].shape = "proper"
    BY <2>3, <2>4, Zenon DEF L!LeaseConstants, L!Canonical
  <2> QED BY <1>1, <2>1, <2>2, <2>4, <2>5, Zenon
     DEF L!Established, L!Waiting, L!CallRecords, L!LeaseInv, L!Shape
<1>3. \A d \in Calls : call'[d] = IF d = c THEN L!Idle ELSE call[d]
  BY <1>1, Zenon DEF L!Ends, L!LeaseInv, L!Shape
<1> HIDE DEF kept, lets
<1>4. \A m \in Leases :
        ran'[m] = IF m = l /\ lets THEN Append(ran[m], gen) ELSE ran[m]
  BY <1>1, <1>2, Zenon DEF L!LeaseInv, L!Shape
<1>5. L!Shape'
  <2>1. call' \in [Calls -> L!CallRecords]
    <3>1. L!Idle \in L!CallRecords
      BY Moves, Zenon
    <3> QED BY <1>1, <3>1, Zenon DEF L!Ends, L!LeaseInv, L!Shape
  <2>2. ran' \in [Leases -> Seq(Nat)]
    BY <1>1, <1>2 DEF L!LeaseInv, L!Shape
  <2> QED BY <1>1, <2>1, <2>2, Zenon DEF L!LeaseInv, L!Shape
<1>6. L!MintedHere'
  BY <1>1, ZenonT(40) DEF L!LeaseInv, L!MintedHere
<1>7. L!StagesHold'
  <2>1. L!Established(L!Idle)
    BY Moves, Zenon
  <2> QED BY <1>1, <1>3, <2>1
     DEF L!LeaseInv, L!StagesHold, L!Established, L!Canonical, L!Expired,
         L!workerInvocationContextFromInvocation
<1>8. L!ExecutedAsMinted'
  <2> SUFFICES ASSUME NEW m \in Leases, NEW i \in DOMAIN ran'[m]
               PROVE  ran'[m][i] = lease[m].gen /\ ~lease[m].spent /\ lease[m].shape = "proper"
    BY <1>1, Zenon DEF L!ExecutedAsMinted
  <2>1. ran[m] \in Seq(Nat)
    BY Zenon DEF L!LeaseInv, L!Shape
  <2>2. CASE m = l /\ lets
    <3>1. ran'[m] = Append(ran[m], gen)
      BY <1>4, <2>2, ZenonT(40)
    <3>2. (i \in DOMAIN ran[m] /\ ran'[m][i] = ran[m][i]) \/ ran'[m][i] = gen
      BY <1>2, <2>1, <3>1
    <3> QED BY <1>2, <2>2, <3>2, Zenon DEF L!LeaseInv, L!ExecutedAsMinted, L!Canonical
  <2>3. CASE ~(m = l /\ lets)
    BY <1>4, <2>3, ZenonT(40) DEF L!LeaseInv, L!ExecutedAsMinted
  <2> QED BY <2>2, <2>3, Zenon
<1>9. L!RanOnce'
  <2> SUFFICES ASSUME NEW m \in Leases
               PROVE  /\ Len(ran'[m]) > 0 => lease[m] # Nil
                      /\ m \notin raced' => Len(ran'[m]) = 0 \/ (Len(ran'[m]) = 1 /\ L!Over(m)')
    BY <1>1, Zenon DEF L!RanOnce
  <2>1. /\ ran[m] \in Seq(Nat)
        /\ Len(ran[m]) > 0 => lease[m] # Nil
        /\ m \notin raced => Len(ran[m]) = 0 \/ (Len(ran[m]) = 1 /\ L!Over(m))
    BY Zenon DEF L!LeaseInv, L!Shape, L!RanOnce
  <2>2. Len(ran'[m]) > 0 => lease[m] # Nil
    BY <1>2, <1>4, <2>1, Zenon
  <2>3. ASSUME m \notin raced', Len(ran[m]) > 0
        PROVE  Len(ran[m]) = 1 /\ L!Over(m)' /\ ~(m = l /\ lets)
    <3>1. m \notin raced /\ Len(ran[m]) = 1 /\ L!Over(m)
      BY <1>1, <2>1, <2>3, SMTT(30)
    <3>2. CASE lease[m].gen < gen
      <4>1. m # l
        BY <1>2, <3>2, SMTT(30) DEF L!LeaseRecords
      <4> QED BY <1>1, <3>1, <3>2, <4>1, Zenon DEF L!Over
    <3>3. CASE m \in cache /\ ~L!Expired(m, call[c].clock)
      <4>1. m \in kept
        BY <3>3, Zenon DEF kept, L!pruneExpired
      <4> QED BY <1>1, <3>1, <4>1, Zenon DEF L!Over, lets
    <3>4. CASE m \in cache /\ L!Expired(m, call[c].clock)
      <4>1. \A d \in Calls : ~(call[d].at = "clocked" /\ call[d].lease = m)
        BY <1>1, <2>3, <3>4, Zenon DEF L!Racing, L!pruneExpired
      <4>2. L!Expired(m, now)
        <5>1. lease[m].exp \in Int /\ now \in Nat
          BY <2>1, <2>3, Zenon DEF L!LeaseInv, L!Shape, L!LeaseRecords
        <5> QED BY <1>2, <3>4, <5>1 DEF L!Expired
      <4>3. L!Over(m)'
        <5>1. \A d \in Calls : ~(call'[d].at = "clocked" /\ call'[d].lease = m)
          BY <1>3, <4>1 DEF L!Idle
        <5> QED BY <1>1, <4>2, <5>1, Zenon DEF L!Over, L!Expired
      <4> QED BY <1>1, <3>1, <4>1, <4>3, Zenon
    <3>5. CASE L!Expired(m, now) /\ \A d \in Calls : call[d].at = "clocked" => call[d].lease # m
      <4>1. L!Over(m)'
        <5>1. \A d \in Calls : ~(call'[d].at = "clocked" /\ call'[d].lease = m)
          BY <1>3, <3>5 DEF L!Idle
        <5> QED BY <1>1, <3>5, <5>1, Zenon DEF L!Over, L!Expired
      <4> QED BY <1>1, <3>1, <3>5, <4>1, Zenon
    <3> QED BY <1>1, <3>1, <3>2, <3>3, <3>4, <3>5, Zenon DEF L!Over
  <2>4. ASSUME Len(ran[m]) = 0, m = l, lets PROVE Len(ran'[m]) = 1 /\ L!Over(m)'
    <3>1. Len(ran'[m]) = 1
      <4>1. ran'[m] = Append(ran[m], gen) /\ gen \in Nat /\ ran[m] \in Seq(Nat)
        BY <1>2, <1>4, <2>1, <2>4, ZenonT(40)
      <4>2. Len(Append(ran[m], gen)) = Len(ran[m]) + 1
        BY <4>1
      <4> QED BY <2>4, <4>1, <4>2, SMTT(30)
    <3>2. m \in cache'
      BY <1>1, <2>4, Zenon
    <3> QED BY <3>1, <3>2, Zenon DEF L!Over
  <2> QED BY <1>4, <2>1, <2>2, <2>3, <2>4
<1> QED BY <1>5, <1>6, <1>7, <1>8, <1>9, Zenon DEF L!LeaseInv

\* The clock, a start and an exit of the runtime, a mint and a listing of the replay
\* store keep the invariant: a lease that ran stays out of reach when the cache is lost
\* with its process, since the next process has another generation (Start, wait,
\* MintRuntimeExecutionLease, ListRuntimeLeaseReplays).
LEMMA EnvironmentKeeps ==
  ASSUME L!LeaseConstants, L!LeaseInv,
         \/ L!Tick \/ L!Start \/ L!Exit \/ L!ListRuntimeLeaseReplays
         \/ \E l \in Leases, shape \in Shapes, want \in Wants :
               L!MintRuntimeExecutionLease(l, shape, want)
  PROVE  L!LeaseInv'
<1>1. CASE L!Tick
  <2>1. now' = now + 1 /\ now \in Nat /\ UNCHANGED <<gen, ready, lease, cache, call, ran, raced>>
    BY <1>1, Zenon DEF L!Tick, L!LeaseInv, L!Shape
  <2>2. L!Shape' /\ L!MintedHere' /\ L!ExecutedAsMinted'
    <3>1. now' \in Nat
      BY <2>1
    <3> QED BY <2>1, <3>1, Zenon
               DEF L!LeaseInv, L!Shape, L!MintedHere, L!ExecutedAsMinted
  <2>3. L!StagesHold'
    <3> SUFFICES ASSUME NEW c \in Calls PROVE L!Established(call[c])'
      BY <2>1, Zenon DEF L!StagesHold
    <3>1. call[c] \in L!CallRecords /\ L!Established(call[c])
      BY Moves, Zenon
    <3>2. call[c].clock \in Nat
      BY <3>1 DEF L!CallRecords
    <3>3. call[c].clock <= now => call[c].clock <= now'
      BY <2>1, <3>2
    <3> QED BY <2>1, <3>1, <3>3, Zenon
       DEF L!Established, L!Canonical, L!Expired, L!workerInvocationContextFromInvocation
  <2>4. \A l \in Leases : Len(ran[l]) > 0 /\ L!Over(l) => L!Over(l)'
    <3> SUFFICES ASSUME NEW l \in Leases, Len(ran[l]) > 0, L!Over(l) PROVE L!Over(l)'
      BY Zenon
    <3>1. lease[l] \in L!LeaseRecords
      BY Zenon DEF L!LeaseInv, L!Shape, L!RanOnce
    <3>2. lease[l].exp \in Int
      BY <3>1 DEF L!LeaseRecords
    <3>3. lease[l].exp <= now => lease[l].exp <= now'
      BY <2>1, <3>2
    <3> QED BY <2>1, <3>3, Zenon DEF L!Over, L!Expired
  <2>5. L!RanOnce'
    BY <2>1, <2>4 DEF L!LeaseInv, L!RanOnce
  <2> QED BY <2>2, <2>3, <2>5, Zenon DEF L!LeaseInv
<1>2. CASE L!Start
  <2>1. /\ ~ready /\ gen' = gen + 1 /\ ready' /\ gen \in Nat
        /\ ready' \in BOOLEAN /\ UNCHANGED <<now, lease, cache, call, ran, raced>>
    BY <1>2, Zenon DEF L!Start, L!LeaseInv, L!Shape
  <2>2. L!Shape' /\ L!ExecutedAsMinted'
    <3>1. gen' \in Nat
      BY <2>1
    <3> QED BY <2>1, <3>1, Zenon DEF L!LeaseInv, L!Shape, L!ExecutedAsMinted
  <2>3. \A l \in Leases : lease[l] # Nil => lease[l].gen < gen' /\ lease[l].gen <= gen'
    <3> SUFFICES ASSUME NEW l \in Leases, lease[l] # Nil
                 PROVE  lease[l].gen < gen' /\ lease[l].gen <= gen'
      BY Zenon
    <3>1. lease[l] \in L!LeaseRecords /\ lease[l].gen <= gen
      BY Zenon DEF L!LeaseInv, L!Shape, L!MintedHere
    <3>2. lease[l].gen \in Nat
      BY <3>1 DEF L!LeaseRecords
    <3> QED BY <2>1, <3>1, <3>2
  <2>4. L!MintedHere'
    BY <2>1, <2>3, Zenon DEF L!LeaseInv, L!MintedHere
  <2>5. L!StagesHold'
    BY <2>1, Zenon DEF L!LeaseInv, L!StagesHold, L!Established, L!Canonical,
                L!workerInvocationContextFromInvocation, L!Expired, L!Waiting
  <2>6. \A l \in Leases : Len(ran[l]) > 0 => L!Over(l)'
    BY <2>1, <2>3, Zenon DEF L!Over, L!LeaseInv, L!RanOnce
  <2>7. L!RanOnce'
    BY <2>1, <2>6 DEF L!LeaseInv, L!RanOnce
  <2> QED BY <2>2, <2>4, <2>5, <2>7, Zenon DEF L!LeaseInv
<1>3. CASE L!Exit
  <2>1. /\ ready' = FALSE /\ UNCHANGED <<now, gen, lease, ran, raced>>
        /\ \A c \in Calls : call'[c] = IF call[c].at \in L!Waiting THEN L!Idle ELSE call[c]
    BY <1>3, Zenon DEF L!Exit
  <2>2. call' \in [Calls -> L!CallRecords]
    BY <1>3, Moves, ZenonT(40) DEF L!Exit
  <2>3. L!Shape' /\ L!MintedHere' /\ L!ExecutedAsMinted'
    BY <2>1, <2>2, ZenonT(40) DEF L!LeaseInv, L!Shape, L!MintedHere, L!ExecutedAsMinted
  <2>4. L!StagesHold'
    <3> SUFFICES ASSUME NEW c \in Calls PROVE L!Established(call[c])'
      BY <2>1, Zenon DEF L!StagesHold
    <3>1. L!Established(call[c]) /\ L!Established(L!Idle)
      BY Moves, Zenon
    <3>2. CASE call[c].at \in L!Waiting
      <4>1. call'[c] = L!Idle /\ L!Idle.at = "idle"
        BY <2>1, <3>2, Zenon DEF L!Idle
      <4> QED BY <4>1, Zenon DEF L!Established, L!Waiting
    <3>3. CASE call[c].at \notin L!Waiting
      <4>1. call'[c] = call[c] /\ call[c].at # "clocked"
        BY <2>1, <3>3, Zenon DEF L!Waiting
      <4> QED BY <2>1, <3>1, <3>3, <4>1, Zenon
         DEF L!Established, L!Canonical, L!workerInvocationContextFromInvocation
    <3> QED BY <3>2, <3>3, Zenon
  <2>5. L!RanOnce'
    BY <2>1, Zenon DEF L!LeaseInv, L!RanOnce, L!Over
  <2> QED BY <2>3, <2>4, <2>5, Zenon DEF L!LeaseInv
<1>4. CASE L!ListRuntimeLeaseReplays
  <2>1. UNCHANGED <<now, gen, ready, lease, cache, call, ran>> /\ raced \subseteq raced'
    BY <1>4, Zenon DEF L!ListRuntimeLeaseReplays
  <2>2. L!Shape' /\ L!MintedHere' /\ L!ExecutedAsMinted'
    BY <2>1, Zenon DEF L!LeaseInv, L!Shape, L!MintedHere, L!ExecutedAsMinted
  <2>3. L!StagesHold'
    BY <2>1, Zenon DEF L!LeaseInv, L!StagesHold, L!Established, L!Canonical,
                L!workerInvocationContextFromInvocation, L!Expired
  <2>4. L!RanOnce'
    BY <2>1, Zenon DEF L!LeaseInv, L!RanOnce, L!Over, L!Expired
  <2> QED BY <2>2, <2>3, <2>4, Zenon DEF L!LeaseInv
<1>5. ASSUME NEW l \in Leases, NEW shape \in Shapes, NEW want \in Wants,
             L!MintRuntimeExecutionLease(l, shape, want)
      PROVE  L!LeaseInv'
  <2>1. PICK r \in L!LeaseRecords :
           /\ lease' = [lease EXCEPT ![l] = r] /\ r.gen = gen /\ r.shape \notin L!MintRefuses
    <3>1. now \in Nat /\ gen \in Nat
      BY Zenon DEF L!LeaseInv, L!Shape
    <3>2. L!ExpiresAt(want) \in Int
      BY <3>1 DEF L!ExpiresAt, L!Smaller, L!LeaseConstants
    <3> DEFINE r == [gen |-> gen, shape |-> shape, exp |-> L!ExpiresAt(want),
                     spent |-> L!ExpiresAt(want) <= now]
    <3>3. r \in L!LeaseRecords
      BY <3>1, <3>2 DEF L!LeaseRecords
    <3> QED BY <1>5, <3>3, ZenonT(40) DEF L!MintRuntimeExecutionLease
  <2>2. lease[l] = Nil /\ UNCHANGED <<now, gen, ready, cache, call, ran, raced>>
    BY <1>5, Zenon DEF L!MintRuntimeExecutionLease
  <2>3. \A m \in Leases : lease'[m] = IF m = l THEN r ELSE lease[m]
    BY <2>1, Zenon DEF L!LeaseInv, L!Shape
  <2>4. L!Shape'
    BY <2>1, <2>2, Zenon DEF L!LeaseInv, L!Shape
  <2>5. L!MintedHere'
    <3>1. gen \in Nat
      BY Zenon DEF L!LeaseInv, L!Shape
    <3>2. r.gen = gen
      BY <2>1, Zenon
    <3>3. r.gen <= gen
      BY <3>1, <3>2
    <3> QED BY <2>1, <2>2, <2>3, <3>3, Zenon DEF L!LeaseInv, L!MintedHere
  <2>6. L!StagesHold'
    BY <2>2, <2>3, ZenonT(40) DEF L!LeaseInv, L!StagesHold, L!Established, L!Canonical, L!Waiting,
                      L!workerInvocationContextFromInvocation, L!Expired
  <2>7. ran[l] \in Seq(Nat) /\ Len(ran[l]) = 0
    BY <2>2 DEF L!LeaseInv, L!Shape, L!RanOnce
  <2>8. L!RanOnce'
    BY <2>2, <2>3, <2>7, Zenon DEF L!LeaseInv, L!RanOnce, L!Over, L!Expired
  <2>9. L!ExecutedAsMinted'
    <3>1. DOMAIN ran[l] = {}
      BY <2>7
    <3> QED BY <2>2, <2>3, <3>1, Zenon DEF L!LeaseInv, L!ExecutedAsMinted
  <2> QED BY <2>4, <2>5, <2>6, <2>8, <2>9, Zenon DEF L!LeaseInv
<1> QED BY <1>1, <1>2, <1>3, <1>4, <1>5, Zenon

\* The inductive invariant of the runtime leases holds in every reachable state, for any
\* number of calls and leases, any replay store and any limits (InvokeWorker and the
\* runtime's validate_runtime_lease and consume_key).
THEOREM LeaseInvariant == L!LeaseConstants /\ L!Spec => []L!LeaseInv
<1> SUFFICES ASSUME L!LeaseConstants PROVE L!Spec => []L!LeaseInv
  BY Zenon
<1>1. L!Init => L!LeaseInv
  <2> SUFFICES ASSUME L!Init PROVE L!LeaseInv
    BY Zenon
  <2>1. L!Idle \in L!CallRecords
    BY Zenon DEF L!Idle, L!CallRecords, L!Stages
  <2>2. <<>> \in Seq(Nat) /\ Len(<<>>) = 0
    OBVIOUS
  <2>3. L!Shape
    BY <2>1, <2>2, ZenonT(40) DEF L!Init, L!Shape
  <2>4. L!StagesHold
    BY Zenon DEF L!Init, L!StagesHold, L!Established, L!Idle, L!Waiting
  <2>5. L!MintedHere /\ L!RanOnce /\ L!ExecutedAsMinted
    BY <2>2 DEF L!Init, L!MintedHere, L!RanOnce, L!ExecutedAsMinted
  <2> QED BY <2>3, <2>4, <2>5, Zenon DEF L!LeaseInv
<1>2. L!LeaseInv /\ [L!Next]_(L!vars) => L!LeaseInv'
  <2> SUFFICES ASSUME L!LeaseInv, [L!Next]_(L!vars) PROVE L!LeaseInv'
    BY Zenon
  <2>1. CASE UNCHANGED L!vars
    <3>1. L!Shape' /\ L!MintedHere' /\ L!ExecutedAsMinted'
      BY <2>1, Zenon DEF L!vars, L!LeaseInv, L!Shape, L!MintedHere, L!ExecutedAsMinted
    <3>2. L!StagesHold'
      BY <2>1, Zenon DEF L!vars, L!LeaseInv, L!StagesHold, L!Established, L!Canonical,
                  L!workerInvocationContextFromInvocation, L!Expired
    <3>3. L!RanOnce'
      BY <2>1, Zenon DEF L!vars, L!LeaseInv, L!RanOnce, L!Over, L!Expired
    <3> QED BY <3>1, <3>2, <3>3, Zenon DEF L!LeaseInv
  <2>2. CASE L!Next
    BY <2>2, HostKeeps, LeaseConsumeKeeps, EnvironmentKeeps, Zenon DEF L!Next
  <2> QED BY <2>1, <2>2, Zenon
<1> QED BY <1>1, <1>2, PTL DEF L!Spec

\* A lease runs at most once unless it was pruned under a call that had read the clock
\* earlier, and only in the generation and of the shape it was minted for, though the
\* replay cache is bounded, forgets what has expired and is lost with its process
\* (MintRuntimeExecutionLease, InvokeWorker, consume_key).
THEOREM LeaseRunsOnce ==
  L!LeaseConstants /\ L!Spec => [](L!ExecutedOnce /\ L!ExecutedAsMinted)
<1>1. L!LeaseInv => L!ExecutedOnce /\ L!ExecutedAsMinted
  <2> SUFFICES ASSUME L!LeaseInv, NEW l \in Leases, l \notin raced PROVE Len(ran[l]) <= 1
    BY Zenon DEF L!LeaseInv, L!ExecutedOnce
  <2>1. ran[l] \in Seq(Nat) /\ (Len(ran[l]) = 0 \/ Len(ran[l]) = 1)
    BY Zenon DEF L!LeaseInv, L!Shape, L!RanOnce
  <2>2. Len(ran[l]) \in Nat
    BY <2>1
  <2>3. \A n \in Nat : n = 0 \/ n = 1 => n <= 1
    OBVIOUS
  <2> QED BY <2>1, <2>2, <2>3, ZenonT(40)
<1> QED BY <1>1, LeaseInvariant, PTL
=============================================================================
