------------------------- MODULE MethodConfirmation -------------------------
(***************************************************************************)
(* How the Host prepares, confirms and rejects a method call of one plugin  *)
(* (Host.PrepareMethodConfirmation, CallPluginMethod, InvokeIntent,          *)
(* RejectMethodConfirmation), while the plugin's authorization changes, the  *)
(* target and the plan of the call change in the world, and what was issued  *)
(* lapses.  A confirmation is an intent in the intent store and a token in   *)
(* the token manager, written and taken in separate steps; rev stands for    *)
(* the record's fingerprint, revisions and revoke epoch.                     *)
(***************************************************************************)
EXTENDS Integers, FiniteSets, TLAPS

CONSTANTS
  Calls,          \* concurrent requests to the Host
  IDs,            \* confirmation IDs newConfirmationID may draw
  Requests,       \* a method with its parameters
  Confirmed,      \* the requests whose method requires a confirmation
  Preflighted,    \* those whose confirmation has a preflight method
  OnSurface,      \* those routed to a surface
  MaxRev, MaxWorld, Nil

VARIABLES
  record,         \* the registry's record: enabled, rev
  gateway,        \* the revision the surface's gateway token is bound to, 0 if revoked
  floor,          \* tokens of older revisions are revoked and cannot be minted
  tokens, intents, lapsed,
  world,          \* what a target and a plan resolve to now
  mutation,       \* the management operation that follows a revision: "idle", "tokens", "intents"
  call,           \* the requests under way
  shown,          \* confirmations the user was shown
  rejected,       \* IDs whose rejection was answered
  dispatched      \* the calls that reached their adapter

vars == <<record, gateway, floor, tokens, intents, lapsed, world, mutation, call, shown, rejected, dispatched>>
held == <<record, gateway, floor, world, mutation, lapsed>>

Idle == [at |-> "idle", op |-> Nil, req |-> Nil, id |-> Nil, rev |-> 0, target |-> 0, plan |-> 0, agreed |-> Nil]

Init ==
  /\ record = [enabled |-> TRUE, rev |-> 1] /\ gateway = 1 /\ floor = 1
  /\ tokens = {} /\ intents = {} /\ lapsed = {}
  /\ world = [target |-> 1, plan |-> 1] /\ mutation = "idle"
  /\ call = [c \in Calls |-> Idle]
  /\ shown = {} /\ rejected = {} /\ dispatched = {}

Goto(c, at) == call' = [call EXCEPT ![c].at = at]
Fail(c) == call' = [call EXCEPT ![c] = [Idle EXCEPT !.at = "failed"]]
At(c, at, ops) == call[c].at = at /\ call[c].op \in ops
Silent == UNCHANGED <<tokens, intents, shown, rejected, dispatched>>

\* What a confirmation binds: the same in the token's audience and the intent.
Binding(c, id) == [id |-> id, req |-> call[c].req, rev |-> call[c].rev, target |-> call[c].target, plan |-> call[c].plan]

Begin(c, op, req, id) ==
  /\ call[c].at = "idle"
  /\ id \in {Nil} \cup {s.id : s \in shown}
  /\ op = "prepare" => id = Nil
  /\ op = "reject" => id # Nil /\ req = Nil
  /\ op # "reject" => req # Nil
  /\ call' = [call EXCEPT ![c] = [Idle EXCEPT !.at = "resolve", !.op = op, !.req = req, !.id = id]]
  /\ Silent /\ UNCHANGED held

\* The record is read once; everything after compares with what it said.
resolveMethodCall(c) ==
  /\ At(c, "resolve", {"prepare", "call"})
  /\ IF record.enabled THEN call' = [call EXCEPT ![c].at = "token", ![c].rev = record.rev] ELSE Fail(c)
  /\ Silent /\ UNCHANGED held

\* A headless invocation has no gateway token; the intent names the plugin.
resolveIntentIdentity(c) ==
  /\ At(c, "resolve", {"intent"})
  /\ IF record.enabled THEN call' = [call EXCEPT ![c].at = "authorize", ![c].rev = record.rev] ELSE Fail(c)
  /\ Silent /\ UNCHANGED held

ValidateSurfaceGatewayToken(c) ==
  /\ At(c, "token", {"prepare", "call"})
  /\ IF gateway = call[c].rev THEN Goto(c, "authorize") ELSE Fail(c)
  /\ Silent /\ UNCHANGED held

\* The registry authorizes against the revisions of the record that was read.
authorizeDeclaredMethod(c) ==
  /\ At(c, "authorize", {"prepare", "call", "intent"})
  /\ IF record.rev = call[c].rev /\ record.enabled THEN Goto(c, "route") ELSE Fail(c)
  /\ Silent /\ UNCHANGED held

\* Only what needs no confirmation, or has one, goes on; the others are asked
\* to confirm first.  A confirmation is taken only by a method with a surface
\* of its own when the invocation is headless.
CallPluginMethod(c) ==
  /\ At(c, "route", {"call"})
  /\ IF call[c].req \notin Confirmed THEN Goto(c, "dispatch")
     ELSE IF call[c].id = Nil THEN Fail(c)
     ELSE Goto(c, "consume")
  /\ Silent /\ UNCHANGED held

InvokeIntent(c) ==
  /\ At(c, "route", {"intent"})
  /\ IF call[c].req \notin Confirmed THEN Goto(c, "dispatch")
     ELSE IF call[c].id = Nil \/ call[c].req \notin OnSurface THEN Fail(c)
     ELSE Goto(c, "consume")
  /\ Silent /\ UNCHANGED held

PrepareMethodConfirmation(c) ==
  /\ At(c, "route", {"prepare"})
  /\ IF call[c].req \in Confirmed THEN Goto(c, "target") ELSE Fail(c)
  /\ Silent /\ UNCHANGED held

\* Mutant of consumeConfirmationIntent: the intent is read, not taken.
peekConfirmationIntent(c) ==
  /\ At(c, "consume", {"call", "intent"})
  /\ LET taken == {i \in intents : i.id = call[c].id} IN
     /\ IF \E i \in taken : i.id \notin lapsed /\ i.req = call[c].req /\ i.rev = call[c].rev
        THEN call' = [call EXCEPT ![c].at = "target", ![c].agreed = CHOOSE i \in taken : TRUE]
        ELSE Fail(c)
  /\ UNCHANGED <<tokens, intents, shown, rejected, dispatched>> /\ UNCHANGED held

\* The intent is taken before anything it binds is compared: a mismatch spends it.
consumeConfirmationIntent(c) ==
  /\ At(c, "consume", {"call", "intent"})
  /\ LET taken == {i \in intents : i.id = call[c].id} IN
     /\ intents' = intents \ taken
     /\ IF \E i \in taken : i.id \notin lapsed /\ i.req = call[c].req /\ i.rev = call[c].rev
        THEN call' = [call EXCEPT ![c].at = "target", ![c].agreed = CHOOSE i \in taken : TRUE]
        ELSE Fail(c)
  /\ UNCHANGED <<tokens, shown, rejected, dispatched>> /\ UNCHANGED held

\* Resolved anew for the confirmed call; the descriptor goes with the call.
resolveMethodConfirmationTarget(c) ==
  /\ At(c, "target", {"prepare", "call", "intent"})
  /\ IF call[c].agreed # Nil /\ call[c].agreed.target # world.target THEN Fail(c)
     ELSE call' = [call EXCEPT ![c].at = "plan", ![c].target = world.target]
  /\ Silent /\ UNCHANGED held

\* The preflight method runs again for the confirmed call.
prepareConfirmationPlan(c) ==
  /\ At(c, "plan", {"prepare", "call", "intent"})
  /\ LET plan == IF call[c].req \in Preflighted THEN world.plan ELSE 0 IN
     IF call[c].agreed # Nil /\ call[c].agreed.plan # plan THEN Fail(c)
     ELSE call' = [call EXCEPT ![c].plan = plan, ![c].at = IF call[c].op = "prepare" THEN "mint" ELSE "validate"]
  /\ Silent /\ UNCHANGED held

MintConfirmationToken(c) ==
  /\ At(c, "mint", {"prepare"})
  /\ \E id \in IDs \ ({t.id : t \in tokens} \cup {s.id : s \in shown} \cup {call[d].id : d \in Calls}) :
       IF call[c].rev < floor THEN Fail(c) /\ UNCHANGED tokens
       ELSE /\ tokens' = tokens \cup {Binding(c, id)}
            /\ call' = [call EXCEPT ![c].at = "store", ![c].id = id]
  /\ UNCHANGED <<intents, shown, rejected, dispatched>> /\ UNCHANGED held

\* A refused intent leaves its token behind, which nothing can name.
storeConfirmationIntent(c) ==
  /\ At(c, "store", {"prepare"})
  /\ \/ /\ call[c].id \notin lapsed
        /\ intents' = intents \cup {Binding(c, call[c].id)}
        /\ shown' = shown \cup {Binding(c, call[c].id)}
        /\ Goto(c, "done")
     \/ Fail(c) /\ UNCHANGED <<intents, shown>>
  /\ UNCHANGED <<tokens, rejected, dispatched>> /\ UNCHANGED held

\* The last check, and the token's only use.
ValidateConfirmationTokenID(c) ==
  /\ At(c, "validate", {"call", "intent"})
  /\ LET t == Binding(c, call[c].id) IN
     IF t \in tokens /\ t.id \notin lapsed
     THEN tokens' = tokens \ {t} /\ Goto(c, "dispatch")
     ELSE Fail(c) /\ UNCHANGED tokens
  /\ UNCHANGED <<intents, shown, rejected, dispatched>> /\ UNCHANGED held

Dispatch(c) ==
  /\ At(c, "dispatch", {"call", "intent"})
  /\ dispatched' = dispatched \cup {[by |-> c, of |-> Binding(c, call[c].id)]}
  /\ Goto(c, "done")
  /\ UNCHANGED <<tokens, intents, shown, rejected>> /\ UNCHANGED held

RejectMethodConfirmation(c) ==
  /\ \/ /\ At(c, "resolve", {"reject"})
        /\ call' = [call EXCEPT ![c].at = "token", ![c].rev = record.rev]
        /\ UNCHANGED <<intents, rejected>>
     \/ /\ At(c, "token", {"reject"})
        /\ IF gateway = call[c].rev THEN Goto(c, "reject") ELSE Fail(c)
        /\ UNCHANGED <<intents, rejected>>
     \/ /\ At(c, "reject", {"reject"})
        /\ LET named == {i \in intents : i.id = call[c].id}
               gone == {i \in named : i.id \in lapsed \/ i.rev = call[c].rev} IN
           /\ intents' = intents \ gone
           /\ IF gone # {} /\ call[c].id \notin lapsed
              THEN rejected' = rejected \cup {call[c].id} /\ Goto(c, "done")
              ELSE Fail(c) /\ UNCHANGED rejected
  /\ UNCHANGED <<tokens, shown, dispatched>> /\ UNCHANGED held

(* The rest of the Host and the world. *)

\* A change of authorization commits first; revokePluginRuntimeCapabilities
\* then revokes the tokens and, in a later step, deletes the intents.
Change ==
  /\ mutation = "idle" /\ record.rev < MaxRev
  /\ \E on \in BOOLEAN : record' = [enabled |-> on, rev |-> record.rev + 1]
  /\ mutation' = "tokens"
  /\ UNCHANGED <<gateway, floor, world, lapsed, call>> /\ Silent
\* Mutant of RevokeTokens: only gateway tokens are of the revoked epoch.
RevokeTokensGatewayOnly ==
  /\ mutation = "tokens" /\ mutation' = "intents"
  /\ floor' = record.rev /\ gateway' = 0
  /\ UNCHANGED <<record, world, lapsed, call, tokens, intents, shown, rejected, dispatched>>
RevokeTokens ==
  /\ mutation = "tokens" /\ mutation' = "intents"
  /\ floor' = record.rev /\ tokens' = {t \in tokens : t.rev >= record.rev}
  /\ gateway' = 0
  /\ UNCHANGED <<record, world, lapsed, call, intents, shown, rejected, dispatched>>
deleteConfirmationIntentsForPlugin ==
  /\ mutation = "intents" /\ mutation' = "idle" /\ intents' = {}
  /\ UNCHANGED <<record, gateway, floor, world, lapsed, call, tokens, shown, rejected, dispatched>>

\* The surface is opened again under the current record.
Reopen ==
  /\ gateway = 0 /\ mutation = "idle" /\ record.enabled /\ gateway' = record.rev
  /\ UNCHANGED <<record, floor, world, lapsed, mutation, call>> /\ Silent
WorldChanges ==
  /\ \E f \in {"target", "plan"} : world[f] < MaxWorld /\ world' = [world EXCEPT ![f] = @ + 1]
  /\ UNCHANGED <<record, gateway, floor, lapsed, mutation, call>> /\ Silent
Lapse(id) ==
  /\ id \in {t.id : t \in tokens} \ lapsed /\ lapsed' = lapsed \cup {id}
  /\ UNCHANGED <<record, gateway, floor, world, mutation, call>> /\ Silent

Step(c) ==
  \/ resolveMethodCall(c) \/ resolveIntentIdentity(c) \/ ValidateSurfaceGatewayToken(c)
  \/ authorizeDeclaredMethod(c) \/ CallPluginMethod(c) \/ InvokeIntent(c) \/ PrepareMethodConfirmation(c)
  \/ consumeConfirmationIntent(c) \/ resolveMethodConfirmationTarget(c) \/ prepareConfirmationPlan(c)
  \/ MintConfirmationToken(c) \/ storeConfirmationIntent(c) \/ ValidateConfirmationTokenID(c)
  \/ Dispatch(c) \/ RejectMethodConfirmation(c)

Next ==
  \/ \E c \in Calls : \/ Step(c)
                      \/ \E op \in {"prepare", "call", "intent", "reject"}, req \in Requests \cup {Nil}, id \in IDs \cup {Nil} :
                           Begin(c, op, req, id)
  \/ Change \/ RevokeTokens \/ deleteConfirmationIntentsForPlugin
  \/ Reopen \/ WorldChanges \/ \E id \in IDs : Lapse(id)

Spec == Init /\ [][Next]_vars

\* A call whose method requires a confirmation reaches its adapter only with
\* the request, target and plan the user was shown under the record's revision
\* at that time; one confirmation carries one call; and a confirmation whose
\* rejection was answered carries none, though calls, rejections and
\* revocations race (consumeMethodConfirmation, RejectMethodConfirmation).
DispatchWasConfirmed ==
  \A d \in dispatched : d.of.req \in Confirmed =>
    /\ d.of \in shown
    /\ d.of.id \notin rejected
    /\ \A e \in dispatched : e.of = d.of => e = d

\* No call passes its last check under a confirmation of a revision whose
\* tokens have been revoked (revokePluginRuntimeCapabilities before
\* ValidateConfirmationTokenID), even if its intent was stored or taken before
\* or after the deletion of the plugin's intents.
PassesUnrevoked ==
  \A c \in Calls : call[c].at = "validate" /\ call'[c].at = "dispatch" => call[c].rev >= floor

-----------------------------------------------------------------------------
(* The inductive invariant of DispatchWasConfirmed and PassesUnrevoked.    *)

\* What a confirmation binds, and a request under way.
Bindings == [id : IDs, req : Requests \cup {Nil}, rev : Nat, target : Nat, plan : Nat]
CallSteps == {"idle", "failed", "resolve", "token", "authorize", "route", "consume", "target",
              "plan", "mint", "store", "validate", "dispatch", "reject", "done"}
CallRecords ==
  [at : CallSteps, op : {Nil, "prepare", "call", "intent", "reject"},
   req : Requests \cup {Nil}, id : IDs \cup {Nil}, rev : Nat, target : Nat,
   plan : Nat, agreed : Bindings \cup {Nil}]

\* Nil is neither a confirmation nor the ID of one.
ConfirmationConstants == Nil \notin Bindings /\ Nil \notin IDs

\* The shape of the state.
Shape ==
  /\ record.rev \in Nat /\ floor \in Nat
  /\ world \in [target : Nat, plan : Nat]
  /\ call \in [Calls -> CallRecords]
  /\ shown \in SUBSET Bindings

\* An ID names one confirmation: what is stored was shown and is not rejected,
\* and an ID about to be stored is nobody else's (newConfirmationID,
\* storeConfirmationIntent).
FreshConfirmations ==
  /\ \A s, t \in shown : s.id = t.id => s = t
  /\ intents \subseteq shown /\ \A i \in intents : i.id \notin rejected
  /\ \A x \in rejected : \E s \in shown : s.id = x
  /\ \A c \in Calls : call[c].at = "store" =>
       /\ call[c].id \in IDs /\ \A s \in shown : s.id # call[c].id
       /\ \A d \in Calls : call[d].at = "store" /\ call[d].id = call[c].id => d = c

\* Call c has taken its confirmation and not used it yet (between
\* consumeConfirmationIntent and the adapter).
Holds(c) ==
  /\ call[c].op \in {"call", "intent"}
  /\ call[c].at \in {"target", "plan", "validate", "dispatch"}
  /\ call[c].at = "dispatch" => call[c].req \in Confirmed

\* The confirmation it took is out of the table, was not rejected, and agrees with
\* what the call has resolved so far.
AsAgreed(c) ==
  /\ call[c].agreed \in shown \ intents /\ call[c].agreed.id \notin rejected
  /\ call[c].agreed.id = call[c].id /\ call[c].agreed.req = call[c].req
  /\ call[c].agreed.rev = call[c].rev
  /\ call[c].at # "target" => call[c].agreed.target = call[c].target
  /\ call[c].at \in {"validate", "dispatch"} => call[c].agreed.plan = call[c].plan

\* No two calls have taken one confirmation.
OneHolder ==
  /\ \A c \in Calls : Holds(c) => AsAgreed(c)
  /\ \A c, d \in Calls : Holds(c) /\ Holds(d) /\ call[d].agreed = call[c].agreed => d = c

\* A dispatched confirmation is spent: nobody holds it or will.
Spent ==
  \A d \in dispatched : d.of.req \in Confirmed =>
    /\ d.of \in shown \ intents /\ d.of.id \notin rejected
    /\ \A c \in Calls : Holds(c) => call[c].agreed # d.of
    /\ \A e \in dispatched : e.of = d.of => e = d

\* No token of a revoked epoch is left (RevokePlugin, Mint).
TokensAboveFloor == \A t \in tokens : t.rev >= floor

ConfirmationInv == Shape /\ FreshConfirmations /\ OneHolder /\ Spent /\ TokensAboveFloor

-----------------------------------------------------------------------------
(* Proofs.                                                                 *)

\* Every step of a request keeps the invariant, from the resolution of its method to
\* the adapter or the answered rejection.
LEMMA StepKeeps ==
  ASSUME ConfirmationConstants, ConfirmationInv, NEW c \in Calls, Step(c)
  PROVE ConfirmationInv'
<1> USE DEF ConfirmationConstants, ConfirmationInv, Silent, held, At, Goto, Fail, Idle,
      Binding
<1>1. CASE resolveMethodCall(c)
  <2>1. Shape'
    BY <1>1
       DEF resolveMethodCall, Shape, FreshConfirmations, Bindings, CallSteps, CallRecords
  <2>2. FreshConfirmations'
    BY <1>1, SMTT(30) DEF resolveMethodCall, Shape, CallRecords, FreshConfirmations
  <2>3. OneHolder'
    BY <1>1, SMTT(30) DEF resolveMethodCall, Shape, CallRecords, OneHolder, AsAgreed, Holds
  <2>4. Spent'
    BY <1>1 DEF resolveMethodCall, Shape, CallRecords, OneHolder, Spent, AsAgreed, Holds
  <2>5. TokensAboveFloor'
    BY <1>1, Zenon DEF resolveMethodCall, Shape, CallRecords, TokensAboveFloor
  <2> QED BY <2>1, <2>2, <2>3, <2>4, <2>5, Zenon
<1>2. CASE resolveIntentIdentity(c)
  <2>1. Shape'
    BY <1>2, SMTT(30)
       DEF resolveIntentIdentity, Shape, FreshConfirmations, Bindings, CallSteps,
           CallRecords
  <2>2. FreshConfirmations'
    BY <1>2 DEF resolveIntentIdentity, Shape, CallRecords, FreshConfirmations
  <2>3. OneHolder'
    BY <1>2, SMTT(30) DEF resolveIntentIdentity, Shape, CallRecords, OneHolder, AsAgreed, Holds
  <2>4. Spent'
    BY <1>2
       DEF resolveIntentIdentity, Shape, CallRecords, OneHolder, Spent, AsAgreed, Holds
  <2>5. TokensAboveFloor'
    BY <1>2, Zenon DEF resolveIntentIdentity, Shape, CallRecords, TokensAboveFloor
  <2> QED BY <2>1, <2>2, <2>3, <2>4, <2>5, Zenon
<1>3. CASE ValidateSurfaceGatewayToken(c)
  <2>1. Shape'
    BY <1>3
       DEF ValidateSurfaceGatewayToken, Shape, FreshConfirmations, Bindings, CallSteps,
           CallRecords
  <2>2. FreshConfirmations'
    BY <1>3, SMTT(30) DEF ValidateSurfaceGatewayToken, Shape, CallRecords, FreshConfirmations
  <2>3. OneHolder'
    BY <1>3, SMTT(30)
       DEF ValidateSurfaceGatewayToken, Shape, CallRecords, OneHolder, AsAgreed, Holds
  <2>4. Spent'
    BY <1>3
       DEF ValidateSurfaceGatewayToken, Shape, CallRecords, OneHolder, Spent, AsAgreed,
           Holds
  <2>5. TokensAboveFloor'
    BY <1>3, Zenon DEF ValidateSurfaceGatewayToken, Shape, CallRecords, TokensAboveFloor
  <2> QED BY <2>1, <2>2, <2>3, <2>4, <2>5, Zenon
<1>4. CASE authorizeDeclaredMethod(c)
  <2>1. Shape'
    BY <1>4
       DEF authorizeDeclaredMethod, Shape, FreshConfirmations, Bindings, CallSteps,
           CallRecords
  <2>2. FreshConfirmations'
    BY <1>4 DEF authorizeDeclaredMethod, Shape, CallRecords, FreshConfirmations
  <2>3. OneHolder'
    BY <1>4, SMTT(30) DEF authorizeDeclaredMethod, Shape, CallRecords, OneHolder, AsAgreed, Holds
  <2>4. Spent'
    BY <1>4
       DEF authorizeDeclaredMethod, Shape, CallRecords, OneHolder, Spent, AsAgreed, Holds
  <2>5. TokensAboveFloor'
    BY <1>4, Zenon DEF authorizeDeclaredMethod, Shape, CallRecords, TokensAboveFloor
  <2> QED BY <2>1, <2>2, <2>3, <2>4, <2>5, Zenon
<1>5. CASE CallPluginMethod(c)
  <2>1. Shape'
    BY <1>5
       DEF CallPluginMethod, Shape, FreshConfirmations, Bindings, CallSteps, CallRecords
  <2>2. FreshConfirmations'
    BY <1>5, SMTT(30) DEF CallPluginMethod, Shape, CallRecords, FreshConfirmations
  <2>3. OneHolder'
    BY <1>5, SMTT(30) DEF CallPluginMethod, Shape, CallRecords, OneHolder, AsAgreed, Holds
  <2>4. Spent'
    BY <1>5 DEF CallPluginMethod, Shape, CallRecords, OneHolder, Spent, AsAgreed, Holds
  <2>5. TokensAboveFloor'
    BY <1>5, Zenon DEF CallPluginMethod, Shape, CallRecords, TokensAboveFloor
  <2> QED BY <2>1, <2>2, <2>3, <2>4, <2>5, Zenon
<1>6. CASE InvokeIntent(c)
  <2>1. Shape'
    BY <1>6, SMTT(30) DEF InvokeIntent, Shape, FreshConfirmations, Bindings, CallSteps, CallRecords
  <2>2. FreshConfirmations'
    BY <1>6 DEF InvokeIntent, Shape, CallRecords, FreshConfirmations
  <2>3. OneHolder'
    BY <1>6, SMTT(30) DEF InvokeIntent, Shape, CallRecords, OneHolder, AsAgreed, Holds
  <2>4. Spent'
    BY <1>6 DEF InvokeIntent, Shape, CallRecords, OneHolder, Spent, AsAgreed, Holds
  <2>5. TokensAboveFloor'
    BY <1>6, Zenon DEF InvokeIntent, Shape, CallRecords, TokensAboveFloor
  <2> QED BY <2>1, <2>2, <2>3, <2>4, <2>5, Zenon
<1>7. CASE PrepareMethodConfirmation(c)
  <2>1. Shape'
    BY <1>7
       DEF PrepareMethodConfirmation, Shape, FreshConfirmations, Bindings, CallSteps,
           CallRecords
  <2>2. FreshConfirmations'
    BY <1>7, SMTT(30) DEF PrepareMethodConfirmation, Shape, CallRecords, FreshConfirmations
  <2>3. OneHolder'
    BY <1>7 DEF PrepareMethodConfirmation, Shape, CallRecords, OneHolder, AsAgreed, Holds
  <2>4. Spent'
    BY <1>7
       DEF PrepareMethodConfirmation, Shape, CallRecords, OneHolder, Spent, AsAgreed,
           Holds
  <2>5. TokensAboveFloor'
    BY <1>7, Zenon DEF PrepareMethodConfirmation, Shape, CallRecords, TokensAboveFloor
  <2> QED BY <2>1, <2>2, <2>3, <2>4, <2>5, Zenon
<1>8. CASE consumeConfirmationIntent(c)
  <2>1. Shape'
    BY <1>8, SMTT(30)
       DEF consumeConfirmationIntent, Shape, FreshConfirmations, Bindings, CallSteps,
           CallRecords
  <2>2. FreshConfirmations'
    BY <1>8, SMTT(30) DEF consumeConfirmationIntent, Shape, CallRecords, FreshConfirmations
  <2>3. OneHolder'
    <3> DEFINE taken == {i \in intents : i.id = call[c].id}
    <3>1. CASE call' = [call EXCEPT ![c] = [Idle EXCEPT !.at = "failed"]]
      BY <1>8, <3>1
         DEF consumeConfirmationIntent, Shape, CallRecords, FreshConfirmations, OneHolder,
             AsAgreed, Holds
    <3>2. ASSUME NEW i \in taken, i.req = call[c].req, i.rev = call[c].rev,
                 call' = [call EXCEPT ![c].at = "target", ![c].agreed = i]
          PROVE OneHolder'
      <4>1. /\ call'[c].agreed = i /\ call'[c].at = "target" /\ call'[c].id = call[c].id
            /\ call'[c].req = call[c].req /\ call'[c].rev = call[c].rev
            /\ \A d \in Calls \ {c} : (Holds(d)' <=> Holds(d)) /\ call'[d] = call[d]
        BY <3>2 DEF Shape, CallRecords, Holds
      <4>2. /\ UNCHANGED <<shown, rejected>> /\ intents' = intents \ taken
        BY <1>8, Zenon DEF consumeConfirmationIntent
      <4>3. i \in shown /\ i \in intents /\ i \notin intents' /\ i.id = call[c].id
        BY <3>2, <4>2, Zenon DEF FreshConfirmations
      <4> HIDE DEF taken
      <4>4. i.id \notin rejected
        BY <4>3, Zenon DEF FreshConfirmations
      <4>5. \A d \in Calls \ {c} : Holds(d)' => call'[d].agreed # i
        BY <4>1, <4>3 DEF OneHolder, AsAgreed
      <4>6. AsAgreed(c)'
        BY <3>2, <4>1, <4>2, <4>3, <4>4 DEF AsAgreed
      <4>7. \A d \in Calls \ {c} : Holds(d)' => AsAgreed(d)'
        BY <4>1, <4>2 DEF OneHolder, AsAgreed
      <4> QED BY <4>1, <4>5, <4>6, <4>7 DEF OneHolder
    <3>3. ASSUME NEW i \in taken PROVE i = CHOOSE j \in taken : TRUE
      BY <3>3 DEF FreshConfirmations
    <3> QED BY <1>8, <3>1, <3>2, <3>3, Zenon DEF consumeConfirmationIntent
  <2>4. Spent'
    BY <1>8
       DEF consumeConfirmationIntent, Shape, CallRecords, FreshConfirmations, OneHolder,
           Spent, AsAgreed, Holds
  <2>5. TokensAboveFloor'
    BY <1>8, Zenon DEF consumeConfirmationIntent, Shape, CallRecords, TokensAboveFloor
  <2> QED BY <2>1, <2>2, <2>3, <2>4, <2>5, Zenon
<1>9. CASE resolveMethodConfirmationTarget(c)
  <2>1. Shape'
    BY <1>9
       DEF resolveMethodConfirmationTarget, Shape, FreshConfirmations, Bindings,
           CallSteps, CallRecords
  <2>2. FreshConfirmations'
    BY <1>9 DEF resolveMethodConfirmationTarget, Shape, CallRecords, FreshConfirmations
  <2>3. OneHolder'
    BY <1>9, SMTT(30)
       DEF resolveMethodConfirmationTarget, Shape, CallRecords, OneHolder, AsAgreed, Holds
  <2>4. Spent'
    BY <1>9
       DEF resolveMethodConfirmationTarget, Shape, CallRecords, OneHolder, Spent,
           AsAgreed, Holds
  <2>5. TokensAboveFloor'
    BY <1>9, Zenon DEF resolveMethodConfirmationTarget, Shape, CallRecords, TokensAboveFloor
  <2> QED BY <2>1, <2>2, <2>3, <2>4, <2>5, Zenon
<1>10. CASE prepareConfirmationPlan(c)
  <2>1. Shape'
    BY <1>10, SMTT(30)
       DEF prepareConfirmationPlan, Shape, FreshConfirmations, Bindings, CallSteps,
           CallRecords
  <2>2. FreshConfirmations'
    BY <1>10 DEF prepareConfirmationPlan, Shape, CallRecords, FreshConfirmations
  <2>3. OneHolder'
    BY <1>10, SMTT(30) DEF prepareConfirmationPlan, Shape, CallRecords, OneHolder, AsAgreed, Holds
  <2>4. Spent'
    BY <1>10
       DEF prepareConfirmationPlan, Shape, CallRecords, OneHolder, Spent, AsAgreed, Holds
  <2>5. TokensAboveFloor'
    BY <1>10, Zenon DEF prepareConfirmationPlan, Shape, CallRecords, TokensAboveFloor
  <2> QED BY <2>1, <2>2, <2>3, <2>4, <2>5, Zenon
<1>11. CASE MintConfirmationToken(c)
  <2>1. Shape'
    BY <1>11
       DEF MintConfirmationToken, Shape, FreshConfirmations, Bindings, CallSteps,
           CallRecords
  <2>2. FreshConfirmations'
    BY <1>11, SMTT(30) DEF MintConfirmationToken, Shape, CallRecords, FreshConfirmations
  <2>3. OneHolder'
    BY <1>11, SMTT(30) DEF MintConfirmationToken, Shape, CallRecords, OneHolder, AsAgreed, Holds
  <2>4. Spent'
    BY <1>11
       DEF MintConfirmationToken, Shape, CallRecords, OneHolder, Spent, AsAgreed, Holds
  <2>5. TokensAboveFloor'
    BY <1>11 DEF MintConfirmationToken, Shape, CallRecords, TokensAboveFloor
  <2> QED BY <2>1, <2>2, <2>3, <2>4, <2>5, Zenon
<1>12. CASE storeConfirmationIntent(c)
  <2>1. Shape'
    BY <1>12
       DEF storeConfirmationIntent, Shape, FreshConfirmations, Bindings, CallSteps,
           CallRecords
  <2>2. FreshConfirmations'
    BY <1>12, SMTT(30) DEF storeConfirmationIntent, Shape, CallRecords, FreshConfirmations
  <2>3. OneHolder'
    BY <1>12, SMTT(30)
       DEF storeConfirmationIntent, Shape, CallRecords, FreshConfirmations, OneHolder,
           AsAgreed, Holds
  <2>4. Spent'
    BY <1>12
       DEF storeConfirmationIntent, Shape, CallRecords, FreshConfirmations, OneHolder,
           Spent, AsAgreed, Holds
  <2>5. TokensAboveFloor'
    BY <1>12, Zenon DEF storeConfirmationIntent, Shape, CallRecords, TokensAboveFloor
  <2> QED BY <2>1, <2>2, <2>3, <2>4, <2>5, Zenon
<1>13. CASE ValidateConfirmationTokenID(c)
  <2>1. Shape'
    BY <1>13
       DEF ValidateConfirmationTokenID, Shape, FreshConfirmations, Bindings, CallSteps,
           CallRecords
  <2>2. FreshConfirmations'
    BY <1>13 DEF ValidateConfirmationTokenID, Shape, CallRecords, FreshConfirmations
  <2>3. OneHolder'
    BY <1>13, SMTT(30)
       DEF ValidateConfirmationTokenID, Shape, CallRecords, OneHolder, AsAgreed, Holds
  <2>4. Spent'
    BY <1>13
       DEF ValidateConfirmationTokenID, Shape, CallRecords, OneHolder, Spent, AsAgreed,
           Holds
  <2>5. TokensAboveFloor'
    BY <1>13 DEF ValidateConfirmationTokenID, Shape, CallRecords, TokensAboveFloor
  <2> QED BY <2>1, <2>2, <2>3, <2>4, <2>5, Zenon
<1>14. CASE Dispatch(c)
  <2>1. Shape'
    BY <1>14, SMTT(30) DEF Dispatch, Shape, FreshConfirmations, Bindings, CallSteps, CallRecords
  <2>2. FreshConfirmations'
    BY <1>14 DEF Dispatch, Shape, CallRecords, FreshConfirmations
  <2>3. OneHolder'
    BY <1>14 DEF Dispatch, Shape, CallRecords, OneHolder, AsAgreed, Holds
  <2>4. Spent'
    <3> DEFINE b == Binding(c, call[c].id)
    <3>1. b.req = call[c].req /\ (call[c].req \in Confirmed => b = call[c].agreed
            /\ Holds(c))
      BY <1>14 DEF Dispatch, Shape, CallRecords, Bindings, OneHolder, AsAgreed, Holds
    <3>2. dispatched' = dispatched \cup {[by |-> c, of |-> b]}
      BY <1>14, Zenon DEF Dispatch
    <3>3. /\ UNCHANGED <<shown, intents, rejected>> /\ ~Holds(c)'
          /\ \A d \in Calls \ {c} : (Holds(d)' <=> Holds(d)) /\ call'[d] = call[d]
      BY <1>14 DEF Dispatch, Shape, CallRecords, Holds
    <3> HIDE DEF b
    <3> QED BY <3>1, <3>2, <3>3 DEF OneHolder, Spent, AsAgreed
  <2>5. TokensAboveFloor'
    BY <1>14, Zenon DEF Dispatch, Shape, CallRecords, TokensAboveFloor
  <2> QED BY <2>1, <2>2, <2>3, <2>4, <2>5, Zenon
<1>15. CASE RejectMethodConfirmation(c)
  <2>1. Shape'
    <3>1. CASE call' = [call EXCEPT ![c].at = "token", ![c].rev = record.rev]
      BY <1>15, <3>1, SMTT(30) DEF RejectMethodConfirmation, Shape, CallSteps, CallRecords
    <3>2. CASE \E x \in CallSteps : call' = [call EXCEPT ![c].at = x]
      BY <1>15, <3>2 DEF RejectMethodConfirmation, Shape, CallSteps, CallRecords
    <3>3. CASE call' = [call EXCEPT ![c] = [Idle EXCEPT !.at = "failed"]]
      BY <1>15, <3>3 DEF RejectMethodConfirmation, Shape, CallSteps, CallRecords
    <3> QED BY <1>15, <3>1, <3>2, <3>3, Zenon DEF RejectMethodConfirmation, CallSteps
  <2>2. FreshConfirmations'
    BY <1>15, SMTT(30) DEF RejectMethodConfirmation, Shape, CallRecords, FreshConfirmations
  <2>3. /\ shown' = shown /\ dispatched' = dispatched /\ intents' \subseteq intents
        /\ \A x \in rejected' \ rejected : \E i \in intents : i.id = x
    BY <1>15 DEF RejectMethodConfirmation
  <2>4. /\ ~Holds(c)'
        /\ \A d \in Calls \ {c} : (Holds(d)' <=> Holds(d)) /\ call'[d] = call[d]
    BY <1>15 DEF RejectMethodConfirmation, Shape, CallRecords, Holds
  <2>5. OneHolder'
    BY <2>3, <2>4 DEF FreshConfirmations, OneHolder, AsAgreed
  <2>6. Spent'
    BY <2>3, <2>4 DEF FreshConfirmations, Spent
  <2>7. TokensAboveFloor'
    BY <1>15, Zenon DEF RejectMethodConfirmation, Shape, CallRecords, TokensAboveFloor
  <2> QED BY <2>1, <2>2, <2>5, <2>6, <2>7, Zenon
<1> QED BY <1>1, <1>2, <1>3, <1>4, <1>5, <1>6, <1>7, <1>8, <1>9, <1>10, <1>11, <1>12,
           <1>13, <1>14, <1>15, Zenon DEF Step

\* The inductive invariant holds in every reachable state, for any number of requests,
\* confirmation IDs and revisions.
THEOREM ConfirmationInvariant == ConfirmationConstants /\ Spec => []ConfirmationInv
<1> SUFFICES ASSUME ConfirmationConstants PROVE Spec => []ConfirmationInv
  BY Zenon
<1>1. Init => ConfirmationInv
  BY DEF ConfirmationConstants, ConfirmationInv, Init, Idle, Shape, Bindings, CallSteps,
         CallRecords, FreshConfirmations, OneHolder, Spent, TokensAboveFloor, AsAgreed,
         Holds
<1>2. ASSUME ConfirmationInv, NEW c \in Calls,
             NEW op \in {"prepare", "call", "intent", "reject"},
             NEW req \in Requests \cup {Nil}, NEW id \in IDs \cup {Nil},
             Begin(c, op, req, id)
      PROVE ConfirmationInv'
  <2>1. Shape'
    BY <1>2, ZenonT(40) DEF ConfirmationInv, Begin, Idle, Silent, held, Shape, CallSteps, CallRecords
  <2>2. FreshConfirmations'
    BY <1>2
       DEF ConfirmationInv, Begin, Idle, Silent, held, Shape, CallRecords,
           FreshConfirmations
  <2>3. OneHolder'
    BY <1>2
       DEF ConfirmationInv, Begin, Idle, Silent, held, Shape, CallRecords, OneHolder,
           AsAgreed, Holds
  <2>4. Spent'
    BY <1>2
       DEF ConfirmationInv, Begin, Idle, Silent, held, Shape, CallRecords, Spent, Holds
  <2>5. TokensAboveFloor'
    BY <1>2, Zenon DEF ConfirmationInv, Begin, Silent, held, TokensAboveFloor
  <2> QED BY <2>1, <2>2, <2>3, <2>4, <2>5, Zenon DEF ConfirmationInv
<1>3. ASSUME ConfirmationInv,
             Change \/ RevokeTokens \/ deleteConfirmationIntentsForPlugin \/ Reopen
      PROVE  ConfirmationInv'
  BY <1>3
     DEF ConfirmationInv, Change, RevokeTokens, deleteConfirmationIntentsForPlugin,
         Reopen, Silent,
     Shape, FreshConfirmations, OneHolder, Spent, TokensAboveFloor, AsAgreed, Holds
<1>4. ASSUME ConfirmationInv, WorldChanges \/ \E id \in IDs : Lapse(id)
      PROVE  ConfirmationInv'
  BY <1>4
     DEF ConfirmationInv, WorldChanges, Lapse, Silent, Shape, FreshConfirmations,
         OneHolder, Spent, TokensAboveFloor, AsAgreed, Holds
<1>5. ASSUME ConfirmationInv, UNCHANGED vars PROVE ConfirmationInv'
  BY <1>5
     DEF ConfirmationInv, vars, Shape, FreshConfirmations, OneHolder, Spent,
         TokensAboveFloor, AsAgreed, Holds
<1>6. ConfirmationInv /\ [Next]_vars => ConfirmationInv'
  BY <1>2, <1>3, <1>4, <1>5, StepKeeps, Zenon DEF Next
<1> QED BY <1>1, <1>6, PTL DEF Spec

\* A call that requires a confirmation reaches its adapter only with what the user was
\* shown, one confirmation carries one call, and a rejected one carries none
\* (consumeMethodConfirmation, RejectMethodConfirmation).
THEOREM ConfirmedDispatch == ConfirmationConstants /\ Spec => []DispatchWasConfirmed
<1>1. ConfirmationInv => DispatchWasConfirmed
  BY Zenon DEF ConfirmationInv, Spent, DispatchWasConfirmed
<1> QED BY <1>1, ConfirmationInvariant, PTL

\* No call passes its last check under a confirmation of a revision whose tokens have
\* been revoked (ValidateConfirmationTokenID after RevokePlugin).
THEOREM ConfirmationUnrevoked == ConfirmationConstants /\ Spec => [][PassesUnrevoked]_vars
<1> USE DEF PassesUnrevoked, ConfirmationInv
<1>1. ASSUME ConfirmationInv, NEW d \in Calls, Step(d) PROVE PassesUnrevoked
  <2>1. CASE ValidateConfirmationTokenID(d)
    BY <1>1, <2>1, SMTT(30) DEF ValidateConfirmationTokenID, At, Goto, Fail, Idle, Binding,
       Shape, CallRecords, TokensAboveFloor
  <2>2. ASSUME ~ValidateConfirmationTokenID(d) PROVE call[d].at # "validate"
    BY <1>1, <2>2, Zenon DEF Step, At, resolveMethodCall, resolveIntentIdentity,
       ValidateSurfaceGatewayToken, authorizeDeclaredMethod, CallPluginMethod,
       InvokeIntent, PrepareMethodConfirmation, consumeConfirmationIntent,
       resolveMethodConfirmationTarget, prepareConfirmationPlan, MintConfirmationToken,
       storeConfirmationIntent, Dispatch, RejectMethodConfirmation
  <2>3. \A c \in Calls \ {d} : call'[c] = call[c]
    BY <1>1 DEF Step, Goto, Fail, resolveMethodCall, resolveIntentIdentity,
       ValidateSurfaceGatewayToken, authorizeDeclaredMethod, CallPluginMethod,
       InvokeIntent, PrepareMethodConfirmation, consumeConfirmationIntent,
       resolveMethodConfirmationTarget, prepareConfirmationPlan, MintConfirmationToken,
       storeConfirmationIntent, ValidateConfirmationTokenID, Dispatch,
       RejectMethodConfirmation, Shape
  <2> QED BY <2>1, <2>2, <2>3
<1>2. ASSUME ConfirmationInv, NEW d \in Calls, NEW op, NEW req, NEW id,
             Begin(d, op, req, id)
      PROVE PassesUnrevoked
  BY <1>2, Zenon DEF Begin, Idle, Shape, CallRecords
<1>3. ASSUME UNCHANGED call PROVE PassesUnrevoked
  BY <1>3, Zenon
<1>4. ConfirmationInv /\ [Next]_vars => PassesUnrevoked
  BY <1>1, <1>2, <1>3, ZenonT(40) DEF Next, vars, Change, RevokeTokens, Reopen,
     deleteConfirmationIntentsForPlugin, WorldChanges, Lapse
<1> QED BY <1>4, ConfirmationInvariant, PTL DEF Spec
=============================================================================
