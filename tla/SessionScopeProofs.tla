------------------------- MODULE SessionScopeProofs -------------------------
(***************************************************************************)
(* Proofs about SessionScopeCoordinator: gate pointers stay current, gate  *)
(* counters are exact, nothing is admitted past a fence, and the           *)
(* coordinator implements SessionFence, for any number of goroutines.      *)
(***************************************************************************)
EXTENDS SessionScopeCoordinator, FiniteSetTheorems, TLAPS

IInv == /\ TypeOK /\ GatePointersCurrent /\ GateCountsUsers
        /\ DrainedGateIsEmpty /\ NoAdmissionPastFence

\* Counting is zero exactly when nobody is there.
LEMMA UsersZero ==
  ASSUME NEW S
  PROVE  /\ Users(S) \in Nat
         /\ Users(S) = 0 <=> \A q \in Proc : pc[q] \notin S
<1> DEFINE A == {q \in Proc : pc[q] \in S}
<1>1. IsFiniteSet(A)
  BY ProcFinite, FS_Subset
<1>2. Cardinality(A) \in Nat /\ (Cardinality(A) = 0 <=> A = {})
  BY <1>1, FS_CardinalityType, FS_EmptySet
<1> QED BY <1>2 DEF Users

\* How one goroutine's move changes a count.
LEMMA UsersMove ==
  ASSUME NEW S, NEW p \in Proc, NEW x, pc \in [Proc -> PC],
         pc' = [pc EXCEPT ![p] = x]
  PROVE  /\ Users(S)' \in Nat
         /\ Users(S)' = 0 <=> \A q \in Proc : pc'[q] \notin S
         /\ pc[p] \in S /\ x \in S => Users(S)' = Users(S)
         /\ pc[p] \notin S /\ x \notin S => Users(S)' = Users(S)
         /\ pc[p] \in S /\ x \notin S => Users(S)' = Users(S) - 1
         /\ pc[p] \notin S /\ x \in S => Users(S)' = Users(S) + 1
<1> DEFINE A == {q \in Proc : pc[q] \in S}
           B == {q \in Proc : pc'[q] \in S}
<1>1. IsFiniteSet(A) /\ IsFiniteSet(B)
  BY ProcFinite, FS_Subset
<1>2. /\ Cardinality(A) \in Nat
      /\ Cardinality(B) \in Nat /\ (Cardinality(B) = 0 <=> B = {})
  BY <1>1, FS_CardinalityType, FS_EmptySet, Zenon
<1>3. Users(S) = Cardinality(A) /\ Users(S)' = Cardinality(B)
  BY Zenon DEF Users
<1>4. CASE (pc[p] \in S) = (x \in S)
  <2>1. A = B
    BY <1>4
  <2> QED BY <1>2, <1>3, <1>4, <2>1, ZenonT(40)
<1>5. CASE pc[p] \in S /\ x \notin S
  <2>1. B = A \ {p} /\ p \in A
    BY <1>5
  <2>2. Cardinality(B) = Cardinality(A) - 1
    <3> HIDE DEF A, B
    <3> QED BY <1>1, <2>1, FS_RemoveElement
  <2> QED BY <1>2, <1>3, <1>5, <2>2
<1>6. CASE pc[p] \notin S /\ x \in S
  <2>1. B = A \cup {p} /\ p \notin A
    BY <1>6
  <2>2. Cardinality(B) = Cardinality(A) + 1
    <3> HIDE DEF A, B
    <3> QED BY <1>1, <2>1, FS_AddElement
  <2> QED BY <1>2, <1>3, <1>6, <2>2
<1> QED BY <1>4, <1>5, <1>6

Delta(x, y, S) == IF x \in S THEN IF y \in S THEN 0 ELSE 0 - 1
                  ELSE IF y \in S THEN 1 ELSE 0

\* The two counts a gate keeps.
LEMMA CountsMove ==
  ASSUME NEW p \in Proc, NEW x, pc \in [Proc -> PC],
         pc' = [pc EXCEPT ![p] = x]
  PROVE  /\ Users(Admitted)' = Users(Admitted) + Delta(pc[p], x, Admitted)
         /\ Users(Waiting)' = Users(Waiting) + Delta(pc[p], x, Waiting)
<1>1. ASSUME NEW S PROVE Users(S)' = Users(S) + Delta(pc[p], x, S)
  <2>1. Users(S) \in Nat
    BY UsersZero, Zenon
  <2>2. CASE pc[p] \in S /\ x \in S
    <3>1. Users(S)' = Users(S)
      BY <2>2, UsersMove, ZenonT(40)
    <3> QED BY <2>1, <2>2, <3>1 DEF Delta
  <2>3. CASE pc[p] \in S /\ x \notin S
    <3>1. Users(S)' = Users(S) - 1
      BY <2>3, UsersMove, Zenon
    <3> QED BY <2>1, <2>3, <3>1 DEF Delta
  <2>4. CASE pc[p] \notin S /\ x \in S
    <3>1. Users(S)' = Users(S) + 1
      BY <2>4, UsersMove, ZenonT(40)
    <3> QED BY <2>1, <2>4, <3>1 DEF Delta
  <2>5. CASE pc[p] \notin S /\ x \notin S
    <3>1. Users(S)' = Users(S)
      BY <2>5, UsersMove, Zenon
    <3> QED BY <2>1, <2>5, <3>1 DEF Delta
  <2> QED BY <2>2, <2>3, <2>4, <2>5
<1> QED BY <1>1

-----------------------------------------------------------------------------
Outside == {"idle", "reserving", "acquiring"}

\* Where goroutines are, and what that says of the gate they use.
LEMMA Places ==
  ASSUME IInv
  PROVE  /\ \A q \in Proc : pc[q] \in Outside <=> my[q] = NoGate
         /\ \A q \in Proc : my[q] # NoGate => my[q] = gates /\ gates \in Gate
         /\ gates = NoGate => \A q \in Proc : pc[q] \in Outside
BY Zenon DEF IInv, TypeOK, GatePointersCurrent, GateCountsUsers, Outside

\* What gateLocked returns agrees with the goroutines at the gate.
LEMMA LockedGate ==
  ASSUME IInv, NEW g \in Gate, gateLocked(g)
  PROVE  /\ ActiveOf(g) = Users(Admitted)
         /\ WaitersOf(g) = Users(Waiting)
         /\ TeardownOf(g) <=> \E q \in Proc : pc[q] \in Owner
         /\ gates \in {g, NoGate}
<1>1. CASE gates = NoGate
  <2>1. \A q \in Proc :
          /\ pc[q] \notin Admitted
          /\ pc[q] \notin Waiting
          /\ pc[q] \notin Owner
    BY <1>1, Places DEF Outside, Admitted, Waiting, Owner, Drained
  <2>2. Users(Admitted) = 0 /\ Users(Waiting) = 0
    BY <2>1, UsersZero
  <2> QED BY <1>1, <2>1, <2>2 DEF ActiveOf, WaitersOf, TeardownOf
<1>2. CASE gates # NoGate
  BY <1>2, Zenon DEF IInv, GateCountsUsers, gateLocked, ActiveOf, WaitersOf, TeardownOf
<1> QED BY <1>1, <1>2

\* The gate a goroutine points to agrees with the goroutines at it.
LEMMA HeldGate ==
  ASSUME IInv, NEW p \in Proc, pc[p] \notin Outside
  PROVE  /\ my[p] \in Gate /\ gates = my[p]
         /\ active[my[p]] = Users(Admitted)
         /\ waiters[my[p]] = Users(Waiting)
         /\ teardown[my[p]] <=> \E q \in Proc : pc[q] \in Owner
BY Places DEF IInv, GateCountsUsers, TypeOK

\* A step of goroutine p to place x at gate g, after which the fields of the
\* gate agree with the goroutines again, keeps the invariant.
LEMMA Move ==
  ASSUME IInv, TypeOK',
         NEW p \in Proc, NEW g \in Gate, NEW x \in PC, NEW h \in {g, NoGate},
         Goto(p, x, h), h = NoGate <=> x \in Outside,
         gates \in {g, NoGate},
         active'[g] = Users(Admitted)',
         waiters'[g] = Users(Waiting)',
         teardown'[g] <=> \E q \in Proc : pc'[q] \in Owner,
         \A q, r \in Proc : pc'[q] \in Owner /\ pc'[r] \in Owner => q = r,
         gates' = IF active'[g] = 0 /\ ~teardown'[g] /\ waiters'[g] = 0
                    THEN NoGate ELSE g,
         DrainedGateIsEmpty', NoAdmissionPastFence'
  PROVE  IInv'
<1>1. \A q \in Proc :
        /\ pc'[q] = IF q = p THEN x ELSE pc[q]
        /\ my'[q] = IF q = p THEN h ELSE my[q]
  BY DEF Goto, IInv, TypeOK
<1>2. \A q \in Proc : pc'[q] \in PC /\ (my'[q] = NoGate <=> pc'[q] \in Outside)
  BY <1>1, Places DEF IInv, TypeOK
<1>3. \A q \in Proc : my'[q] \in {g, NoGate}
  BY <1>1, Places
<1>4. gates' = NoGate <=> \A q \in Proc : my'[q] = NoGate
  <2>1. \A q \in Proc : pc'[q] \in Outside <=>
          /\ pc'[q] \notin Admitted
          /\ pc'[q] \notin Waiting
          /\ pc'[q] \notin Owner
    BY <1>2 DEF PC, Outside, Admitted, Waiting, Owner, Drained
  <2>2. /\ Users(Admitted)' = 0 <=> \A q \in Proc : pc'[q] \notin Admitted
        /\ Users(Waiting)' = 0 <=> \A q \in Proc : pc'[q] \notin Waiting
    BY UsersMove, Zenon DEF Goto, IInv, TypeOK
  <2>3. gates' = NoGate <=> active'[g] = 0 /\ ~teardown'[g] /\ waiters'[g] = 0
    BY NoGateIsNoGate, Zenon
  <2> QED BY <1>2, <2>1, <2>2, <2>3, Zenon
<1>5. GatePointersCurrent'
  BY <1>2, <1>3, <1>4, NoGateIsNoGate, Zenon DEF GatePointersCurrent, Outside
<1>6. GateCountsUsers'
  BY <1>4, Zenon DEF GateCountsUsers
<1> QED BY <1>5, <1>6, Zenon DEF IInv

-----------------------------------------------------------------------------
\* Steps that leave every count as it is: p moves from place to place within
\* the same classes, and nothing but fenced, notified and fence may change.
LEMMA Stay ==
  ASSUME IInv, TypeOK', NEW p \in Proc, NEW x \in PC,
         Goto(p, x, my[p]),
         pc[p] \in Outside <=> x \in Outside,
         pc[p] \in Admitted <=> x \in Admitted,
         pc[p] \in Waiting <=> x \in Waiting,
         pc[p] \in Owner <=> x \in Owner,
         UNCHANGED <<gates, active, teardown, waiters>>,
         DrainedGateIsEmpty', NoAdmissionPastFence'
  PROVE  IInv'
<1>1. pc' = [pc EXCEPT ![p] = x] /\ pc \in [Proc -> PC] /\ my' = my
  BY Zenon DEF Goto, IInv, TypeOK
<1>2. Users(Admitted)' = Users(Admitted) /\ Users(Waiting)' = Users(Waiting)
  BY <1>1, UsersMove, Zenon
<1>3. \A q \in Proc :
        /\ pc'[q] \in Outside <=> pc[q] \in Outside
        /\ pc'[q] \in Owner <=> pc[q] \in Owner
  BY <1>1, Zenon
<1>4. GatePointersCurrent'
  BY <1>1, <1>3, Zenon DEF IInv, GatePointersCurrent, Outside
<1>5. GateCountsUsers'
  BY <1>1, <1>2, <1>3, Zenon DEF IInv, GateCountsUsers
<1> QED BY <1>4, <1>5, Zenon DEF IInv

USE DEF Outside, Admitted, Waiting, Owner, Drained, PC

\* Waking the waiters of a gate keeps the type of notified.
LEMMA SignalType ==
  ASSUME NEW g, NEW p, signalGateLocked(g, p) PROVE notified' \in [Proc -> BOOLEAN]
BY Zenon DEF signalGateLocked

\* Entering Reserve or a teardown, and being refused, touch no gate.
LEMMA CallStep ==
  ASSUME IInv, NEW p \in Proc,
         ReserveCall(p) \/ TeardownCall(p) \/ ReserveRefused(p)
  PROVE  IInv'
<1>1. PICK x \in {"idle", "reserving", "acquiring"} :
        /\ Goto(p, x, my[p])
        /\ pc[p] \in Outside
        /\ UNCHANGED <<notified, gateVars, fence>>
  BY Zenon DEF ReserveCall, TeardownCall, ReserveRefused, Goto, IInv, TypeOK, GatePointersCurrent
<1>2. TypeOK' /\ DrainedGateIsEmpty' /\ NoAdmissionPastFence'
  BY <1>1, Zenon DEF IInv, TypeOK, DrainedGateIsEmpty, NoAdmissionPastFence, Goto, gateVars
<1> QED BY <1>1, <1>2, Stay, Zenon DEF gateVars

\* A reservation is granted only while the store holds no fence.
LEMMA GrantStep ==
  ASSUME IInv, NEW p \in Proc, ReserveGranted(p)
  PROVE  IInv'
<1>1. TypeOK' /\ DrainedGateIsEmpty' /\ NoAdmissionPastFence'
  BY Zenon DEF ReserveGranted, IInv, TypeOK, DrainedGateIsEmpty, NoAdmissionPastFence, Goto, gateVars
<1> QED BY <1>1, Stay, Zenon DEF ReserveGranted, gateVars

\* The owner of a drained gate writes or deletes the fence, then marks the gate.
LEMMA OwnedStep ==
  ASSUME IInv, NEW p \in Proc,
         StoreBeginTeardown(p) \/ StoreFinalize(p) \/ markGateFenced(p)
  PROVE  IInv'
<1>1. PICK x \in Drained :
        /\ Goto(p, x, my[p])
        /\ pc[p] \in Drained
        /\ UNCHANGED <<gates, active, teardown, waiters>>
  BY Zenon DEF StoreBeginTeardown, StoreFinalize, markGateFenced, gateVars
<1>2. TypeOK'
  <2>1. notified' \in [Proc -> BOOLEAN]
    BY SignalType, Zenon DEF StoreBeginTeardown, StoreFinalize, markGateFenced, IInv, TypeOK
  <2> QED
    BY <1>1, <2>1, ZenonT(40) DEF StoreBeginTeardown, StoreFinalize, markGateFenced, IInv,
                      TypeOK, FenceState, Goto, gateVars
<1>3. \A q \in Proc : pc'[q] \notin Admitted
  BY <1>1, Zenon DEF IInv, DrainedGateIsEmpty, Goto, TypeOK
<1>4. DrainedGateIsEmpty' /\ NoAdmissionPastFence'
  BY <1>3, Zenon DEF DrainedGateIsEmpty, NoAdmissionPastFence
<1> QED BY <1>1, <1>2, <1>4, Stay, Zenon

\* The teardown handle settles the record while its gate is drained.
LEMMA MarkStep ==
  ASSUME IInv, NEW p \in Proc, MarkIncomplete(p) \/ MarkComplete(p)
  PROVE  IInv'
<1>1. Goto(p, "tearing", my[p]) /\ pc[p] = "tearing"
  BY Zenon DEF MarkIncomplete, MarkComplete, Goto, IInv, TypeOK
<1>2. TypeOK'
  BY Zenon DEF MarkIncomplete, MarkComplete, IInv, TypeOK, FenceState, gateVars
<1>3. \A q \in Proc : pc'[q] \notin Admitted
  BY <1>1, Zenon DEF IInv, DrainedGateIsEmpty, Goto, TypeOK
<1>4. DrainedGateIsEmpty' /\ NoAdmissionPastFence'
  BY <1>3, Zenon DEF DrainedGateIsEmpty, NoAdmissionPastFence
<1> QED BY <1>1, <1>2, <1>4, Stay DEF MarkIncomplete, MarkComplete, gateVars

-----------------------------------------------------------------------------
\* Reserve waits at, or enters, an open gate.
LEMMA ReserveGateStep ==
  ASSUME IInv, NEW p \in Proc, ReserveWait(p) \/ ReserveCount(p)
  PROVE  IInv'
<1>1. PICK g \in Gate, x \in {"reserveWait", "checking"} :
        /\ pc[p] = "reserving" /\ gateLocked(g) /\ Goto(p, x, g)
        /\ TeardownOf(g) <=> x = "reserveWait"
        /\ SetGate(g, IF x = "checking" THEN ActiveOf(g) + 1 ELSE ActiveOf(g),
                   TeardownOf(g), FencedOf(g),
                   IF x = "checking" THEN WaitersOf(g) ELSE WaitersOf(g) + 1)
        /\ notified' \in [Proc -> BOOLEAN] /\ UNCHANGED fence
  <2>1. CASE ReserveWait(p)
    <3>1. PICK g \in Gate :
            /\ gateLocked(g) /\ TeardownOf(g) /\ ~FencedOf(g)
            /\ SetGate(g, ActiveOf(g), TRUE, FALSE, WaitersOf(g) + 1)
            /\ StartWait(p, "reserveWait", g)
      BY <2>1, Zenon DEF ReserveWait
    <3>2. TeardownOf(g) = TRUE /\ FencedOf(g) = FALSE
      BY <3>1, Zenon DEF TeardownOf, FencedOf, IInv, TypeOK
    <3>3. notified' \in [Proc -> BOOLEAN]
      BY <3>1 DEF StartWait, IInv, TypeOK
    <3> WITNESS g \in Gate, "reserveWait" \in {"reserveWait", "checking"}
    <3> QED BY <2>1, <3>1, <3>2, <3>3, ZenonT(40) DEF ReserveWait, StartWait
  <2>2. CASE ReserveCount(p)
    <3>1. PICK g \in Gate :
            /\ gateLocked(g) /\ ~TeardownOf(g)
            /\ SetGate(g, ActiveOf(g) + 1, FALSE, FencedOf(g), WaitersOf(g))
            /\ Goto(p, "checking", g)
      BY <2>2, ZenonT(40) DEF ReserveCount
    <3>2. TeardownOf(g) = FALSE
      BY <3>1 DEF TeardownOf, IInv, TypeOK
    <3>3. notified' \in [Proc -> BOOLEAN]
      BY <2>2 DEF ReserveCount, IInv, TypeOK
    <3> WITNESS g \in Gate, "checking" \in {"reserveWait", "checking"}
    <3> QED BY <2>2, <3>1, <3>2, <3>3, ZenonT(40) DEF ReserveCount
  <2> QED BY <2>1, <2>2
<1>2. /\ ActiveOf(g) = Users(Admitted) /\ WaitersOf(g) = Users(Waiting)
      /\ TeardownOf(g) <=> \E q \in Proc : pc[q] \in Owner
      /\ gates \in {g, NoGate}
  BY <1>1, LockedGate
<1>3. /\ Users(Admitted) \in Nat /\ Users(Waiting) \in Nat
      /\ TeardownOf(g) \in BOOLEAN /\ FencedOf(g) \in BOOLEAN
  BY UsersZero DEF TeardownOf, FencedOf, IInv, TypeOK
<1>4. pc' = [pc EXCEPT ![p] = x] /\ pc \in [Proc -> PC]
  BY <1>1 DEF Goto, IInv, TypeOK
<1>5. /\ Users(Admitted)' = IF x = "checking" THEN ActiveOf(g) + 1 ELSE ActiveOf(g)
      /\ Users(Waiting)' = IF x = "checking" THEN WaitersOf(g) ELSE WaitersOf(g) + 1
  <2>1. /\ Delta(pc[p], x, Admitted) = IF x = "checking" THEN 1 ELSE 0
        /\ Delta(pc[p], x, Waiting) = IF x = "checking" THEN 0 ELSE 1
    BY <1>1 DEF Delta
  <2> HIDE DEF Admitted, Waiting
  <2>2. /\ Users(Admitted)' = Users(Admitted) + Delta(pc[p], x, Admitted)
        /\ Users(Waiting)' = Users(Waiting) + Delta(pc[p], x, Waiting)
    BY <1>4, CountsMove, ZenonT(40)
  <2> QED BY <1>2, <1>3, <2>1, <2>2
<1>6. \A q \in Proc : pc'[q] \in Owner <=> pc[q] \in Owner
  BY <1>1, <1>4
<1>7. TypeOK'
  BY <1>1, <1>2, <1>3, SMTT(30) DEF IInv, TypeOK, SetGate, Goto
<1>8. /\ active'[g] = Users(Admitted)' /\ waiters'[g] = Users(Waiting)'
      /\ teardown'[g] = TeardownOf(g) /\ gates' = g
  BY <1>1, <1>5, Zenon DEF SetGate, IInv, TypeOK
<1>9. ~(active'[g] = 0 /\ ~teardown'[g] /\ waiters'[g] = 0)
  BY <1>1, <1>2, <1>3, <1>5, <1>8, SMTT(30)
<1>10. \A q, r \in Proc : pc[q] \in Owner /\ pc[r] \in Owner => q = r
  BY Places DEF IInv, GateCountsUsers
<1>11. DrainedGateIsEmpty' /\ NoAdmissionPastFence'
  BY <1>1, <1>2, <1>4 DEF IInv, DrainedGateIsEmpty, NoAdmissionPastFence
<1> QED BY <1>1, <1>2, <1>6, <1>7, <1>8, <1>9, <1>10, <1>11, NoGateIsNoGate, Move, SMTT(30)

\* acquireTeardown waits for another owner, or becomes the owner.
LEMMA AcquireGateStep ==
  ASSUME IInv, NEW p \in Proc, AcquireWait(p) \/ AcquireTeardown(p)
  PROVE  IInv'
<1>1. PICK g \in Gate, x \in {"acquireWait", "owned", "drainWait"} :
        /\ pc[p] = "acquiring" /\ gateLocked(g) /\ Goto(p, x, g)
        /\ TeardownOf(g) <=> x = "acquireWait"
        /\ x = "owned" => ActiveOf(g) = 0
        /\ SetGate(g, ActiveOf(g), TRUE, FencedOf(g),
                   IF x = "owned" THEN WaitersOf(g) ELSE WaitersOf(g) + 1)
        /\ notified' \in [Proc -> BOOLEAN] /\ UNCHANGED fence
  <2>1. notified' \in [Proc -> BOOLEAN]
    BY ZenonT(40) DEF AcquireWait, AcquireTeardown, StartWait, IInv, TypeOK
  <2>2. CASE AcquireWait(p)
    <3>1. PICK g \in Gate :
            /\ gateLocked(g) /\ TeardownOf(g)
            /\ SetGate(g, ActiveOf(g), TRUE, FencedOf(g), WaitersOf(g) + 1)
            /\ StartWait(p, "acquireWait", g)
      BY <2>2, ZenonT(40) DEF AcquireWait
    <3> WITNESS g \in Gate, "acquireWait" \in {"acquireWait", "owned", "drainWait"}
    <3> QED BY <2>1, <2>2, <3>1, ZenonT(40) DEF AcquireWait, StartWait
  <2>3. CASE AcquireTeardown(p)
    <3>1. PICK g \in Gate :
            /\ gateLocked(g) /\ ~TeardownOf(g)
            /\ \/ /\ ActiveOf(g) = 0
                  /\ SetGate(g, 0, TRUE, FencedOf(g), WaitersOf(g))
                  /\ Goto(p, "owned", g)
               \/ /\ SetGate(g, ActiveOf(g), TRUE, FencedOf(g), WaitersOf(g) + 1)
                  /\ StartWait(p, "drainWait", g)
      BY <2>3, ZenonT(40) DEF AcquireTeardown
    <3>2. CASE ActiveOf(g) = 0 /\ SetGate(g, 0, TRUE, FencedOf(g), WaitersOf(g))
               /\ Goto(p, "owned", g)
      <4> WITNESS g \in Gate, "owned" \in {"acquireWait", "owned", "drainWait"}
      <4> QED BY <2>1, <2>3, <3>1, <3>2, ZenonT(40) DEF AcquireTeardown
    <3>3. CASE SetGate(g, ActiveOf(g), TRUE, FencedOf(g), WaitersOf(g) + 1)
               /\ StartWait(p, "drainWait", g)
      <4> WITNESS g \in Gate, "drainWait" \in {"acquireWait", "owned", "drainWait"}
      <4> QED BY <2>1, <2>3, <3>1, <3>3, ZenonT(40) DEF AcquireTeardown, StartWait
    <3> QED BY <3>1, <3>2, <3>3, ZenonT(40)
  <2> QED BY <2>2, <2>3, ZenonT(40)
<1>2. /\ ActiveOf(g) = Users(Admitted) /\ WaitersOf(g) = Users(Waiting)
      /\ TeardownOf(g) <=> \E q \in Proc : pc[q] \in Owner
      /\ gates \in {g, NoGate}
  BY <1>1, LockedGate
<1>3. /\ Users(Admitted) \in Nat /\ Users(Waiting) \in Nat
      /\ FencedOf(g) \in BOOLEAN
  BY UsersZero DEF FencedOf, IInv, TypeOK
<1>4. pc' = [pc EXCEPT ![p] = x] /\ pc \in [Proc -> PC]
  BY <1>1 DEF Goto, IInv, TypeOK
<1>5. /\ Users(Admitted)' = ActiveOf(g)
      /\ Users(Waiting)' = IF x = "owned" THEN WaitersOf(g) ELSE WaitersOf(g) + 1
  <2>1. /\ Delta(pc[p], x, Admitted) = 0
        /\ Delta(pc[p], x, Waiting) = IF x = "owned" THEN 0 ELSE 1
    BY <1>1 DEF Delta
  <2> HIDE DEF Admitted, Waiting
  <2>2. /\ Users(Admitted)' = Users(Admitted) + Delta(pc[p], x, Admitted)
        /\ Users(Waiting)' = Users(Waiting) + Delta(pc[p], x, Waiting)
    BY <1>4, CountsMove, ZenonT(40)
  <2> QED BY <1>2, <1>3, <2>1, <2>2
<1>6. /\ \E q \in Proc : pc'[q] \in Owner
      /\ \A q, r \in Proc : pc'[q] \in Owner /\ pc'[r] \in Owner => q = r
  <2>1. \A q, r \in Proc : pc[q] \in Owner /\ pc[r] \in Owner => q = r
    BY Places DEF IInv, GateCountsUsers
  <2> QED BY <1>1, <1>2, <1>4, <2>1, SMTT(30)
<1>7. TypeOK'
  BY <1>1, <1>2, <1>3 DEF IInv, TypeOK, SetGate, Goto
<1>8. /\ active'[g] = Users(Admitted)' /\ waiters'[g] = Users(Waiting)'
      /\ teardown'[g] = TRUE /\ gates' = g
  BY <1>1, <1>5 DEF SetGate, IInv, TypeOK
<1>9. DrainedGateIsEmpty' /\ NoAdmissionPastFence'
  <2>1. x = "owned" => \A q \in Proc : pc[q] \notin Admitted
    BY <1>1, <1>2, UsersZero, ZenonT(40)
  <2> QED BY <1>1, <1>4, <2>1 DEF IInv, DrainedGateIsEmpty, NoAdmissionPastFence
<1> QED BY <1>1, <1>2, <1>6, <1>7, <1>8, <1>9, NoGateIsNoGate, Move, ZenonT(40)


-----------------------------------------------------------------------------
\* A goroutine leaves the gate: what it counted for is given back, the gate
\* keeps its teardown exactly when another goroutine owns it, and the last
\* one out drops the gate.
LEMMA Exit ==
  ASSUME IInv, NEW p \in Proc, pc[p] \notin Outside,
         NEW x \in Outside, Goto(p, x, NoGate), NEW t \in BOOLEAN,
         t <=> \E q \in Proc : q # p /\ pc[q] \in Owner,
         SetAndCleanup(my[p],
                       IF pc[p] \in Admitted THEN active[my[p]] - 1 ELSE active[my[p]], t,
                       IF pc[p] \in Waiting THEN waiters[my[p]] - 1 ELSE waiters[my[p]]),
         notified' \in [Proc -> BOOLEAN], UNCHANGED fence
  PROVE  IInv'
<1> DEFINE g == my[p]
<1>1. g \in Gate /\ gates = g /\ active[g] = Users(Admitted) /\ waiters[g] = Users(Waiting)
  BY HeldGate
<1>2. pc' = [pc EXCEPT ![p] = x] /\ pc \in [Proc -> PC]
  BY DEF Goto, IInv, TypeOK
<1>3. /\ Users(Admitted)' = IF pc[p] \in Admitted THEN active[g] - 1 ELSE active[g]
      /\ Users(Waiting)' = IF pc[p] \in Waiting THEN waiters[g] - 1 ELSE waiters[g]
      /\ Users(Admitted)' \in Nat /\ Users(Waiting)' \in Nat
  <2>1. x \notin Admitted /\ x \notin Waiting
    OBVIOUS
  <2> HIDE DEF Admitted, Waiting, Owner, Drained, PC, Outside
  <2> QED BY <1>1, <1>2, <2>1, UsersMove, ZenonT(40)
<1>4. /\ active'[g] = Users(Admitted)' /\ waiters'[g] = Users(Waiting)'
      /\ teardown'[g] = t
      /\ gates' = IF active'[g] = 0 /\ ~teardown'[g] /\ waiters'[g] = 0 THEN NoGate ELSE g
  BY <1>1, <1>3, SMTT(30) DEF SetAndCleanup, IInv, TypeOK
<1>5. TypeOK'
  BY <1>1, <1>2, <1>3, SMTT(30) DEF SetAndCleanup, IInv, TypeOK, Goto
<1>6. t <=> \E q \in Proc : pc'[q] \in Owner
  BY <1>2, ZenonT(40)
<1>7. \A q, r \in Proc : pc'[q] \in Owner /\ pc'[r] \in Owner => q = r
  <2>1. \A q, r \in Proc : pc[q] \in Owner /\ pc[r] \in Owner => q = r
    BY Places, SMTT(30) DEF IInv, GateCountsUsers
  <2> QED BY <1>2, <2>1, SMTT(30)
<1>8. DrainedGateIsEmpty' /\ NoAdmissionPastFence'
  BY <1>2, SMTT(30) DEF IInv, DrainedGateIsEmpty, NoAdmissionPastFence
<1>9. x \in PC
  BY Zenon
<1> QED BY <1>1, <1>4, <1>5, <1>6, <1>7, <1>8, <1>9, Move, ZenonT(40)

\* The waits of Reserve and acquireTeardown end.
LEMMA WakeStep ==
  ASSUME IInv, NEW p \in Proc, ReserveWake(p) \/ AcquireWake(p)
  PROVE  IInv'
<1>1. PICK x \in Outside : Goto(p, x, NoGate)
  BY DEF ReserveWake, AcquireWake, WaitEnds
<1>2. /\ pc[p] \in {"reserveWait", "acquireWait"}
      /\ SetAndCleanup(my[p], active[my[p]], teardown[my[p]], waiters[my[p]] - 1)
      /\ UNCHANGED <<notified, fence>>
  BY DEF ReserveWake, AcquireWake, WaitEnds
<1>3. teardown[my[p]] \in BOOLEAN /\ notified' \in [Proc -> BOOLEAN]
  BY <1>2, HeldGate, ZenonT(40) DEF IInv, TypeOK
<1>4. teardown[my[p]] <=> \E q \in Proc : q # p /\ pc[q] \in Owner
  BY <1>2, HeldGate, ZenonT(40)
<1> QED BY <1>1, <1>2, <1>3, <1>4, Exit, SMTT(30)

\* A reservation is given back, by Reserve itself or by its holder.
LEMMA ReleaseStep ==
  ASSUME IInv, NEW p \in Proc, ReserveDenied(p) \/ ReservationRelease(p)
  PROVE  IInv'
<1>1. pc[p] \in Admitted /\ releaseReservation(p) /\ UNCHANGED fence
  BY Zenon DEF ReserveDenied, ReservationRelease
<1>2. active[my[p]] > 0 /\ gates = my[p]
  BY <1>1, HeldGate, UsersZero, SMTT(30)
<1>3. /\ SetAndCleanup(my[p], active[my[p]] - 1, teardown[my[p]], waiters[my[p]])
      /\ signalGateLocked(my[p], p) /\ Goto(p, "idle", NoGate)
  BY <1>1, <1>2, Zenon DEF releaseReservation
<1>4. teardown[my[p]] \in BOOLEAN /\ notified' \in [Proc -> BOOLEAN]
  BY <1>1, <1>3, HeldGate, SignalType, ZenonT(40) DEF IInv, TypeOK
<1>5. teardown[my[p]] <=> \E q \in Proc : q # p /\ pc[q] \in Owner
  BY <1>1, HeldGate, ZenonT(40)
<1> QED BY <1>1, <1>3, <1>4, <1>5, Exit

\* The owner opens the gate again.
LEMMA TeardownReleaseStep ==
  ASSUME IInv, NEW p \in Proc,
         StoreFails(p) \/ TeardownRelease(p) \/ FinalizeReturns(p) \/ DrainCanceled(p)
  PROVE  IInv'
<1>1. pc[p] \in Drained \cup {"drainWait"} /\ UNCHANGED fence
  BY Zenon DEF StoreFails, TeardownRelease, FinalizeReturns, DrainCanceled
<1>2. gates = my[p] /\ teardown[my[p]]
  BY <1>1, HeldGate
<1>3. /\ SetAndCleanup(my[p], active[my[p]], FALSE,
                       IF pc[p] \in Waiting THEN waiters[my[p]] - 1 ELSE waiters[my[p]])
      /\ signalGateLocked(my[p], p) /\ Goto(p, "idle", NoGate)
  BY <1>1, <1>2, ZenonT(40) DEF StoreFails, TeardownRelease, FinalizeReturns, DrainCanceled, releaseTeardown
<1>4. notified' \in [Proc -> BOOLEAN]
  BY <1>3, SignalType, ZenonT(40)
<1>5. ~ \E q \in Proc : q # p /\ pc[q] \in Owner
  BY <1>1, Places DEF IInv, GateCountsUsers
<1> QED BY <1>1, <1>3, <1>4, <1>5, Exit, ZenonT(40)

\* The owner goes round the loop of acquireTeardown while it drains.
LEMMA DrainStep ==
  ASSUME IInv, NEW p \in Proc, DrainWake(p) \/ DrainAgain(p)
  PROVE  IInv'
<1> DEFINE g == my[p]
<1>1. PICK x \in {"draining", "drainWait", "owned"} :
        /\ Goto(p, x, g) /\ pc[p] \in {"draining", "drainWait"}
        /\ pc[p] = "drainWait" <=> x = "draining"
        /\ x = "owned" => active[g] = 0
        /\ waiters' = [waiters EXCEPT ![g] = IF x = "draining" THEN @ - 1
                                             ELSE IF x = "drainWait" THEN @ + 1 ELSE @]
        /\ UNCHANGED <<gates, active, teardown, fenced, fence>>
  <2>1. CASE DrainWake(p)
    BY <2>1 DEF DrainWake
  <2>2. CASE DrainAgain(p) /\ active[g] = 0
    BY <2>2, ZenonT(40) DEF DrainAgain, IInv, TypeOK
  <2>3. CASE DrainAgain(p) /\ active[g] # 0
    BY <2>3 DEF DrainAgain, StartWait
  <2> QED BY <2>1, <2>2, <2>3, ZenonT(40)
<1>2. notified' \in [Proc -> BOOLEAN]
  BY ZenonT(40) DEF DrainWake, DrainAgain, StartWait, IInv, TypeOK
<1>3. /\ g \in Gate /\ gates = g /\ active[g] = Users(Admitted)
      /\ waiters[g] = Users(Waiting) /\ teardown[g]
  BY <1>1, HeldGate, ZenonT(40)
<1>4. pc' = [pc EXCEPT ![p] = x] /\ pc \in [Proc -> PC]
  BY <1>1 DEF Goto, IInv, TypeOK
<1>5. /\ Users(Admitted)' = active[g]
      /\ Users(Waiting)' = IF x = "draining" THEN waiters[g] - 1
                           ELSE IF x = "drainWait" THEN waiters[g] + 1 ELSE waiters[g]
      /\ Users(Admitted)' \in Nat /\ Users(Waiting)' \in Nat
  <2>1. /\ pc[p] \notin Admitted /\ x \notin Admitted
        /\ pc[p] \in Waiting <=> x = "draining"
        /\ x \in Waiting <=> x = "drainWait"
    BY <1>1, ZenonT(40)
  <2> HIDE DEF Admitted, Waiting, Owner, Drained, PC, Outside
  <2> QED BY <1>3, <1>4, <2>1, UsersMove, ZenonT(40)
<1>6. active'[g] = Users(Admitted)' /\ waiters'[g] = Users(Waiting)' /\ teardown'[g] /\ gates' = g
  BY <1>1, <1>3, <1>5 DEF IInv, TypeOK
<1>7. TypeOK'
  BY <1>1, <1>2, <1>3, <1>5, ZenonT(40) DEF IInv, TypeOK, Goto
<1>8. /\ \E q \in Proc : pc'[q] \in Owner
      /\ \A q, r \in Proc : pc'[q] \in Owner /\ pc'[r] \in Owner => q = r
  <2>1. \A q, r \in Proc : pc[q] \in Owner /\ pc[r] \in Owner => q = r
    BY Places, ZenonT(40) DEF IInv, GateCountsUsers
  <2> QED BY <1>1, <1>4, <2>1, SMTT(30)
<1>9. DrainedGateIsEmpty' /\ NoAdmissionPastFence'
  <2>1. x = "owned" => \A q \in Proc : pc[q] \notin Admitted
    BY <1>1, <1>3, UsersZero, ZenonT(40)
  <2> QED BY <1>1, <1>4, <2>1, SMTT(30) DEF IInv, DrainedGateIsEmpty, NoAdmissionPastFence
<1>10. x \in PC /\ x \notin Outside
  BY <1>1, ZenonT(40)
<1> QED BY <1>1, <1>3, <1>6, <1>7, <1>8, <1>9, <1>10, NoGateIsNoGate, Move, ZenonT(40)


\* A crash forgets every gate and every goroutine, and keeps the fence.
LEMMA CrashStep ==
  ASSUME IInv, Crash PROVE IInv'
<1>1. TypeOK'
  BY DEF IInv, TypeOK, Crash
<1> QED BY <1>1 DEF Crash, IInv, GatePointersCurrent, GateCountsUsers,
                    DrainedGateIsEmpty, NoAdmissionPastFence

-----------------------------------------------------------------------------
\* Every reachable state satisfies the invariant: gate pointers are current,
\* the fields of scopeGate count their users, drained gates are empty and
\* nothing is admitted past a fence.
THEOREM ScopeInvariant == Spec => []IInv
<1>1. Init => IInv
  <2> SUFFICES ASSUME Init PROVE IInv
    OBVIOUS
  <2>1. TypeOK
    BY DEF Init, TypeOK, FenceState
  <2> QED BY <2>1, ZenonT(40) DEF Init, IInv, GatePointersCurrent, GateCountsUsers,
                      DrainedGateIsEmpty, NoAdmissionPastFence
<1>2. IInv /\ [Next]_vars => IInv'
  <2> SUFFICES ASSUME IInv, [Next]_vars PROVE IInv'
    BY SMTT(30)
  <2>1. CASE UNCHANGED vars
    <3> HIDE DEF Outside, Admitted, Waiting, Owner, Drained, PC
    <3> QED BY <2>1 DEF vars, IInv, TypeOK, GatePointersCurrent, GateCountsUsers,
                        DrainedGateIsEmpty, NoAdmissionPastFence, Users
  <2>2. CASE Crash
    BY <2>2, CrashStep, ZenonT(40)
  <2>3. ASSUME NEW p \in Proc, Step(p) PROVE IInv'
    <3>1. CASE ReserveCall(p) \/ TeardownCall(p) \/ ReserveRefused(p)
      BY <3>1, CallStep
    <3>2. CASE ReserveWait(p) \/ ReserveCount(p)
      BY <3>2, ReserveGateStep
    <3>3. CASE ReserveGranted(p)
      BY <3>3, GrantStep, ZenonT(40)
    <3>4. CASE ReserveDenied(p) \/ ReservationRelease(p)
      BY <3>4, ReleaseStep, Zenon
    <3>5. CASE ReserveWake(p) \/ AcquireWake(p)
      BY <3>5, WakeStep, Zenon
    <3>6. CASE AcquireWait(p) \/ AcquireTeardown(p)
      BY <3>6, AcquireGateStep, Zenon
    <3>7. CASE DrainWake(p) \/ DrainAgain(p)
      BY <3>7, DrainStep, Zenon
    <3>8. CASE StoreBeginTeardown(p) \/ StoreFinalize(p) \/ markGateFenced(p)
      BY <3>8, OwnedStep, Zenon
    <3>9. CASE MarkIncomplete(p) \/ MarkComplete(p)
      BY <3>9, MarkStep, Zenon
    <3>10. CASE StoreFails(p) \/ TeardownRelease(p) \/ FinalizeReturns(p) \/ DrainCanceled(p)
      BY <3>10, TeardownReleaseStep
    <3> QED BY <2>3, <3>1, <3>2, <3>3, <3>4, <3>5, <3>6, <3>7, <3>8, <3>9, <3>10, ZenonT(40)
            DEF Step, ReserveStep, TeardownStep, Wake
  <2> QED BY <2>1, <2>2, <2>3 DEF Next
<1> QED BY <1>1, <1>2, PTL DEF Spec

\* Nothing is admitted past a fence (Coordinator.Reserve against
\* Coordinator.BeginTeardown), for any number of goroutines and restarts.
THEOREM NothingPastFence == Spec => []NoAdmissionPastFence
BY ScopeInvariant, PTL DEF IInv

\* The counters of scopeGate are exact and an unused gate is dropped.
THEOREM GateCounts == Spec => [](GateCountsUsers /\ GatePointersCurrent /\ DrainedGateIsEmpty)
BY ScopeInvariant, PTL DEF IInv

\* The fence record only moves the way the teardown protocol allows.
THEOREM FenceMoves == Spec => FenceProgress
<1>1. IInv /\ [Next]_vars =>
        [/\ fence # "none" /\ fence' = "none" => fence = "complete"
         /\ fence # "complete" /\ fence' = "complete" => fence = "draining"
         /\ fence = "complete" => fence' \in {"complete", "none"}]_fence
  BY ZenonT(40) DEF Next, Crash, Step, ReserveStep, TeardownStep, Wake, ReserveCall, TeardownCall,
         ReserveRefused, ReserveWait, ReserveCount, ReserveGranted, ReserveDenied,
         ReservationRelease, ReserveWake, AcquireWake, WaitEnds, AcquireWait,
         AcquireTeardown, DrainWake, DrainAgain, DrainCanceled, StoreBeginTeardown,
         StoreFinalize, StoreFails, markGateFenced, MarkIncomplete, MarkComplete,
         TeardownRelease, FinalizeReturns, vars
<1> QED BY <1>1, ScopeInvariant, PTL DEF Spec, FenceProgress

-----------------------------------------------------------------------------
holders == {p \in Proc : pc[p] = "holding"}

\* Steps that keep the fence and move p between places other than holding
\* are invisible to the abstract fence.
LEMMA Invisible ==
  ASSUME IInv, NEW p \in Proc, NEW x, pc' = [pc EXCEPT ![p] = x],
         pc[p] = "holding" <=> x = "holding"
  PROVE  holders' = holders
BY Zenon DEF holders, IInv, TypeOK

\* The coordinator, its gates, waits and restarts implement SessionFence.
THEOREM CoordinatorImplementsFence == Spec => ImplementsFence
<1>1. Init => Abstract!Init
  BY Zenon DEF Init, Abstract!Init
<1>2. IInv /\ [Next]_vars => [Abstract!Next]_(Abstract!vars)
  <2> SUFFICES ASSUME IInv, [Next]_vars, ~ UNCHANGED <<fence, holders>>
               PROVE  Abstract!Next
    BY Zenon DEF Abstract!vars, holders
  <2> USE DEF Abstract!Next
  <2>1. CASE UNCHANGED vars
    BY <2>1, Zenon DEF vars, holders
  <2>2. CASE Crash
    <3>1. Abstract!Restart
      BY <2>2, Zenon DEF Crash, Abstract!Restart
    <3> QED BY <3>1, Zenon
  <2>3. ASSUME NEW p \in Proc, Step(p) PROVE Abstract!Next
    <3>1. CASE ReserveGranted(p)
      <4>1. Abstract!Admit(p)
        BY <3>1, Zenon DEF ReserveGranted, Goto, IInv, TypeOK, Abstract!Admit
      <4> QED BY <4>1, Zenon
    <3>2. CASE ReservationRelease(p)
      <4>1. Abstract!Leave(p)
        BY <3>2 DEF ReservationRelease, releaseReservation, Goto, IInv, TypeOK, Abstract!Leave
      <4> QED BY <4>1, Zenon
    <3>3. CASE StoreBeginTeardown(p)
      <4>1. holders = {} /\ holders' = {}
        BY <3>3 DEF StoreBeginTeardown, holders, Goto, IInv, TypeOK, DrainedGateIsEmpty
      <4>2. Abstract!Raise
        BY <3>3, <4>1 DEF StoreBeginTeardown, holders, Abstract!Raise
      <4> QED BY <4>2, ZenonT(40)
    <3>4. CASE StoreFinalize(p)
      <4>1. holders = {} /\ holders' = {}
        BY <3>4 DEF StoreFinalize, holders, Goto, IInv, TypeOK, DrainedGateIsEmpty
      <4>2. Abstract!Finalize
        BY <3>4, <4>1 DEF StoreFinalize, holders, Abstract!Finalize
      <4> QED BY <4>2
    <3>5. CASE MarkIncomplete(p)
      <4>1. Abstract!MarkIncomplete
        BY <3>5 DEF MarkIncomplete, Abstract!MarkIncomplete
      <4> QED BY <4>1
    <3>6. CASE MarkComplete(p)
      <4>1. Abstract!MarkComplete
        BY <3>6 DEF MarkComplete, Abstract!MarkComplete, holders
      <4> QED BY <4>1
    <3>7. CASE /\ UNCHANGED fence
               /\ \E x \in PC, g \in Gate \cup {NoGate} :
                    pc[p] # "holding" /\ x # "holding" /\ Goto(p, x, g)
      BY <3>7, Invisible, ZenonT(40) DEF Goto
    <3>8. CASE \/ ReserveCall(p) \/ TeardownCall(p) \/ ReserveRefused(p) \/ ReserveWait(p)
               \/ ReserveCount(p) \/ ReserveDenied(p) \/ Wake(p) \/ AcquireWait(p)
               \/ AcquireTeardown(p) \/ DrainAgain(p) \/ StoreFails(p) \/ markGateFenced(p)
               \/ TeardownRelease(p) \/ FinalizeReturns(p)
      <4>1. my[p] \in Gate \cup {NoGate}
        BY Zenon DEF IInv, TypeOK
      <4> QED
        BY <3>7, <3>8, <4>1, ZenonT(40)
           DEF Wake, ReserveCall, TeardownCall, ReserveRefused, ReserveWait, ReserveCount,
               ReserveDenied, releaseReservation, ReserveWake, AcquireWake, WaitEnds,
               AcquireWait, AcquireTeardown, DrainWake, DrainAgain, DrainCanceled,
               StoreFails, releaseTeardown, markGateFenced, TeardownRelease,
               FinalizeReturns, StartWait
    <3> QED BY <2>3, <3>1, <3>2, <3>3, <3>4, <3>5, <3>6, <3>8, ZenonT(40)
            DEF Step, ReserveStep, TeardownStep
  <2> QED BY <2>1, <2>2, <2>3, Zenon DEF Next
<1> QED BY <1>1, <1>2, ScopeInvariant, PTL DEF Spec, ImplementsFence, Abstract!Spec
=============================================================================
