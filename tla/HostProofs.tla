----------------------------- MODULE HostProofs -----------------------------
(***************************************************************************)
(* Proofs about two parts of the Host, for every value of their constants. *)
(* PluginLifecycleLock: the entries count exactly the granted requests,    *)
(* granted requests never conflict, no wakeup is lost and no request       *)
(* overtakes a queued writer.  BackgroundManager (here B): a Stop always   *)
(* finds a running invocation, one Start is in the runner at a time, and   *)
(* Shutdown forgets every session.                                         *)
(***************************************************************************)
EXTENDS PluginLifecycleLock, Integers, FiniteSetTheorems, TLAPS

\* The conjuncts of the inductive invariant, as predicates of the values
\* dispatchLocked is called with.
Readers(gr, k) == {c \in Client : gr[c] /\ ~write[c] /\ k \in keys[c]}

Matches(gr, rd, wr) ==
  \A k \in Key :
    /\ rd[k] = Cardinality(Readers(gr, k))
    /\ wr[k] <=> \E c \in Client : gr[c] /\ write[c] /\ k \in keys[c]

Exclusive(gr) == \A c, d \in Client : c # d /\ gr[c] /\ gr[d] => ~Conflict(c, d)

Blocked(q, ah, gr) ==
  \A c \in q : \/ \E d \in Client : gr[d] /\ Conflict(c, d)
               \/ \E d \in ah[c] : write[d] /\ Overlap(c, d)

IInv == /\ TypeOK /\ NoOrphan /\ Ordered(waiters, ahead)
        /\ EntriesMatchGrants /\ MutualExclusion /\ NoLostWakeup

-----------------------------------------------------------------------------
\* A scan of dispatchLocked started from entries that match the granted
\* requests keeps them matching, keeps grants exclusive and the queue in
\* order, and leaves nobody waiting without a reason.
LEMMA DispatchCorrect ==
  ASSUME TypeOK,
         NEW q \in SUBSET Client, NEW ah \in [Client -> SUBSET Client],
         NEW rd \in [Key -> Nat], NEW wr \in [Key -> BOOLEAN],
         NEW gr \in [Client -> BOOLEAN],
         \A c \in q : ~gr[c],
         Ordered(q, ah), Matches(gr, rd, wr), Exclusive(gr),
         dispatchLocked(q, ah, rd, wr, gr)
  PROVE  /\ granted' \in [Client -> BOOLEAN]
         /\ waiters' \in SUBSET Client
         /\ ahead' \in [Client -> SUBSET Client]
         /\ readers' \in [Key -> Nat]
         /\ writer' \in [Key -> BOOLEAN]
         /\ waiters' = {c \in q : ~granted'[c]}
         /\ \A c \in Client : granted'[c] <=> gr[c] \/ c \in q \ waiters'
         /\ Ordered(waiters', ahead')
         /\ Matches(granted', readers', writer')
         /\ Exclusive(granted')
         /\ Blocked(waiters', ahead', granted')
<1>1. PICK G \in SUBSET q :
        /\ Grants(G, q, ah, rd, wr)
        /\ granted' = [c \in Client |-> gr[c] \/ c \in G]
        /\ waiters' = q \ G
        /\ ahead' = [c \in Client |-> IF c \in q \ G THEN ah[c] \ G ELSE {}]
        /\ readers' = [k \in Key |->
             rd[k] + Cardinality({c \in G : k \in keys[c] /\ ~write[c]})]
        /\ writer' = [k \in Key |->
             wr[k] \/ \E c \in G : k \in keys[c] /\ write[c]]
  BY Zenon DEF dispatchLocked
<1>2. \A c \in Client : granted'[c] <=> gr[c] \/ c \in G
  BY <1>1, Zenon
<1>3. \A k \in Key : readers'[k] = Cardinality(Readers(granted', k))
  <2> TAKE k \in Key
  <2> DEFINE new == {c \in G : k \in keys[c] /\ ~write[c]}
  <2>1. IsFiniteSet(Readers(gr, k)) /\ IsFiniteSet(new)
    BY ClientFinite, FS_Subset, Zenon DEF Readers
  <2>2. Readers(granted', k) = Readers(gr, k) \cup new
    BY <1>2, Zenon DEF Readers
  <2>3. Readers(gr, k) \cap new = {}
    BY Zenon DEF Readers
  <2>4. Cardinality(Readers(granted', k))
          = Cardinality(Readers(gr, k)) + Cardinality(new)
    <3>1. Cardinality({}) = 0
      BY FS_EmptySet, Zenon
    <3>2. Cardinality(Readers(gr, k)) \in Nat /\ Cardinality(new) \in Nat
      BY <2>1, FS_CardinalityType, Zenon
    <3>3. Cardinality(Readers(gr, k) \cup new)
            = Cardinality(Readers(gr, k)) + Cardinality(new) - 0
      BY <2>1, <2>3, <3>1, FS_Union
    <3> HIDE DEF new
    <3> QED BY <2>2, <3>2, <3>3
  <2>5. readers'[k] = rd[k] + Cardinality(new)
    BY <1>1, Zenon
  <2> QED BY <2>4, <2>5, Zenon DEF Matches
<1>4. readers' \in [Key -> Nat]
  <2>1. \A k \in Key : Readers(granted', k) \in SUBSET Client
    BY Zenon DEF Readers
  <2>2. \A k \in Key : readers'[k] \in Nat
    BY <2>1, <1>3, ClientFinite, FS_Subset, FS_CardinalityType
  <2>3. readers' = [k \in Key |-> readers'[k]]
    BY <1>1, Zenon
  <2> QED BY <2>2, <2>3, Zenon
<1>5. writer' \in [Key -> BOOLEAN]
  BY <1>1, Zenon
<1>6. Matches(granted', readers', writer')
  <2>1. \A k \in Key : writer'[k] <=>
          \E c \in Client : granted'[c] /\ write[c] /\ k \in keys[c]
    BY <1>1, <1>2, Zenon DEF Matches
  <2> QED BY <2>1, <1>3, Zenon DEF Matches
<1>7. ASSUME NEW c \in G, NEW d \in Client, gr[d] PROVE ~Conflict(c, d)
  <2>1. SUFFICES ASSUME NEW k \in Key, k \in keys[c], k \in keys[d],
                        write[c] \/ write[d]
                 PROVE  FALSE
    BY Zenon DEF Conflict, Overlap, TypeOK
  <2>2. CanGrant(c, rd, wr)
    BY <1>1, Zenon DEF Grants
  <2>3. CASE write[d]
    BY <2>1, <2>2, <2>3, <1>7 DEF Matches, CanGrant
  <2>4. CASE ~write[d]
    <3>1. d \in Readers(gr, k)
      BY <2>1, <2>4, <1>7, Zenon DEF Readers
    <3>2. IsFiniteSet(Readers(gr, k))
      BY ClientFinite, FS_Subset DEF Readers
    <3>3. Cardinality(Readers(gr, k)) # 0
      BY <3>1, <3>2, FS_EmptySet
    <3> QED BY <2>1, <2>2, <2>4, <3>3 DEF Matches, CanGrant
  <2> QED BY <2>3, <2>4, Zenon
<1>8. ASSUME NEW c \in G, NEW d \in G, c # d PROVE ~Conflict(c, d)
  <2>1. c \in ah[d] \/ d \in ah[c]
    BY <1>8, Zenon DEF Ordered
  <2>2. \A e, f \in G : e \in ah[f] => ~Conflict(e, f)
    BY <1>1, Zenon DEF Grants
  <2>3. Conflict(c, d) <=> Conflict(d, c)
    BY Zenon DEF Conflict, Overlap
  <2> QED BY <2>1, <2>2, <2>3
<1>9. Exclusive(granted')
  <2> SUFFICES ASSUME NEW c \in Client, NEW d \in Client, c # d,
                      granted'[c], granted'[d]
               PROVE  ~Conflict(c, d)
    BY Zenon DEF Exclusive
  <2>1. Conflict(c, d) <=> Conflict(d, c)
    BY Zenon DEF Conflict, Overlap
  <2>2. CASE gr[c] /\ gr[d]
    BY <2>2, Zenon DEF Exclusive
  <2> QED BY <1>2, <1>7, <1>8, <2>1, <2>2
<1>10. Ordered(waiters', ahead')
  BY <1>1 DEF Ordered
<1>11. Blocked(waiters', ahead', granted')
  <2> SUFFICES ASSUME NEW c \in q \ G
               PROVE  \/ \E d \in Client : granted'[d] /\ Conflict(c, d)
                      \/ \E d \in ahead'[c] : write[d] /\ Overlap(c, d)
    BY <1>1, Zenon DEF Blocked
  <2>0. \A d \in Client : Overlap(c, d) = Overlap(d, c)
    BY Zenon DEF Overlap
  <2>1. \/ ~CanGrant(c, rd, wr)
        \/ \E d \in ah[c] \cap G : Conflict(d, c)
        \/ \E d \in ah[c] \ G : write[d] /\ Overlap(d, c)
    BY <1>1 DEF Grants
  <2>2. CASE ~CanGrant(c, rd, wr)
    <3>1. PICK k \in keys[c] : wr[k] \/ (write[c] /\ rd[k] # 0)
      BY <2>2 DEF CanGrant
    <3>2. k \in Key
      BY <3>1, Zenon DEF TypeOK
    <3>3. CASE wr[k]
      BY <3>1, <3>2, <3>3, <1>2 DEF Matches, Conflict, Overlap
    <3>4. CASE write[c] /\ rd[k] # 0
      <4>1. Readers(gr, k) # {}
        BY <3>2, <3>4, FS_EmptySet, ZenonT(40) DEF Matches
      <4> QED BY <4>1, <3>1, <3>4, <1>2, Zenon DEF Readers, Conflict, Overlap
    <3> QED BY <3>1, <3>3, <3>4
  <2>3. CASE \E d \in ah[c] \cap G : Conflict(d, c)
    BY <2>3, <2>0, <1>2 DEF Conflict
  <2>4. CASE \E d \in ah[c] \ G : write[d] /\ Overlap(d, c)
    BY <2>4, <2>0, <1>1
  <2> QED BY <2>1, <2>2, <2>3, <2>4, Zenon
<1>12. /\ waiters' = {c \in q : ~granted'[c]}
       /\ \A c \in Client : granted'[c] <=> gr[c] \/ c \in q \ waiters'
  BY <1>1, <1>2
<1>13. /\ granted' \in [Client -> BOOLEAN]
       /\ waiters' \in SUBSET Client
       /\ ahead' \in [Client -> SUBSET Client]
  BY <1>1
<1> QED BY <1>4, <1>5, <1>6, <1>9, <1>10, <1>11, <1>12, <1>13

-----------------------------------------------------------------------------
\* What a critical section that ends in dispatchLocked owes the invariant.
LEMMA DispatchStep ==
  ASSUME IInv, NEW c \in Client,
         NEW q \in SUBSET Client, NEW ah \in [Client -> SUBSET Client],
         NEW rd \in [Key -> Nat], NEW wr \in [Key -> BOOLEAN],
         NEW gr \in [Client -> BOOLEAN],
         \A d \in q : ~gr[d],
         Ordered(q, ah), Matches(gr, rd, wr), Exclusive(gr),
         dispatchLocked(q, ah, rd, wr, gr),
         pc' \in [Client -> PC], UNCHANGED <<keys, write>>,
         \A d \in Client :
           /\ gr[d] => pc'[d] \in {"waiting", "canceling", "holding"}
           /\ pc'[d] = "holding" => gr[d],
         \A d \in Client :
           d \in q <=> pc'[d] \in {"waiting", "canceling"} /\ ~gr[d]
  PROVE  IInv'
<1>1. TypeOK
  BY Zenon DEF IInv
<1>2. /\ granted' \in [Client -> BOOLEAN]
      /\ waiters' \in SUBSET Client
      /\ ahead' \in [Client -> SUBSET Client]
      /\ readers' \in [Key -> Nat]
      /\ writer' \in [Key -> BOOLEAN]
      /\ waiters' = {d \in q : ~granted'[d]}
      /\ \A d \in Client : granted'[d] <=> gr[d] \/ d \in q \ waiters'
      /\ Ordered(waiters', ahead')
      /\ Matches(granted', readers', writer')
      /\ Exclusive(granted')
      /\ Blocked(waiters', ahead', granted')
  BY <1>1, DispatchCorrect, ZenonT(40)
<1>3. TypeOK'
  BY <1>1, <1>2, Zenon DEF TypeOK
<1>4. NoOrphan'
  BY <1>2 DEF NoOrphan
<1>5. EntriesMatchGrants'
  <2>1. keys' = keys /\ write' = write
    BY Zenon
  <2>2. \A k \in Key : Readers(granted', k)
          = {d \in Client : granted'[d] /\ ~write'[d] /\ k \in keys'[d]}
    BY <2>1 DEF Readers
  <2>3. \A k \in Key : readers'[k] = Cardinality(
          {d \in Client : granted'[d] /\ ~write'[d] /\ k \in keys'[d]})
    <3>1. \A k \in Key : readers'[k] = Cardinality(Readers(granted', k))
      BY <1>2, Zenon DEF Matches
    <3> QED BY <3>1, <2>2, ZenonT(40)
  <2>4. \A k \in Key : writer'[k] <=>
          \E d \in Client : granted'[d] /\ write'[d] /\ k \in keys'[d]
    BY <1>2, <2>1 DEF Matches
  <2> QED BY <2>3, <2>4, ZenonT(40) DEF EntriesMatchGrants
<1>6. MutualExclusion'
  BY <1>2, Zenon DEF MutualExclusion, Exclusive, Conflict, Overlap
<1>7. NoLostWakeup'
  BY <1>2 DEF NoLostWakeup, Blocked, Conflict, Overlap
<1>8. Ordered(waiters, ahead)'
  BY <1>2, Zenon DEF Ordered
<1> QED BY <1>3, <1>4, <1>5, <1>6, <1>7, <1>8 DEF IInv

\* release gives back exactly what the waiter was granted.
LEMMA ReleaseStep ==
  ASSUME IInv, NEW c \in Client, granted[c], release(c)
  PROVE  IInv'
<1> DEFINE rd == [k \in Key |-> IF k \in keys[c] /\ HasEntry(k) /\ ~write[c]
                                  THEN readers[k] - 1 ELSE readers[k]]
           wr == [k \in Key |-> writer[k] /\ ~(k \in keys[c] /\ write[c])]
           gr == [granted EXCEPT ![c] = FALSE]
<1>1. /\ TypeOK /\ NoOrphan /\ EntriesMatchGrants /\ MutualExclusion
      /\ Ordered(waiters, ahead)
  BY Zenon DEF IInv
<1>2. /\ gr \in [Client -> BOOLEAN]
      /\ \A d \in Client : gr[d] <=> granted[d] /\ d # c
      /\ wr \in [Key -> BOOLEAN]
  BY <1>1 DEF TypeOK
<1>3. \A k \in Key : rd[k] \in Nat /\ rd[k] = Cardinality(Readers(gr, k))
  <2> TAKE k \in Key
  <2>1. IsFiniteSet(Readers(granted, k))
    BY ClientFinite, FS_Subset, Zenon DEF Readers
  <2>2. readers[k] = Cardinality(Readers(granted, k)) /\ readers[k] \in Nat
    BY <1>1 DEF EntriesMatchGrants, Readers, TypeOK
  <2>3. CASE k \in keys[c] /\ ~write[c]
    <3>1. c \in Readers(granted, k)
      BY <2>3 DEF Readers
    <3>2. Readers(gr, k) = Readers(granted, k) \ {c}
      BY <1>2 DEF Readers
    <3> HIDE DEF gr
    <3>3. /\ Cardinality(Readers(gr, k)) = Cardinality(Readers(granted, k)) - 1
          /\ IsFiniteSet(Readers(gr, k))
      BY <2>1, <3>1, <3>2, FS_RemoveElement, ZenonT(40)
    <3>4. Cardinality(Readers(gr, k)) \in Nat
      BY <3>3, FS_CardinalityType
    <3>5. readers[k] > 0
      BY <2>2, <3>3, <3>4
    <3> QED BY <2>2, <2>3, <3>3, <3>4, <3>5 DEF HasEntry
  <2>4. CASE ~(k \in keys[c] /\ ~write[c])
    <3>1. Readers(gr, k) = Readers(granted, k)
      BY <2>4, <1>2 DEF Readers
    <3> QED BY <2>2, <2>4, <3>1
  <2> QED BY <2>3, <2>4
<1>4. rd \in [Key -> Nat]
  BY <1>3
<1>5. \A k \in Key : wr[k] <=>
        \E d \in Client : gr[d] /\ write[d] /\ k \in keys[d]
  <2> TAKE k \in Key
  <2>1. writer[k] <=> \E d \in Client : granted[d] /\ write[d] /\ k \in keys[d]
    BY <1>1, ZenonT(40) DEF EntriesMatchGrants
  <2>2. CASE k \in keys[c] /\ write[c]
    <3>1. \A d \in Client : d # c /\ granted[d] => k \notin keys[d]
      BY <2>2, <1>1 DEF MutualExclusion, Conflict, Overlap
    <3> QED BY <2>2, <3>1, <1>2, ZenonT(40)
  <2>3. CASE ~(k \in keys[c] /\ write[c])
    BY <2>1, <2>3, <1>2, ZenonT(40)
  <2> QED BY <2>2, <2>3
<1>6. Matches(gr, rd, wr)
  BY <1>3, <1>5, ZenonT(40) DEF Matches
<1>7. Exclusive(gr)
  BY <1>1, <1>2, Zenon DEF Exclusive, MutualExclusion
<1>8. dispatchLocked(waiters, ahead, rd, wr, gr)
  BY DEF release
<1>9. /\ pc' \in [Client -> PC]
      /\ UNCHANGED <<keys, write>>
      /\ \A d \in Client :
           /\ gr[d] => pc'[d] \in {"waiting", "canceling", "holding"}
           /\ pc'[d] = "holding" => gr[d]
      /\ \A d \in Client :
           d \in waiters <=> pc'[d] \in {"waiting", "canceling"} /\ ~gr[d]
      /\ \A d \in waiters : ~gr[d]
  BY <1>1, <1>2 DEF release, TypeOK, PC, NoOrphan
<1>10. waiters \in SUBSET Client /\ ahead \in [Client -> SUBSET Client]
  BY <1>1, Zenon DEF TypeOK
<1> HIDE DEF rd, wr, gr
<1> QED BY <1>1, <1>2, <1>4, <1>6, <1>7, <1>8, <1>9, <1>10, DispatchStep, Zenon

-----------------------------------------------------------------------------
\* Joining the queue at its end.
LEMMA EnqueueStep ==
  ASSUME IInv, NEW c \in Client, Enqueue(c)
  PROVE  IInv'
<1> DEFINE q == waiters \cup {c}
           ah == [ahead EXCEPT ![c] = waiters]
<1>1. /\ TypeOK /\ NoOrphan /\ EntriesMatchGrants /\ MutualExclusion
      /\ Ordered(waiters, ahead)
  BY Zenon DEF IInv
<1>2. c \notin waiters /\ ~granted[c]
  BY <1>1 DEF NoOrphan, Enqueue
<1>3. q \in SUBSET Client /\ ah \in [Client -> SUBSET Client]
  BY <1>1 DEF TypeOK
<1>4. Ordered(q, ah)
  BY <1>1, <1>2 DEF Ordered, TypeOK
<1>5. Matches(granted, readers, writer) /\ Exclusive(granted)
  BY <1>1, Zenon DEF EntriesMatchGrants, Matches, Readers, MutualExclusion, Exclusive
<1>6. dispatchLocked(q, ah, readers, writer, granted)
  BY DEF Enqueue
<1>7. /\ pc' \in [Client -> PC]
      /\ UNCHANGED <<keys, write>>
      /\ \A d \in Client :
           /\ granted[d] => pc'[d] \in {"waiting", "canceling", "holding"}
           /\ pc'[d] = "holding" => granted[d]
      /\ \A d \in Client :
           d \in q <=> pc'[d] \in {"waiting", "canceling"} /\ ~granted[d]
      /\ \A d \in q : ~granted[d]
  BY <1>1, <1>2 DEF Enqueue, TypeOK, PC, NoOrphan
<1>8. /\ readers \in [Key -> Nat] /\ writer \in [Key -> BOOLEAN]
      /\ granted \in [Client -> BOOLEAN]
  BY <1>1, Zenon DEF TypeOK
<1> HIDE DEF q, ah
<1> QED BY <1>3, <1>4, <1>5, <1>6, <1>7, <1>8, DispatchStep

\* Leaving the queue because the context ended.
LEMMA CancelQueuedStep ==
  ASSUME IInv, NEW c \in Client, CancelQueued(c)
  PROVE  IInv'
<1> DEFINE q == waiters \ {c}
           ah == [d \in Client |-> ahead[d] \ {c}]
<1>1. /\ TypeOK /\ NoOrphan /\ EntriesMatchGrants /\ MutualExclusion
      /\ Ordered(waiters, ahead)
  BY Zenon DEF IInv
<1>3. q \in SUBSET Client /\ ah \in [Client -> SUBSET Client]
  BY <1>1 DEF TypeOK
<1>4. Ordered(q, ah)
  BY <1>1 DEF Ordered, TypeOK
<1>5. Matches(granted, readers, writer) /\ Exclusive(granted)
  BY <1>1, Zenon DEF EntriesMatchGrants, Matches, Readers, MutualExclusion, Exclusive
<1>6. dispatchLocked(q, ah, readers, writer, granted)
  BY DEF CancelQueued
<1>7. /\ pc' \in [Client -> PC]
      /\ UNCHANGED <<keys, write>>
      /\ \A d \in Client :
           /\ granted[d] => pc'[d] \in {"waiting", "canceling", "holding"}
           /\ pc'[d] = "holding" => granted[d]
      /\ \A d \in Client :
           d \in q <=> pc'[d] \in {"waiting", "canceling"} /\ ~granted[d]
      /\ \A d \in q : ~granted[d]
  BY <1>1 DEF CancelQueued, TypeOK, PC, NoOrphan
<1>8. /\ readers \in [Key -> Nat] /\ writer \in [Key -> BOOLEAN]
      /\ granted \in [Client -> BOOLEAN]
  BY <1>1, Zenon DEF TypeOK
<1> HIDE DEF q, ah
<1> QED BY <1>3, <1>4, <1>5, <1>6, <1>7, <1>8, DispatchStep, Zenon

\* A request is rewritten only while it is neither queued nor granted.
LEMMA RequestStep ==
  ASSUME IInv, NEW c \in Client, Request(c)
  PROVE  IInv'
<1>1. /\ TypeOK /\ NoOrphan /\ EntriesMatchGrants /\ MutualExclusion
      /\ Ordered(waiters, ahead) /\ NoLostWakeup
  BY Zenon DEF IInv
<1>2. /\ c \notin waiters /\ ~granted[c]
      /\ UNCHANGED <<granted, waiters, ahead, readers, writer>>
      /\ pc' = [pc EXCEPT ![c] = "requesting"]
  BY <1>1, Zenon DEF NoOrphan, Request
<1>3. /\ keys' \in [Client -> SUBSET Key] /\ write' \in [Client -> BOOLEAN]
      /\ \A d \in Client : d # c => keys'[d] = keys[d] /\ write'[d] = write[d]
  BY <1>1 DEF Request, TypeOK
<1>4. TypeOK'
  BY <1>1, <1>2, <1>3, Zenon DEF TypeOK, PC
<1>5. NoOrphan'
  BY <1>1, <1>2, Zenon DEF NoOrphan, TypeOK
<1>6. Ordered(waiters, ahead)'
  BY <1>1, <1>2, Zenon DEF Ordered
<1>7. EntriesMatchGrants'
  <2>1. \A k \in Key :
          {d \in Client : granted'[d] /\ ~write'[d] /\ k \in keys'[d]}
            = {d \in Client : granted[d] /\ ~write[d] /\ k \in keys[d]}
    BY <1>2, <1>3, Zenon
  <2>2. \A k \in Key : readers'[k] = Cardinality(
          {d \in Client : granted'[d] /\ ~write'[d] /\ k \in keys'[d]})
    <3>1. \A k \in Key : readers'[k] = Cardinality(
            {d \in Client : granted[d] /\ ~write[d] /\ k \in keys[d]})
      BY <1>1, <1>2, Zenon DEF EntriesMatchGrants
    <3> QED BY <3>1, <2>1, Zenon
  <2>3. \A k \in Key : writer'[k] <=>
          \E d \in Client : granted'[d] /\ write'[d] /\ k \in keys'[d]
    BY <1>1, <1>2, <1>3, Zenon DEF EntriesMatchGrants
  <2> QED BY <2>2, <2>3, Zenon DEF EntriesMatchGrants
<1>8. MutualExclusion'
  BY <1>1, <1>2, <1>3, Zenon DEF MutualExclusion, Conflict, Overlap
<1>9. NoLostWakeup'
  <2>1. \A d \in waiters : ahead[d] \subseteq waiters
    BY <1>1, Zenon DEF Ordered
  <2> QED BY <1>1, <1>2, <1>3, <2>1, SMTT(30) DEF NoLostWakeup, Conflict, Overlap, TypeOK
<1> QED BY <1>4, <1>5, <1>6, <1>7, <1>8, <1>9, Zenon DEF IInv

\* Every step of the registry keeps the inductive invariant.
LEMMA StepInvariant ==
  ASSUME IInv, [Next]_vars
  PROVE  IInv'
<1>1. CASE UNCHANGED vars
  <2>1. TypeOK' /\ NoOrphan'
    BY <1>1, Zenon DEF vars, IInv, TypeOK, NoOrphan
  <2>2. Ordered(waiters, ahead)' /\ EntriesMatchGrants'
    BY <1>1 DEF vars, IInv, Ordered, EntriesMatchGrants
  <2>3. MutualExclusion' /\ NoLostWakeup'
    BY <1>1, Zenon DEF vars, IInv, MutualExclusion, NoLostWakeup, Conflict, Overlap
  <2> QED BY <2>1, <2>2, <2>3, Zenon DEF IInv
<1>2. ASSUME NEW c \in Client, Abandon(c) \/ Finish(c) \/ CtxDone(c)
      PROVE  IInv'
  <2>1. UNCHANGED <<keys, write, granted, waiters, ahead, readers, writer>>
    BY <1>2, Zenon DEF Abandon, Finish, CtxDone
  <2>2. TypeOK' /\ NoOrphan'
    BY <1>2, <2>1 DEF IInv, TypeOK, PC, NoOrphan, Abandon, Finish, CtxDone
  <2>3. /\ Ordered(waiters, ahead)' /\ EntriesMatchGrants' /\ MutualExclusion'
        /\ NoLostWakeup'
    BY <2>1 DEF IInv, Ordered, EntriesMatchGrants, MutualExclusion,
                NoLostWakeup, Conflict, Overlap
  <2> QED BY <2>2, <2>3, Zenon DEF IInv
<1>3. ASSUME NEW c \in Client, ReleaseCanceled(c) \/ Release(c) PROVE IInv'
  <2>1. granted[c] /\ release(c)
    BY <1>3, Zenon DEF ReleaseCanceled, Release, IInv, NoOrphan
  <2> QED BY <2>1, ReleaseStep, Zenon
<1> QED
  BY <1>1, <1>2, <1>3, RequestStep, EnqueueStep, CancelQueuedStep, Zenon DEF Next, Step

-----------------------------------------------------------------------------
\* Type correctness, and the inductive invariant of the lock registry.
THEOREM LockInvariant == Spec => []IInv
<1>1. Init => IInv
  <2> SUFFICES ASSUME Init PROVE IInv
    BY Zenon
  <2>1. \A k \in Key : readers[k] = Cardinality(
          {c \in Client : granted[c] /\ ~write[c] /\ k \in keys[c]})
    <3>1. \A k \in Key :
            {c \in Client : granted[c] /\ ~write[c] /\ k \in keys[c]} = {}
      BY Zenon DEF Init
    <3> QED BY <3>1, FS_EmptySet, Zenon DEF Init
  <2>2. \A k \in Key : writer[k] <=>
          \E c \in Client : granted[c] /\ write[c] /\ k \in keys[c]
    BY Zenon DEF Init
  <2>3. EntriesMatchGrants
    BY <2>1, <2>2, Zenon DEF EntriesMatchGrants
  <2>4. TypeOK /\ NoOrphan
    BY Zenon DEF Init, TypeOK, PC, NoOrphan
  <2>5. Ordered(waiters, ahead) /\ MutualExclusion /\ NoLostWakeup
    BY Zenon DEF Init, Ordered, MutualExclusion, NoLostWakeup
  <2> QED BY <2>3, <2>4, <2>5, Zenon DEF IInv
<1>2. IInv /\ [Next]_vars => IInv'
  BY StepInvariant, Zenon
<1> QED BY <1>1, <1>2, PTL DEF Spec

\* Granted lifecycle locks never conflict, for any clients and plugins.
THEOREM LockMutualExclusion == Spec => []MutualExclusion
<1>1. IInv => MutualExclusion
  BY Zenon DEF IInv
<1> QED BY <1>1, LockInvariant, PTL

\* The lock entries always count exactly the granted requests.
THEOREM LockEntriesMatch == Spec => []EntriesMatchGrants
<1>1. IInv => EntriesMatchGrants
  BY Zenon DEF IInv
<1> QED BY <1>1, LockInvariant, PTL

\* Nobody is left queued without a conflicting holder or an earlier writer.
THEOREM LockNoLostWakeup == Spec => []NoLostWakeup
<1>1. IInv => NoLostWakeup
  BY Zenon DEF IInv
<1> QED BY <1>1, LockInvariant, PTL

\* A cancellation racing a grant leaves neither an orphaned grant nor an
\* orphaned waiter.
THEOREM LockNoOrphan == Spec => []NoOrphan
<1>1. IInv => NoOrphan
  BY Zenon DEF IInv
<1> QED BY <1>1, LockInvariant, PTL

\* Writer reservations hold: nobody is granted past a queued writer that
\* shares one of its keys.
THEOREM LockNoOvertaking == Spec => NoOvertaking
<1> DEFINE A == \A c \in Client, d \in waiters :
                  /\ ~granted[c] /\ granted'[c]
                  /\ c \in waiters => d \in ahead[c]
                  /\ c # d /\ write[d] /\ Overlap(c, d)
                  => d \notin waiters' /\ ~granted'[d]
<1>1. ASSUME IInv, [Next]_vars PROVE A
  <2> SUFFICES ASSUME NEW c \in Client, NEW d \in waiters,
                      ~granted[c], granted'[c], c \in waiters => d \in ahead[c],
                      c # d, write[d], Overlap(c, d)
               PROVE  d \notin waiters' /\ ~granted'[d]
    BY Zenon
  <2>1. d \in Client /\ ~granted[d]
    BY <1>1, Zenon DEF IInv, TypeOK, NoOrphan
  <2>2. Overlap(d, c)
    BY Zenon DEF Overlap
  <2>3. PICK e \in Client : Enqueue(e) \/ CancelQueued(e)
                              \/ ReleaseCanceled(e) \/ Release(e)
    BY <1>1, Zenon DEF Next, Step, vars, Request, Abandon, Finish, CtxDone
  <2>4. ASSUME NEW q, NEW ah, NEW rd, NEW wr, NEW gr, ~gr[c],
               dispatchLocked(q, ah, rd, wr, gr)
        PROVE  c \in q /\ d \notin ah[c]
    <3>1. PICK G \in SUBSET q : /\ Grants(G, q, ah, rd, wr)
                                 /\ granted' = [x \in Client |-> gr[x] \/ x \in G]
      BY <2>4, Zenon DEF dispatchLocked
    <3>2. c \in G
      BY <2>4, <3>1, Zenon
    <3> QED BY <2>2, <3>1, <3>2, Zenon DEF Grants, Conflict
  <2>5. CASE Enqueue(e)
    <3>1. c \in waiters \cup {e} /\ d \notin [ahead EXCEPT ![e] = waiters][c]
      BY <2>4, <2>5, Zenon DEF Enqueue
    <3>2. c = e
      BY <1>1, <3>1, Zenon DEF IInv, TypeOK
    <3> QED BY <1>1, <3>1, <3>2, Zenon DEF IInv, TypeOK
  <2>6. CASE CancelQueued(e)
    <3>1. c \in waiters /\ c # e /\ d \notin [x \in Client |-> ahead[x] \ {e}][c]
      BY <2>4, <2>6, Zenon DEF CancelQueued
    <3>2. d = e
      BY <3>1, Zenon
    <3> QED BY <2>1, <2>6, <3>2, Zenon DEF CancelQueued, dispatchLocked
  <2>7. CASE ReleaseCanceled(e) \/ Release(e)
    <3>1. release(e)
      BY <2>7, Zenon DEF ReleaseCanceled, Release
    <3>2. ~[granted EXCEPT ![e] = FALSE][c]
      BY <1>1, Zenon DEF IInv, TypeOK
    <3> QED BY <2>4, <3>1, <3>2, Zenon DEF release
  <2> QED BY <2>3, <2>5, <2>6, <2>7, Zenon
<1>2. IInv /\ [Next]_vars => [A]_vars
  BY <1>1, Zenon
<1> HIDE DEF A
<1>3. Spec => [][A]_vars
  BY <1>2, LockInvariant, PTL DEF Spec
<1> QED BY <1>3, Zenon DEF NoOvertaking, A

-----------------------------------------------------------------------------
(* The background manager.                                                 *)

CONSTANTS Starters, Stoppers, MaxWorkers, NoOne

VARIABLES
  session, starting, closed, entry, state, watch, managerPc, held, attempt, result, down,
  orphaned

B == INSTANCE BackgroundManager WITH MaxEntries <- MaxWorkers, pc <- managerPc

USE DEF B!Manager, B!Runner

\* The watchers of the sessions are as they were when a step adds none, leaves the
\* sessions alone and gives the runner no invocation under a published session.
LEMMA WatchersStay ==
  ASSUME B!WatchersOwn, watch' = watch, orphaned' = orphaned, session' = session,
         closed => closed', session => entry' = entry \/ entry' = 0,
         \A s \in Starters : managerPc'[s] = "watch" => managerPc[s] = "watch"
  PROVE B!WatchersOwn'
<1> USE DEF B!WatchersOwn
<1>1. ASSUME NEW f \in 0..MaxWorkers
      PROVE  /\ watch'[f] \in {0, 1}
             /\ watch'[f] = 1 =>
                  /\ session' \/ closed'
                  /\ session' => entry' \in {0, f}
                  /\ \A g \in 0..MaxWorkers : watch'[g] = 1 => g = f
                  /\ \A s \in Starters : managerPc'[s] # "watch"
  BY <1>1, Zenon
<1>2. ASSUME NEW s \in Starters, managerPc'[s] = "watch"
      PROVE  /\ session' \/ closed'
             /\ \A r \in Starters : managerPc'[r] = "watch" => r = s
  BY <1>2, Zenon
<1> QED BY <1>1, <1>2, Zenon

\* The manager can find the running invocation as before when a step leaves the sessions
\* alone, starts none and takes no Start from the steps in which it publishes or stops.
LEMMA ManagerStays ==
  ASSUME B!InManager, session' = session, orphaned' = orphaned, down' = down,
         entry' = entry \/ entry' = 0,
         \A e \in B!Entries : state'[e] = "running" => state[e] = "running",
         0 \notin B!Entries,
         \A s \in Starters : managerPc[s] \in {"started", "take"} =>
                               managerPc'[s] \in {"started", "take"}
  PROVE B!InManager'
BY Zenon DEF B!InManager

\* A Start keeps the manager's invariant: it registers its attempt or joins the one
\* under way, asks the runner, and publishes the session or gives it up (Manager.Start,
\* runner Start).
LEMMA StartKeeps ==
  ASSUME B!ManagerConstants, B!ManagerInv, NEW s \in Starters, B!StartStep(s)
  PROVE B!ManagerInv'
<1> s \in B!Calls /\ Starters \subseteq B!Calls
  BY Zenon DEF B!Calls
<1>0. 0 \notin B!Entries
  BY DEF B!Entries
<1> USE DEF B!ManagerConstants, B!ManagerInv, B!Entries
<1>1. CASE B!Start(s)
  <2>1. B!Shape'
    <3>1. \E x \in B!CallSteps : managerPc' = [managerPc EXCEPT ![s] = x]
      BY <1>1, Zenon DEF B!Start, B!CallSteps
    <3>2. attempt' \in [Starters -> Starters \union {NoOne}]
      BY <1>1 DEF B!Start, B!Shape, B!OneStarting
    <3>3. managerPc' \in [B!Calls -> B!CallSteps]
      BY <3>1, Zenon DEF B!Shape
    <3> QED BY <1>1, <3>2, <3>3, Zenon DEF B!Start, B!Shape
  <2>2. B!InRunner'
    BY <1>1 DEF B!Start, B!Shape, B!CallSteps, B!EntryStates, B!Downs, B!InRunner
  <2>3. B!OneStarting'
    BY <1>1 DEF B!Start, B!Shape, B!CallSteps, B!OneStarting
  <2>4. (B!ClosedFirst /\ B!ShutdownForgets)'
    BY <1>1, Zenon DEF B!Start, B!Shape, B!Downs, B!ClosedFirst, B!ShutdownForgets
  <2>5. B!EntryLives'
    BY <1>1 DEF B!Start, B!Shape, B!EntryStates, B!EntryLives
  <2>6. B!InManager'
    <3>1. \A r \in Starters : managerPc[r] \in {"started", "take"} =>
                                managerPc'[r] \in {"started", "take"}
      BY <1>1, Zenon DEF B!Start, B!Shape
    <3> QED BY <1>0, <1>1, <3>1, ManagerStays, Zenon DEF B!Start
  <2>7. (B!Unstopped => B!WatchersOwn)'
    <3> SUFFICES ASSUME B!Unstopped' PROVE B!WatchersOwn'
      BY Zenon
    <3>1. B!Unstopped
      BY <1>1, Zenon DEF B!Start, B!Shape, B!Unstopped, B!Calls
    <3>2. \A r \in Starters : managerPc'[r] = "watch" => managerPc[r] = "watch"
      BY <1>1, Zenon DEF B!Start, B!Shape, B!CallSteps
    <3> QED BY <1>1, <3>1, <3>2, WatchersStay, Zenon DEF B!Start
  <2> QED BY <2>1, <2>2, <2>3, <2>4, <2>5, <2>6, <2>7, Zenon
<1>2. CASE B!Join(s)
  <2>1. B!Shape'
    BY <1>2, Zenon DEF B!Join, B!Shape, B!CallSteps, B!OneStarting
  <2>2. B!InRunner'
    BY <1>2 DEF B!Join, B!Shape, B!CallSteps, B!EntryStates, B!Downs, B!InRunner
  <2>3. B!OneStarting'
    <3>1. attempt[s] \in Starters /\ result[attempt[s]] \in {"ok", "err"}
      BY <1>2, Zenon DEF B!Join, B!Shape, B!CallSteps, B!OneStarting
    <3> QED BY <1>2, <3>1, Zenon DEF B!Join, B!Shape, B!CallSteps, B!OneStarting
  <2>4. (B!ClosedFirst /\ B!ShutdownForgets)'
    BY <1>2, Zenon DEF B!Join, B!Shape, B!Downs, B!ClosedFirst, B!ShutdownForgets
  <2>5. B!EntryLives'
    BY <1>2 DEF B!Join, B!Shape, B!EntryStates, B!EntryLives
  <2>6. B!InManager'
    <3>1. \A r \in Starters : managerPc[r] \in {"started", "take"} =>
                                managerPc'[r] \in {"started", "take"}
      BY <1>2, Zenon DEF B!Join, B!Shape
    <3> QED BY <1>0, <1>2, <3>1, ManagerStays, Zenon DEF B!Join
  <2>7. (B!Unstopped => B!WatchersOwn)'
    <3> SUFFICES ASSUME B!Unstopped' PROVE B!WatchersOwn'
      BY Zenon
    <3>1. B!Unstopped
      BY <1>2, Zenon DEF B!Join, B!Shape, B!Unstopped, B!Calls
    <3>2. result[attempt[s]] # "watch"
      BY <1>2, Zenon DEF B!Join, B!Shape, B!OneStarting
    <3>3. \A r \in Starters : managerPc'[r] = "watch" => managerPc[r] = "watch"
      BY <1>2, <3>2, Zenon DEF B!Join, B!Shape
    <3> QED BY <1>2, <3>1, <3>3, WatchersStay, Zenon DEF B!Join
  <2> QED BY <2>1, <2>2, <2>3, <2>4, <2>5, <2>6, <2>7, Zenon
<1>3. CASE B!RunnerStart(s)
  <2>1. B!Shape'
    <3>1. \E x \in B!CallSteps : managerPc' = [managerPc EXCEPT ![s] = x]
      BY <1>3, Zenon DEF B!RunnerStart, B!CallSteps
    <3>2. \/ UNCHANGED <<entry, state>>
          \/ \E e \in B!Entries : entry' = e /\ state' = [state EXCEPT ![e] = "running"]
      BY <1>3, Zenon DEF B!RunnerStart
    <3>3. entry' \in 0..MaxWorkers /\ state' \in [B!Entries -> B!EntryStates]
      BY <3>2 DEF B!Shape, B!EntryStates
    <3>4. managerPc' \in [B!Calls -> B!CallSteps]
      BY <3>1, Zenon DEF B!Shape
    <3> QED BY <1>3, <3>3, <3>4, Zenon DEF B!RunnerStart, B!Shape
  <2>2. B!InRunner'
    <3>1. \A c \in B!Calls : managerPc[c] = "cancel" => managerPc'[c] = "cancel"
      BY <1>3, Zenon DEF B!RunnerStart, B!Shape
    <3>2. CASE UNCHANGED <<entry, state>>
      BY <1>3, <3>1, <3>2, Zenon DEF B!RunnerStart, B!InRunner
    <3>3. CASE \E e \in B!Entries :
                 entry = 0 /\ entry' = e /\ state' = [state EXCEPT ![e] = "running"]
      BY <1>3, <3>1, <3>3 DEF B!RunnerStart, B!Shape, B!InRunner
    <3> QED BY <1>3, <3>2, <3>3, Zenon DEF B!RunnerStart
  <2>3. B!OneStarting'
    BY <1>3 DEF B!RunnerStart, B!Shape, B!CallSteps, B!OneStarting
  <2>4. (B!ClosedFirst /\ B!ShutdownForgets)'
    <3>1. starting # NoOne
      BY <1>3, Zenon DEF B!RunnerStart, B!OneStarting
    <3> QED BY <1>3, <3>1, Zenon DEF B!RunnerStart, B!ClosedFirst, B!ShutdownForgets
  <2>5. B!EntryLives'
    BY <1>3 DEF B!RunnerStart, B!Shape, B!EntryStates, B!EntryLives
  <2>6. B!InManager'
    BY <1>3 DEF B!RunnerStart, B!Shape, B!CallSteps, B!Downs, B!OneStarting,
       B!ClosedFirst, B!InManager
  <2>7. (B!Unstopped => B!WatchersOwn)'
    <3> SUFFICES ASSUME B!Unstopped' PROVE B!WatchersOwn'
      BY Zenon
    <3>1. B!Unstopped
      BY <1>3, Zenon DEF B!RunnerStart, B!Shape, B!Unstopped, B!Calls
    <3>2. \A r \in Starters : managerPc'[r] = "watch" => managerPc[r] = "watch"
      BY <1>3, Zenon DEF B!RunnerStart, B!Shape
    <3>3. ~session
      BY <1>3, Zenon DEF B!RunnerStart, B!OneStarting
    <3> QED BY <1>3, <3>1, <3>2, <3>3, WatchersStay, Zenon DEF B!RunnerStart
  <2> QED BY <2>1, <2>2, <2>3, <2>4, <2>5, <2>6, <2>7, Zenon
<1>4. CASE B!Finish(s)
  <2>1. B!Shape'
    <3>1. \E x \in B!CallSteps : managerPc' = [managerPc EXCEPT ![s] = x]
      BY <1>4, Zenon DEF B!Finish, B!CallSteps
    <3>2. result' \in [Starters -> {"open", "ok", "err"}]
      BY <1>4, ZenonT(40) DEF B!Finish, B!Shape, B!CallSteps, B!EntryStates, B!Downs
    <3> QED BY <1>4, <3>1, <3>2 DEF B!Finish, B!Shape
  <2>2. B!InRunner'
    BY <1>4 DEF B!Finish, B!Shape, B!CallSteps, B!EntryStates, B!Downs, B!InRunner
  <2>3. B!OneStarting'
    BY <1>4 DEF B!Finish, B!Shape, B!CallSteps, B!OneStarting
  <2>4. (B!ClosedFirst /\ B!ShutdownForgets)'
    BY <1>4, Zenon DEF B!Finish, B!ClosedFirst, B!ShutdownForgets
  <2>5. B!EntryLives'
    BY <1>4 DEF B!Finish, B!Shape, B!EntryStates, B!EntryLives
  <2>6. B!InManager'
    BY <1>4 DEF B!Finish, B!Shape, B!CallSteps, B!Downs, B!OneStarting,
       B!ClosedFirst, B!InManager
  <2>7. (B!Unstopped => B!WatchersOwn)'
    <3> SUFFICES ASSUME B!Unstopped' PROVE B!WatchersOwn'
      BY Zenon
    <3>1. B!WatchersOwn
      <4>1. \A t \in Stoppers : managerPc'[t] = managerPc[t]
        BY <1>4, Zenon DEF B!Finish, B!Shape, B!Calls
      <4> QED BY <4>1, Zenon DEF B!Unstopped
    <3>2. starting = s /\ ~session
      BY <1>4, Zenon DEF B!Finish, B!OneStarting
    <3>3. CASE managerPc[s] = "failed" \/ closed
      <4>1. \A r \in Starters : managerPc'[r] = "watch" => managerPc[r] = "watch"
        BY <1>4, <3>3, Zenon DEF B!Finish, B!Shape
      <4> QED BY <1>4, <3>1, <3>3, <4>1, WatchersStay, Zenon DEF B!Finish
    <3>4. CASE managerPc[s] # "failed" /\ ~closed
      <4>1. /\ \A f \in 0..MaxWorkers : watch[f] = 0
            /\ \A r \in Starters : managerPc[r] # "watch"
        BY <3>1, <3>2, <3>4, Zenon DEF B!WatchersOwn
      <4>2. /\ session' /\ watch' = watch /\ orphaned' = orphaned
            /\ \A r \in Starters : managerPc'[r] = "watch" => r = s
        BY <1>4, <3>4, <4>1, Zenon DEF B!Finish, B!Shape
      <4> QED BY <3>1, <4>1, <4>2 DEF B!WatchersOwn
    <3> QED BY <3>3, <3>4, Zenon
  <2> QED BY <2>1, <2>2, <2>3, <2>4, <2>5, <2>6, <2>7, Zenon
<1>5. CASE B!Watch(s)
  <2>1. B!Shape'
    <3>1. watch' \in [0..MaxWorkers -> Nat]
      BY <1>5 DEF B!Watch, B!Shape
    <3> QED BY <1>5, <3>1, Zenon DEF B!Watch, B!Shape, B!CallSteps
  <2>2. B!InRunner'
    BY <1>5 DEF B!Watch, B!Shape, B!CallSteps, B!EntryStates, B!Downs, B!InRunner
  <2>3. B!OneStarting'
    BY <1>5, Zenon DEF B!Watch, B!Shape, B!CallSteps, B!OneStarting
  <2>4. (B!ClosedFirst /\ B!ShutdownForgets)'
    BY <1>5, Zenon DEF B!Watch, B!Shape, B!Downs, B!ClosedFirst, B!ShutdownForgets
  <2>5. B!EntryLives'
    BY <1>5 DEF B!Watch, B!Shape, B!EntryStates, B!EntryLives
  <2>6. B!InManager'
    <3>1. \A r \in Starters : managerPc[r] \in {"started", "take"} =>
                                managerPc'[r] \in {"started", "take"}
      BY <1>5, Zenon DEF B!Watch, B!Shape
    <3> QED BY <1>0, <1>5, <3>1, ManagerStays, Zenon DEF B!Watch
  <2>7. (B!Unstopped => B!WatchersOwn)'
    BY <1>5 DEF B!Watch, B!Shape, B!CallSteps, B!OneStarting, B!ClosedFirst,
       B!EntryLives, B!Unstopped, B!WatchersOwn
  <2> QED BY <2>1, <2>2, <2>3, <2>4, <2>5, <2>6, <2>7, Zenon
<1> QED BY <1>1, <1>2, <1>3, <1>4, <1>5, Zenon DEF B!StartStep

\* So does a Stop, which takes the invocation from the runner, cancels it and waits
\* (StopPluginEnvironment), and a caller that gives up waiting.
LEMMA StopKeeps ==
  ASSUME B!ManagerConstants, B!ManagerInv, NEW c \in B!Calls,
         B!StopStep(c) \/ B!GiveUp(c) \/ (c \in Stoppers /\ B!StopPluginEnvironment(c))
  PROVE B!ManagerInv'
<1> Starters \subseteq B!Calls
  BY Zenon DEF B!Calls
<1> USE DEF B!ManagerConstants, B!ManagerInv, B!Entries
<1>1. CASE B!StopTake(c)
  <2>1. B!Shape'
    BY <1>1 DEF B!StopTake, B!Shape, B!CallSteps, B!EntryStates, B!Downs
  <2>2. B!InRunner'
    BY <1>1 DEF B!StopTake, B!Shape, B!CallSteps, B!EntryStates, B!Downs, B!InRunner
  <2>3. B!OneStarting'
    BY <1>1, Zenon DEF B!StopTake, B!Shape, B!CallSteps, B!OneStarting
  <2>4. (B!ClosedFirst /\ B!ShutdownForgets)'
    BY <1>1, Zenon DEF B!StopTake, B!Shape, B!Downs, B!ClosedFirst, B!ShutdownForgets
  <2>5. B!EntryLives'
    BY <1>1 DEF B!StopTake, B!Shape, B!EntryStates, B!EntryLives
  <2>6. B!InManager'
    BY <1>1 DEF B!StopTake, B!Shape, B!CallSteps, B!Downs, B!OneStarting,
       B!ClosedFirst, B!InManager
  <2>7. (B!Unstopped => B!WatchersOwn)'
    BY <1>1 DEF B!StopTake, B!Shape, B!CallSteps, B!OneStarting, B!ClosedFirst,
       B!EntryLives, B!Unstopped, B!WatchersOwn
  <2> QED BY <2>1, <2>2, <2>3, <2>4, <2>5, <2>6, <2>7, Zenon
<1>2. CASE B!StopCancel(c)
  <2>1. B!Shape'
    <3>1. state' \in [B!Entries -> B!EntryStates]
      BY <1>2, ZenonT(40)
         DEF B!StopCancel, B!Canceled, B!Shape, B!CallSteps, B!EntryStates, B!Downs
    <3> QED BY <1>2, <3>1, Zenon
               DEF B!StopCancel, B!Canceled, B!Shape, B!CallSteps, B!EntryStates, B!Downs
  <2>2. B!InRunner'
    BY <1>2
       DEF B!StopCancel, B!Canceled, B!Shape, B!CallSteps, B!EntryStates, B!Downs,
           B!InRunner
  <2>3. B!OneStarting'
    BY <1>2, Zenon DEF B!StopCancel, B!Canceled, B!Shape, B!CallSteps, B!OneStarting
  <2>4. (B!ClosedFirst /\ B!ShutdownForgets)'
    BY <1>2, Zenon
       DEF B!StopCancel, B!Canceled, B!Shape, B!Downs, B!ClosedFirst, B!ShutdownForgets
  <2>5. B!EntryLives'
    BY <1>2 DEF B!StopCancel, B!Canceled, B!Shape, B!EntryStates, B!EntryLives
  <2>6. B!InManager'
    BY <1>2 DEF B!StopCancel, B!Canceled, B!Shape, B!CallSteps, B!Downs, B!OneStarting,
       B!ClosedFirst, B!InManager
  <2>7. (B!Unstopped => B!WatchersOwn)'
    BY <1>2 DEF B!StopCancel, B!Canceled, B!Shape, B!CallSteps, B!OneStarting, B!ClosedFirst,
       B!EntryLives, B!Unstopped, B!WatchersOwn
  <2> QED BY <2>1, <2>2, <2>3, <2>4, <2>5, <2>6, <2>7, Zenon
<1>3. CASE B!StopJoin(c)
  <2>1. B!Shape'
    BY <1>3, Zenon DEF B!StopJoin, B!Shape, B!CallSteps, B!EntryStates, B!Downs
  <2>2. B!InRunner'
    BY <1>3 DEF B!StopJoin, B!Shape, B!CallSteps, B!EntryStates, B!Downs, B!InRunner
  <2>3. B!OneStarting'
    BY <1>3, Zenon DEF B!StopJoin, B!Shape, B!CallSteps, B!OneStarting
  <2>4. (B!ClosedFirst /\ B!ShutdownForgets)'
    BY <1>3, Zenon DEF B!StopJoin, B!Shape, B!Downs, B!ClosedFirst, B!ShutdownForgets
  <2>5. B!EntryLives'
    BY <1>3 DEF B!StopJoin, B!Shape, B!EntryStates, B!EntryLives
  <2>6. B!InManager'
    BY <1>3 DEF B!StopJoin, B!Shape, B!CallSteps, B!Downs, B!OneStarting,
       B!ClosedFirst, B!InManager
  <2>7. (B!Unstopped => B!WatchersOwn)'
    BY <1>3 DEF B!StopJoin, B!Shape, B!CallSteps, B!OneStarting, B!ClosedFirst,
       B!EntryLives, B!Unstopped, B!WatchersOwn
  <2> QED BY <2>1, <2>2, <2>3, <2>4, <2>5, <2>6, <2>7, Zenon
<1>4. CASE B!StopForget(c)
  <2>1. B!Shape'
    <3>1. orphaned' \subseteq B!Entries
      <4>1. entry # 0 => entry \in B!Entries
        BY DEF B!Shape
      <4> QED BY <1>4, <4>1, Zenon DEF B!StopForget, B!Forget, B!Shape
    <3> QED BY <1>4, <3>1, Zenon DEF B!StopForget, B!Forget, B!Shape, B!CallSteps
  <2>2. B!InRunner'
    BY <1>4 DEF B!StopForget, B!Shape, B!CallSteps, B!EntryStates, B!Downs, B!InRunner
  <2>3. B!OneStarting'
    BY <1>4, Zenon DEF B!StopForget, B!Forget, B!Shape, B!CallSteps, B!OneStarting
  <2>4. (B!ClosedFirst /\ B!ShutdownForgets)'
    BY <1>4 DEF B!StopForget, B!Forget, B!ClosedFirst, B!ShutdownForgets
  <2>5. B!EntryLives'
    BY <1>4 DEF B!StopForget, B!Forget, B!Shape, B!EntryStates, B!EntryLives
  <2>6. B!InManager'
    BY <1>4 DEF B!StopForget, B!Forget, B!Shape, B!CallSteps, B!Downs, B!OneStarting,
       B!ClosedFirst, B!InManager
  <2>7. (B!Unstopped => B!WatchersOwn)'
    <3>1. CASE c \in Stoppers
      <4>1. managerPc'[c] = "ok"
        BY <1>4, <3>1, Zenon DEF B!StopForget, B!Shape
      <4> QED BY <3>1, <4>1, Zenon DEF B!Unstopped
    <3>2. CASE c \notin Stoppers
      <4> SUFFICES ASSUME B!Unstopped' PROVE B!WatchersOwn'
        BY Zenon
      <4>1. B!Unstopped
        BY <1>4, <3>2, Zenon DEF B!StopForget, B!Shape, B!Unstopped, B!Calls
      <4>2. \A r \in Starters : managerPc'[r] = "watch" => managerPc[r] = "watch"
        BY <1>4, Zenon DEF B!StopForget, B!Shape
      <4> QED BY <1>4, <3>2, <4>1, <4>2, WatchersStay, Zenon DEF B!StopForget
    <3> QED BY <3>1, <3>2, Zenon
  <2> QED BY <2>1, <2>2, <2>3, <2>4, <2>5, <2>6, <2>7, Zenon
<1>5. CASE B!GiveUp(c)
  <2>1. B!Shape'
    BY <1>5, Zenon DEF B!GiveUp, B!Shape, B!CallSteps, B!EntryStates, B!Downs
  <2>2. B!InRunner'
    BY <1>5 DEF B!GiveUp, B!Shape, B!CallSteps, B!EntryStates, B!Downs, B!InRunner
  <2>3. B!OneStarting'
    BY <1>5, Zenon DEF B!GiveUp, B!Shape, B!CallSteps, B!OneStarting
  <2>4. (B!ClosedFirst /\ B!ShutdownForgets)'
    BY <1>5, Zenon DEF B!GiveUp, B!Shape, B!Downs, B!ClosedFirst, B!ShutdownForgets
  <2>5. B!EntryLives'
    BY <1>5 DEF B!GiveUp, B!Shape, B!EntryStates, B!EntryLives
  <2>6. B!InManager'
    BY <1>5 DEF B!GiveUp, B!Shape, B!CallSteps, B!Downs, B!OneStarting,
       B!ClosedFirst, B!InManager
  <2>7. (B!Unstopped => B!WatchersOwn)'
    BY <1>5 DEF B!GiveUp, B!Shape, B!CallSteps, B!OneStarting, B!ClosedFirst,
       B!EntryLives, B!Unstopped, B!WatchersOwn
  <2> QED BY <2>1, <2>2, <2>3, <2>4, <2>5, <2>6, <2>7, Zenon
<1>6. CASE c \in Stoppers /\ B!StopPluginEnvironment(c)
  <2>1. B!Shape'
    BY <1>6, Zenon DEF B!StopPluginEnvironment, B!Shape, B!CallSteps, B!EntryStates, B!Downs
  <2>2. B!InRunner'
    BY <1>6
       DEF B!StopPluginEnvironment, B!Shape, B!CallSteps, B!EntryStates, B!Downs,
           B!InRunner
  <2>3. B!OneStarting'
    BY <1>6, Zenon DEF B!StopPluginEnvironment, B!Shape, B!CallSteps, B!OneStarting
  <2>4. (B!ClosedFirst /\ B!ShutdownForgets)'
    BY <1>6, Zenon
       DEF B!StopPluginEnvironment, B!Shape, B!Downs, B!ClosedFirst, B!ShutdownForgets
  <2>5. B!EntryLives'
    BY <1>6 DEF B!StopPluginEnvironment, B!Shape, B!EntryStates, B!EntryLives
  <2>6. B!InManager'
    BY <1>6 DEF B!StopPluginEnvironment, B!Shape, B!CallSteps, B!Downs, B!OneStarting,
       B!ClosedFirst, B!InManager
  <2>7. (B!Unstopped => B!WatchersOwn)'
    BY <1>6 DEF B!StopPluginEnvironment, B!Shape, B!CallSteps, B!OneStarting, B!ClosedFirst,
       B!EntryLives, B!Unstopped, B!WatchersOwn
  <2> QED BY <2>1, <2>2, <2>3, <2>4, <2>5, <2>6, <2>7, Zenon
<1> QED BY <1>1, <1>2, <1>3, <1>4, <1>5, <1>6, Zenon DEF B!StopStep

\* So does Shutdown, which closes the manager, waits for the Start in flight and stops
\* what it left.
LEMMA ShutdownKeeps ==
  ASSUME B!ManagerConstants, B!ManagerInv, B!Shutdown \/ B!ShutdownStep
  PROVE B!ManagerInv'
<1> Starters \subseteq B!Calls
  BY Zenon DEF B!Calls
<1> USE DEF B!ManagerConstants, B!ManagerInv, B!Entries
<1>1. CASE B!Shutdown
  <2>1. B!Shape'
    <3>1. down' \in B!Downs
      BY <1>1 DEF B!Shutdown, B!ClosedFirst, B!OneStarting, B!Downs
    <3> QED BY <1>1, <3>1, Zenon DEF B!Shutdown, B!Shape
  <2>2. B!InRunner'
    BY <1>1 DEF B!Shutdown, B!Shape, B!CallSteps, B!EntryStates, B!Downs, B!InRunner
  <2>3. B!OneStarting'
    BY <1>1, Zenon DEF B!Shutdown, B!Shape, B!CallSteps, B!OneStarting
  <2>4. (B!ClosedFirst /\ B!ShutdownForgets)'
    <3>1. session => starting = NoOne
      BY Zenon DEF B!OneStarting
    <3>2. down'.pc = "await" /\ down'.session = session
      BY <1>1 DEF B!Shutdown
    <3> QED BY <1>1, <3>1, <3>2 DEF B!Shutdown, B!ClosedFirst, B!ShutdownForgets
  <2>5. B!EntryLives'
    BY <1>1 DEF B!Shutdown, B!Shape, B!EntryStates, B!EntryLives
  <2>6. B!InManager'
    BY <1>1 DEF B!Shutdown, B!Shape, B!CallSteps, B!Downs, B!OneStarting,
       B!ClosedFirst, B!InManager
  <2>7. (B!Unstopped => B!WatchersOwn)'
    BY <1>1 DEF B!Shutdown, B!Shape, B!CallSteps, B!OneStarting, B!ClosedFirst,
       B!EntryLives, B!Unstopped, B!WatchersOwn
  <2> QED BY <2>1, <2>2, <2>3, <2>4, <2>5, <2>6, <2>7, Zenon
<1>2. CASE B!ShutdownAwait
  <2>1. B!Shape'
    BY <1>2, Zenon DEF B!ShutdownAwait, B!Shape, B!CallSteps, B!EntryStates, B!Downs
  <2>2. B!InRunner'
    BY <1>2 DEF B!ShutdownAwait, B!Shape, B!CallSteps, B!EntryStates, B!Downs, B!InRunner
  <2>3. B!OneStarting'
    BY <1>2, Zenon DEF B!ShutdownAwait, B!Shape, B!CallSteps, B!OneStarting
  <2>4. (B!ClosedFirst /\ B!ShutdownForgets)'
    BY <1>2, Zenon DEF B!ShutdownAwait, B!Shape, B!Downs, B!ClosedFirst, B!ShutdownForgets
  <2>5. B!EntryLives'
    BY <1>2 DEF B!ShutdownAwait, B!Shape, B!EntryStates, B!EntryLives
  <2>6. B!InManager'
    BY <1>2 DEF B!ShutdownAwait, B!Shape, B!CallSteps, B!Downs, B!OneStarting,
       B!ClosedFirst, B!InManager
  <2>7. (B!Unstopped => B!WatchersOwn)'
    BY <1>2 DEF B!ShutdownAwait, B!Shape, B!CallSteps, B!OneStarting, B!ClosedFirst,
       B!EntryLives, B!Unstopped, B!WatchersOwn
  <2> QED BY <2>1, <2>2, <2>3, <2>4, <2>5, <2>6, <2>7, Zenon
<1>3. CASE B!ShutdownTake
  <2>1. B!Shape'
    <3>1. down' \in B!Downs
      BY <1>3, Zenon DEF B!ShutdownTake, B!Shape, B!CallSteps, B!EntryStates, B!Downs
    <3> QED BY <1>3, <3>1 DEF B!ShutdownTake, B!Shape, B!CallSteps, B!EntryStates, B!Downs
  <2>2. B!InRunner'
    BY <1>3 DEF B!ShutdownTake, B!Shape, B!CallSteps, B!EntryStates, B!Downs, B!InRunner
  <2>3. B!OneStarting'
    BY <1>3, Zenon DEF B!ShutdownTake, B!Shape, B!CallSteps, B!OneStarting
  <2>4. (B!ClosedFirst /\ B!ShutdownForgets)'
    BY <1>3, Zenon DEF B!ShutdownTake, B!Shape, B!Downs, B!ClosedFirst, B!ShutdownForgets
  <2>5. B!EntryLives'
    BY <1>3 DEF B!ShutdownTake, B!Shape, B!EntryStates, B!EntryLives
  <2>6. B!InManager'
    BY <1>3 DEF B!ShutdownTake, B!Shape, B!CallSteps, B!Downs, B!OneStarting,
       B!ClosedFirst, B!InManager
  <2>7. (B!Unstopped => B!WatchersOwn)'
    BY <1>3 DEF B!ShutdownTake, B!Shape, B!CallSteps, B!OneStarting, B!ClosedFirst,
       B!EntryLives, B!Unstopped, B!WatchersOwn
  <2> QED BY <2>1, <2>2, <2>3, <2>4, <2>5, <2>6, <2>7, Zenon
<1>4. CASE B!ShutdownCancel
  <2>1. B!Shape'
    <3>1. down' \in B!Downs
      BY <1>4, Zenon
         DEF B!ShutdownCancel, B!Canceled, B!Shape, B!CallSteps, B!EntryStates, B!Downs
    <3>2. state' \in [B!Entries -> B!EntryStates]
      BY <1>4, ZenonT(40)
         DEF B!ShutdownCancel, B!Canceled, B!Shape, B!CallSteps, B!EntryStates, B!Downs
    <3> QED BY <1>4, <3>1, <3>2, Zenon
               DEF B!ShutdownCancel, B!Canceled, B!Shape, B!CallSteps, B!EntryStates,
                   B!Downs
  <2>2. B!InRunner'
    BY <1>4
       DEF B!ShutdownCancel, B!Canceled, B!Shape, B!CallSteps, B!EntryStates, B!Downs,
           B!InRunner
  <2>3. B!OneStarting'
    BY <1>4, Zenon DEF B!ShutdownCancel, B!Canceled, B!Shape, B!CallSteps, B!OneStarting
  <2>4. (B!ClosedFirst /\ B!ShutdownForgets)'
    BY <1>4
       DEF B!ShutdownCancel, B!Canceled, B!Shape, B!Downs, B!ClosedFirst,
           B!ShutdownForgets
  <2>5. B!EntryLives'
    BY <1>4 DEF B!ShutdownCancel, B!Canceled, B!Shape, B!EntryStates, B!EntryLives
  <2>6. B!InManager'
    BY <1>4 DEF B!ShutdownCancel, B!Canceled, B!Shape, B!CallSteps, B!Downs, B!OneStarting,
       B!ClosedFirst, B!InManager
  <2>7. (B!Unstopped => B!WatchersOwn)'
    BY <1>4 DEF B!ShutdownCancel, B!Canceled, B!Shape, B!CallSteps, B!OneStarting, B!ClosedFirst,
       B!EntryLives, B!Unstopped, B!WatchersOwn
  <2> QED BY <2>1, <2>2, <2>3, <2>4, <2>5, <2>6, <2>7, Zenon
<1>5. CASE B!ShutdownJoin
  <2>1. B!Shape'
    BY <1>5, Zenon DEF B!ShutdownJoin, B!Shape, B!CallSteps, B!EntryStates, B!Downs
  <2>2. B!InRunner'
    BY <1>5 DEF B!ShutdownJoin, B!Shape, B!CallSteps, B!EntryStates, B!Downs, B!InRunner
  <2>3. B!OneStarting'
    BY <1>5, Zenon DEF B!ShutdownJoin, B!Shape, B!CallSteps, B!OneStarting
  <2>4. (B!ClosedFirst /\ B!ShutdownForgets)'
    BY <1>5, Zenon DEF B!ShutdownJoin, B!Shape, B!Downs, B!ClosedFirst, B!ShutdownForgets
  <2>5. B!EntryLives'
    BY <1>5 DEF B!ShutdownJoin, B!Shape, B!EntryStates, B!EntryLives
  <2>6. B!InManager'
    BY <1>5 DEF B!ShutdownJoin, B!Shape, B!CallSteps, B!Downs, B!OneStarting,
       B!ClosedFirst, B!InManager
  <2>7. (B!Unstopped => B!WatchersOwn)'
    BY <1>5 DEF B!ShutdownJoin, B!Shape, B!CallSteps, B!OneStarting, B!ClosedFirst,
       B!EntryLives, B!Unstopped, B!WatchersOwn
  <2> QED BY <2>1, <2>2, <2>3, <2>4, <2>5, <2>6, <2>7, Zenon
<1>6. CASE B!ShutdownClear
  <2>1. B!Shape'
    BY <1>6, Zenon DEF B!ShutdownClear, B!Shape, B!CallSteps, B!EntryStates, B!Downs
  <2>2. B!InRunner'
    BY <1>6 DEF B!ShutdownClear, B!Shape, B!CallSteps, B!EntryStates, B!Downs, B!InRunner
  <2>3. B!OneStarting'
    BY <1>6, Zenon DEF B!ShutdownClear, B!Shape, B!CallSteps, B!OneStarting
  <2>4. (B!ClosedFirst /\ B!ShutdownForgets)'
    BY <1>6 DEF B!ShutdownClear, B!Shape, B!Downs, B!ClosedFirst, B!ShutdownForgets
  <2>5. B!EntryLives'
    BY <1>6 DEF B!ShutdownClear, B!Shape, B!EntryStates, B!EntryLives
  <2>6. B!InManager'
    BY <1>6 DEF B!ShutdownClear, B!Shape, B!CallSteps, B!Downs, B!OneStarting,
       B!ClosedFirst, B!InManager
  <2>7. (B!Unstopped => B!WatchersOwn)'
    BY <1>6 DEF B!ShutdownClear, B!Shape, B!CallSteps, B!OneStarting, B!ClosedFirst,
       B!EntryLives, B!Unstopped, B!WatchersOwn
  <2> QED BY <2>1, <2>2, <2>3, <2>4, <2>5, <2>6, <2>7, Zenon
<1> QED BY <1>1, <1>2, <1>3, <1>4, <1>5, <1>6, Zenon DEF B!ShutdownStep

\* The inductive invariant of the background manager, for any number of Start and Stop
\* calls and invocations.
THEOREM ManagerInvariant == B!ManagerConstants /\ B!Spec => []B!ManagerInv
<1> SUFFICES ASSUME B!ManagerConstants PROVE B!Spec => []B!ManagerInv
  BY Zenon
<1> USE DEF B!ManagerConstants, B!ManagerInv, B!Entries
<1>1. ASSUME B!Init PROVE B!ManagerInv
  <2>1. down \in B!Downs
    BY <1>1 DEF B!Init, B!Downs
  <2>2. B!Shape
    BY <1>1, <2>1 DEF B!Init, B!Shape, B!CallSteps, B!EntryStates
  <2>3. B!OneStarting
    BY <1>1, Zenon DEF B!Init, B!Calls, B!OneStarting
  <2>4. B!InRunner
    BY <1>1, Zenon DEF B!Init, B!InRunner
  <2>5. B!EntryLives /\ B!InManager
    BY <1>1 DEF B!Init, B!EntryLives, B!InManager
  <2>6. B!WatchersOwn
    BY <1>1 DEF B!Init, B!Calls, B!WatchersOwn
  <2> QED BY <1>1, <2>2, <2>3, <2>4, <2>5, <2>6, Zenon
             DEF B!Init, B!ClosedFirst, B!ShutdownForgets
<1>2. ASSUME B!ManagerInv, NEW e \in B!Entries, B!Complete(e) PROVE B!ManagerInv'
  <2>1. B!Shape'
    BY <1>2 DEF B!Complete, B!Shape, B!CallSteps, B!EntryStates, B!Downs
  <2>2. B!InRunner'
    BY <1>2 DEF B!Complete, B!Shape, B!CallSteps, B!EntryStates, B!Downs, B!InRunner
  <2>3. B!OneStarting'
    BY <1>2, Zenon DEF B!Complete, B!Shape, B!CallSteps, B!OneStarting
  <2>4. (B!ClosedFirst /\ B!ShutdownForgets)'
    BY <1>2, Zenon DEF B!Complete, B!Shape, B!Downs, B!ClosedFirst, B!ShutdownForgets
  <2>5. B!EntryLives'
    BY <1>2 DEF B!Complete, B!Shape, B!EntryStates, B!EntryLives
  <2>6. B!InManager'
    BY <1>2 DEF B!Complete, B!Shape, B!CallSteps, B!Downs, B!OneStarting,
       B!ClosedFirst, B!InManager
  <2>7. (B!Unstopped => B!WatchersOwn)'
    BY <1>2 DEF B!Complete, B!Shape, B!CallSteps, B!OneStarting, B!ClosedFirst,
       B!EntryLives, B!Unstopped, B!WatchersOwn
  <2> QED BY <2>1, <2>2, <2>3, <2>4, <2>5, <2>6, <2>7, Zenon
<1>3. ASSUME B!ManagerInv, NEW e \in 0..MaxWorkers, B!WatchCompletion(e) PROVE B!ManagerInv'
  <2>1. B!Shape'
    <3>1. orphaned' \subseteq B!Entries /\ watch' \in [0..MaxWorkers -> Nat]
      BY <1>3 DEF B!WatchCompletion, B!Forget, B!Shape
    <3> QED BY <1>3, <3>1, Zenon DEF B!WatchCompletion, B!Forget, B!Shape
  <2>2. B!InRunner'
    BY <1>3
       DEF B!WatchCompletion, B!Shape, B!CallSteps, B!EntryStates, B!Downs, B!InRunner
  <2>3. B!OneStarting'
    BY <1>3, Zenon DEF B!WatchCompletion, B!Forget, B!Shape, B!CallSteps, B!OneStarting
  <2>4. (B!ClosedFirst /\ B!ShutdownForgets)'
    BY <1>3 DEF B!WatchCompletion, B!Forget, B!ClosedFirst, B!ShutdownForgets
  <2>5. B!EntryLives'
    BY <1>3 DEF B!WatchCompletion, B!Forget, B!Over, B!Shape, B!EntryStates, B!EntryLives
  <2>6. B!InManager'
    BY <1>3 DEF B!WatchCompletion, B!Forget, B!Over, B!Shape, B!CallSteps, B!Downs, B!OneStarting,
       B!ClosedFirst, B!InManager
  <2>7. (B!Unstopped => B!WatchersOwn)'
    BY <1>3 DEF B!WatchCompletion, B!Forget, B!Over, B!Shape, B!CallSteps, B!OneStarting, B!ClosedFirst,
       B!EntryLives, B!Unstopped, B!WatchersOwn
  <2> QED BY <2>1, <2>2, <2>3, <2>4, <2>5, <2>6, <2>7, Zenon
<1>4. ASSUME B!ManagerInv, UNCHANGED B!vars PROVE B!ManagerInv'
  <2>1. B!Shape'
    BY <1>4, Zenon
       DEF B!vars, B!Shape, B!OneStarting, B!ClosedFirst, B!ShutdownForgets,
           B!CallSteps, B!EntryStates, B!Downs
  <2>2. B!InRunner'
    BY <1>4, Zenon DEF B!vars, B!InRunner, B!Shape
  <2>3. B!OneStarting'
    BY <1>4, Zenon
       DEF B!vars, B!Shape, B!OneStarting, B!ClosedFirst, B!ShutdownForgets,
           B!CallSteps
  <2>4. (B!ClosedFirst /\ B!ShutdownForgets)'
    BY <1>4, Zenon
       DEF B!vars, B!Shape, B!OneStarting, B!ClosedFirst, B!ShutdownForgets,
           B!Downs
  <2>5. B!EntryLives'
    BY <1>4 DEF B!vars, B!Shape, B!EntryStates, B!EntryLives
  <2>6. B!InManager'
    BY <1>4 DEF B!vars, B!Shape, B!CallSteps, B!Downs, B!OneStarting,
       B!ClosedFirst, B!InManager
  <2>7. (B!Unstopped => B!WatchersOwn)'
    BY <1>4 DEF B!vars, B!Shape, B!CallSteps, B!OneStarting, B!ClosedFirst,
       B!EntryLives, B!Unstopped, B!WatchersOwn
  <2> QED BY <2>1, <2>2, <2>3, <2>4, <2>5, <2>6, <2>7, Zenon
<1>5. B!ManagerInv /\ [B!Next]_(B!vars) => B!ManagerInv'
  BY <1>2, <1>3, <1>4, StartKeeps, StopKeeps, ShutdownKeeps, Zenon DEF B!Next, B!Calls
<1> QED BY <1>1, <1>5, PTL DEF B!Spec

\* An invocation nobody has cancelled is in the runner, and in manager.sessions, where a
\* Stop and Shutdown look for it, or its own Start or the Shutdown is about to add or
\* stop it; the one exception, an invocation whose session a watcher or a Stop of its
\* predecessor forgot, takes a Stop.  One Start of a worker is in the runner at a time;
\* after Shutdown has returned no session is left or added (Manager.Start, Stop,
\* Shutdown, watchCompletion).
THEOREM ManagerKeepsWorkersStoppable ==
  B!ManagerConstants /\ B!Spec => [](B!Stoppable /\ B!OneAttempt /\ B!ShutdownForgets)
<1>1. B!ManagerInv => B!Stoppable
  BY Zenon DEF B!ManagerInv, B!Stoppable, B!OrphansNeedStop, B!Unstopped, B!WatchersOwn
<1>2. B!ManagerInv => B!OneAttempt /\ B!ShutdownForgets
  BY Zenon DEF B!ManagerInv, B!OneStarting, B!OneAttempt
<1> QED BY <1>1, <1>2, ManagerInvariant, PTL

HIDE DEF B!Manager, B!Runner
=============================================================================
