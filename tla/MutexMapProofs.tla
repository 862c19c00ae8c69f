--------------------------- MODULE MutexMapProofs ---------------------------
(***************************************************************************)
(* Proofs about Mutex_Map for every set of threads, keys and elements.     *)
(*                                                                         *)
(* None of the properties is inductive alone.  The counter agrees with the *)
(* holders (ReadersCountHolders) only if nobody closes what it does not    *)
(* hold; a handle is safe only if the element it points to is either still *)
(* in the map or in the hands of the one thread that destroys its key; and *)
(* that thread may delete only because the counter it reads is the number  *)
(* of holders.  IInv ties the three together.                              *)
(***************************************************************************)
EXTENDS MutexMap, FiniteSetTheorems, TLAPS

\* What the map stores: nothing under absent keys, live and distinct elements
\* under the others.
MapShape ==
    /\ \A k \in Keys : k \notin keys => rdElement[k] = nullptr /\ readers[k] = 0
    /\ \A k \in Keys : rdElement[k] # nullptr => rdElement[k] \in allocated
    /\ \A j, k \in Keys :
          rdElement[j] = rdElement[k] /\ rdElement[j] # nullptr => j = k

\* What a thread inside destroyElement owns.
Destroyers ==
    /\ \A t \in Threads : destroying[t] # NoKey <=> inside[t] = "destroyElement"
    /\ \A t \in Threads : destroying[t] # NoKey =>
          /\ destroying[t] \in keys
          /\ rdElement[destroying[t]] = nullptr
          /\ delElement[t] \in allocated
    /\ \A t, u \in Threads :
          destroying[t] # NoKey /\ destroying[t] = destroying[u] => t = u
    /\ \A t, u \in Threads :
          /\ destroying[t] # NoKey
          /\ destroying[u] # NoKey
          /\ delElement[t] = delElement[u]
          => t = u
    /\ \A t \in Threads, k \in Keys :
          destroying[t] # NoKey => delElement[t] # rdElement[k]

\* A thread sleeps on cond_zeroReaders of the key it destroys, while it has readers.
Sleepers ==
    \A k \in Keys : \A t \in zeroReadersWaiters[k] :
        destroying[t] = k /\ readers[k] # 0

\* A handle points to the key's element or to what the key's destroyer will delete.
HandlesLive ==
    \A k \in Keys, t \in Threads :
        handle[k][t] # nullptr =>
            \/ handle[k][t] = rdElement[k]
            \/ \E u \in Threads : destroying[u] = k /\ handle[k][t] = delElement[u]

IInv ==
    /\ TypeOK
    /\ ReadersCountHolders
    /\ MapShape
    /\ Destroyers
    /\ Sleepers
    /\ HandlesLive

-----------------------------------------------------------------------------

\* The holders of a key are finitely many.
LEMMA HoldersFinite ==
    ASSUME NEW k \in Keys
    PROVE  IsFiniteSet(Holders(k)) /\ Cardinality(Holders(k)) \in Nat
<1>1. Holders(k) \subseteq Threads
    BY DEF Holders
<1>2. IsFiniteSet(Holders(k))
    BY <1>1, FS_Subset, MutexMapAssumption
<1> QED
    BY <1>2, FS_CardinalityType

\* A key has readers exactly when somebody holds it.
LEMMA ZeroReaders ==
    ASSUME TypeOK, ReadersCountHolders, NEW k \in Keys
    PROVE  readers[k] = 0 <=> \A t \in Threads : handle[k][t] = nullptr
<1>1. readers[k] = 0 <=> Holders(k) = {}
    BY HoldersFinite, FS_EmptySet DEF ReadersCountHolders
<1> QED
    BY <1>1 DEF Holders

\* What notify_one leaves of a wait set.
LEMMA NotifyOneSubset ==
    ASSUME NEW ws, NEW vs \in NotifyOne(ws)
    PROVE  /\ vs \subseteq ws
           /\ ws # {} => \E w \in ws : vs = ws \ {w}
BY DEF NotifyOne

-----------------------------------------------------------------------------

\* An empty map satisfies the invariant.
LEMMA InitIInv == Init => IInv
<1> SUFFICES ASSUME Init PROVE IInv
    OBVIOUS
<1>1. TypeOK
    BY DEF Init, TypeOK
<1>2. ReadersCountHolders
  <2>1. \A k \in Keys : Holders(k) = {}
    BY DEF Init, Holders
  <2> QED
    BY <2>1, FS_EmptySet DEF Init, ReadersCountHolders
<1>3. MapShape /\ Destroyers /\ Sleepers /\ HandlesLive
    BY DEF Init, MapShape, Destroyers, Sleepers, HandlesLive
<1> QED
    BY <1>1, <1>2, <1>3 DEF IInv

\* A step that leaves readers and handles alone leaves the count right.
LEMMA CountUnchanged ==
    ASSUME ReadersCountHolders, UNCHANGED <<readers, handle>>
    PROVE  ReadersCountHolders'
<1>1. \A k \in Keys : Holders(k)' = Holders(k)
    BY DEF Holders
<1> QED
    BY <1>1 DEF ReadersCountHolders

\* addElement puts an element that is nowhere else under a free key.
LEMMA AddElementIInv ==
    ASSUME IInv, NEW t \in Threads, NEW k \in Keys, NEW e \in Elements,
           AddElement(t, k, e)
    PROVE  IInv'
<1> USE DEF IInv
<1>1. TypeOK'
    BY DEF AddElement, Absent, TypeOK
<1>2. ReadersCountHolders'
    BY CountUnchanged DEF AddElement, Absent
<1>3. MapShape'
    BY MutexMapAssumption DEF AddElement, Absent, TypeOK, MapShape
<1>4. Destroyers'
    BY MutexMapAssumption DEF AddElement, Absent, TypeOK, MapShape, Destroyers
<1>5. Sleepers'
    BY DEF AddElement, Absent, TypeOK, Sleepers
<1>6. HandlesLive'
    BY DEF AddElement, Absent, TypeOK, MapShape, Destroyers, HandlesLive
<1> QED
    BY <1>1, <1>2, <1>3, <1>4, <1>5, <1>6

\* openElement makes its thread one more holder of the element that is counted.
LEMMA OpenIInv ==
    ASSUME IInv, NEW t \in Threads, NEW k \in Keys, Open(t, k)
    PROVE  IInv'
<1> USE DEF IInv, Open, OpenElement, Openable
<1>1. TypeOK'
    BY DEF TypeOK
<1>2. ReadersCountHolders'
  <2> SUFFICES ASSUME NEW j \in Keys
               PROVE  readers'[j] = Cardinality(Holders(j)')
    BY DEF ReadersCountHolders
  <2>1. CASE j = k
    <3>1. Holders(k)' = Holders(k) \cup {t} /\ t \notin Holders(k)
      BY DEF Holders, TypeOK
    <3>2. readers'[k] = readers[k] + 1
      BY DEF TypeOK
    <3> QED
      BY <2>1, <3>1, <3>2, HoldersFinite, FS_AddElement DEF ReadersCountHolders
  <2>2. CASE j # k
    <3>1. Holders(j)' = Holders(j) /\ readers'[j] = readers[j]
      BY <2>2 DEF Holders, TypeOK
    <3> QED
      BY <3>1 DEF ReadersCountHolders
  <2> QED
    BY <2>1, <2>2
<1>3. MapShape'
    BY DEF TypeOK, MapShape
<1>4. Destroyers'
    BY DEF TypeOK, Destroyers
<1>5. Sleepers'
    BY DEF TypeOK, Sleepers, Destroyers
<1>6. HandlesLive'
    BY DEF TypeOK, HandlesLive
<1> QED
    BY <1>1, <1>2, <1>3, <1>4, <1>5, <1>6

\* closeElement makes it one less, and wakes the destroyer with the last.
LEMMA CloseIInv ==
    ASSUME IInv, NEW t \in Threads, NEW k \in Keys, Close(t, k)
    PROVE  IInv'
<1> USE DEF IInv, Close, CloseElement, DropReader
<1>0. zeroReadersWaiters' \in [Keys -> SUBSET Threads]
      /\ \A j \in Keys : zeroReadersWaiters'[j] \subseteq zeroReadersWaiters[j]
  <2>1. CASE readers'[k] = 0
    <3>1. PICK ws \in NotifyOne(zeroReadersWaiters[k]) :
              zeroReadersWaiters' = [zeroReadersWaiters EXCEPT ![k] = ws]
      BY <2>1
    <3>2. ws \subseteq zeroReadersWaiters[k]
      BY NotifyOneSubset
    <3> QED
      BY <3>1, <3>2 DEF TypeOK
  <2>2. CASE readers'[k] # 0
    BY <2>2 DEF TypeOK
  <2> QED
    BY <2>1, <2>2
<1>1. TypeOK'
  <2>1. readers' \in [Keys -> Nat]
    <3>1. readers[k] \in Nat /\ readers[k] # 0
      BY DEF TypeOK
    <3>2. readers[k] - 1 \in Nat
      BY <3>1
    <3> QED
      BY <3>2 DEF TypeOK
  <2>2. handle' \in [Keys -> [Threads -> Elements \cup {nullptr}]]
    BY DEF TypeOK
  <2> QED
    BY <1>0, <2>1, <2>2 DEF TypeOK
<1>2. ReadersCountHolders'
  <2> SUFFICES ASSUME NEW j \in Keys
               PROVE  readers'[j] = Cardinality(Holders(j)')
    BY DEF ReadersCountHolders
  <2>1. CASE j = k
    <3>1. Holders(k)' = Holders(k) \ {t} /\ t \in Holders(k)
      BY DEF Holders, TypeOK
    <3>2. readers'[k] = readers[k] - 1
      BY DEF TypeOK
    <3> QED
      BY <2>1, <3>1, <3>2, HoldersFinite, FS_RemoveElement DEF ReadersCountHolders
  <2>2. CASE j # k
    <3>1. Holders(j)' = Holders(j) /\ readers'[j] = readers[j]
      BY <2>2 DEF Holders, TypeOK
    <3> QED
      BY <3>1 DEF ReadersCountHolders
  <2> QED
    BY <2>1, <2>2
<1>3. MapShape'
    BY DEF TypeOK, MapShape
<1>4. Destroyers'
    BY DEF TypeOK, Destroyers
<1>5. Sleepers'
  <2> SUFFICES ASSUME NEW j \in Keys, NEW u \in zeroReadersWaiters'[j]
               PROVE  destroying'[u] = j /\ readers'[j] # 0
    BY DEF Sleepers
  <2>1. destroying[u] = j /\ readers[j] # 0 /\ u \in zeroReadersWaiters[j] /\ u \in Threads
    BY <1>0 DEF Sleepers, TypeOK
  <2>2. CASE j = k /\ readers'[k] = 0
    <3>1. PICK ws \in NotifyOne(zeroReadersWaiters[k]) :
              zeroReadersWaiters' = [zeroReadersWaiters EXCEPT ![k] = ws]
      BY <2>2
    <3>2. PICK w \in zeroReadersWaiters[k] : ws = zeroReadersWaiters[k] \ {w}
      BY <2>1, <2>2, NotifyOneSubset
    <3>3. w \in Threads /\ destroying[w] = k
      BY DEF Sleepers, TypeOK
    <3>4. w = u
      BY <2>1, <2>2, <3>3, MutexMapAssumption DEF Destroyers
    <3>5. u \notin zeroReadersWaiters'[k]
      BY <3>1, <3>2, <3>4 DEF TypeOK
    <3> QED
      BY <3>5, <2>2
  <2>3. CASE ~(j = k /\ readers'[k] = 0)
    BY <2>1, <2>3 DEF TypeOK
  <2> QED
    BY <2>2, <2>3
<1>6. HandlesLive'
    BY DEF TypeOK, HandlesLive
<1> QED
    BY <1>1, <1>2, <1>3, <1>4, <1>5, <1>6

\* destroyElement deletes at once what nobody holds.
LEMMA DestroyNowIInv ==
    ASSUME IInv, NEW t \in Threads, NEW k \in Keys, DestroyElementNow(t, k)
    PROVE  IInv'
<1> USE DEF IInv, DestroyElementNow, DeleteAndErase, NotifyIfEmpty, Openable
<1>0. zeroMapsWaiters' \subseteq Threads
    BY NotifyOneSubset DEF TypeOK
<1>1. TypeOK'
    BY <1>0 DEF TypeOK
<1>2. ReadersCountHolders'
    BY CountUnchanged
<1>3. MapShape'
    BY DEF TypeOK, MapShape
<1>4. Destroyers'
    BY MutexMapAssumption DEF TypeOK, MapShape, Destroyers
<1>5. Sleepers'
    BY DEF Sleepers
<1>6. HandlesLive'
    BY ZeroReaders DEF TypeOK, HandlesLive
<1> QED
    BY <1>1, <1>2, <1>3, <1>4, <1>5, <1>6

\* With holders it takes the element out of the map and sleeps.
LEMMA DestroyWaitIInv ==
    ASSUME IInv, NEW t \in Threads, NEW k \in Keys, DestroyElementWait(t, k)
    PROVE  IInv'
<1> USE DEF IInv, DestroyElementWait, Unpublish, Openable
<1>0. destroying[t] = NoKey /\ k # NoKey
    BY MutexMapAssumption DEF Destroyers
<1>1. TypeOK'
    BY DEF TypeOK
<1>2. ReadersCountHolders'
    BY CountUnchanged
<1>3. MapShape'
    BY DEF TypeOK, MapShape
<1>4. Destroyers'
    BY <1>0 DEF TypeOK, MapShape, Destroyers
<1>5. Sleepers'
    BY <1>0, MutexMapAssumption DEF TypeOK, Sleepers
<1>6. HandlesLive'
    BY <1>0, MutexMapAssumption DEF TypeOK, Destroyers, HandlesLive
<1> QED
    BY <1>1, <1>2, <1>3, <1>4, <1>5, <1>6

\* A destroyer that is woken too early sleeps again.
LEMMA DestroyWaitAgainIInv ==
    ASSUME IInv, NEW t \in Threads, DestroyElementWaitAgain(t)
    PROVE  IInv'
<1> USE DEF IInv, DestroyElementWaitAgain, WokenInDestroy
<1>0. destroying[t] \in Keys /\ delElement[t] \in Elements
    BY DEF TypeOK, Destroyers
<1>1. TypeOK'
    BY <1>0 DEF TypeOK
<1>2. ReadersCountHolders'
    BY CountUnchanged
<1>3. MapShape'
    BY DEF MapShape
<1>4. Destroyers'
    BY DEF Destroyers
<1>5. Sleepers'
    BY <1>0 DEF TypeOK, Sleepers
<1>6. HandlesLive'
    BY DEF HandlesLive
<1> QED
    BY <1>1, <1>2, <1>3, <1>4, <1>5, <1>6

\* The last holder is gone: the destroyer deletes the element it alone knows.
LEMMA DestroyFinishIInv ==
    ASSUME IInv, NEW t \in Threads, DestroyElementFinish(t)
    PROVE  IInv'
<1> USE DEF IInv, DestroyElementFinish, WokenInDestroy, DeleteAndReturn, DeleteAndErase, NotifyIfEmpty
<1>0. destroying[t] \in Keys /\ destroying[t] # NoKey
    BY MutexMapAssumption DEF TypeOK, Destroyers
<1>1. TypeOK'
  <2>1. zeroMapsWaiters' \subseteq Threads
    BY NotifyOneSubset DEF TypeOK
  <2> QED
    BY <2>1, <1>0 DEF TypeOK
<1>2. ReadersCountHolders'
    BY CountUnchanged
<1>3. MapShape'
    BY <1>0 DEF TypeOK, MapShape, Destroyers
<1>4. Destroyers'
    BY <1>0 DEF TypeOK, MapShape, Destroyers
<1>5. Sleepers'
  <2> SUFFICES ASSUME NEW j \in Keys, NEW u \in zeroReadersWaiters[j]
               PROVE  destroying'[u] = j /\ readers[j] # 0
    BY DEF Sleepers
  <2>1. destroying[u] = j /\ readers[j] # 0 /\ u \in Threads
    BY DEF Sleepers, TypeOK
  <2>2. u # t
    BY <2>1
  <2> QED
    BY <2>1, <2>2 DEF TypeOK
<1>6. HandlesLive'
    BY <1>0, ZeroReaders DEF TypeOK, HandlesLive, Destroyers
<1> QED
    BY <1>1, <1>2, <1>3, <1>4, <1>5, <1>6

\* waitForEmpty and spurious wake-ups only change who sleeps.
LEMMA WaitingIInv ==
    ASSUME IInv, NEW t \in Threads,
           WaitForEmpty(t) \/ WaitForEmptyReturn(t) \/ SpuriousWakeup(t)
    PROVE  IInv'
<1> USE DEF IInv
<1>1. CASE WaitForEmpty(t)
    BY <1>1, CountUnchanged
    DEF WaitForEmpty, TypeOK, MapShape, Destroyers, Sleepers, HandlesLive
<1>2. CASE WaitForEmptyReturn(t)
    BY <1>2, CountUnchanged
    DEF WaitForEmptyReturn, TypeOK, MapShape, Destroyers, Sleepers, HandlesLive
<1>3. CASE SpuriousWakeup(t)
  <2>1. /\ zeroReadersWaiters' \in [Keys -> SUBSET Threads]
        /\ \A k \in Keys : zeroReadersWaiters'[k] \subseteq zeroReadersWaiters[k]
    BY <1>3 DEF SpuriousWakeup, TypeOK
  <2>2. TypeOK' /\ ReadersCountHolders'
    BY <1>3, <2>1, CountUnchanged DEF SpuriousWakeup, TypeOK
  <2>3. Sleepers'
    BY <1>3, <2>1 DEF SpuriousWakeup, Sleepers
  <2>4. MapShape' /\ Destroyers' /\ HandlesLive'
    BY <1>3 DEF SpuriousWakeup, MapShape, Destroyers, HandlesLive
  <2> QED
    BY <2>2, <2>3, <2>4
<1> QED
    BY <1>1, <1>2, <1>3

\* Every step of the map keeps the invariant.
LEMMA NextIInv ==
    ASSUME IInv, [Next]_mapVars
    PROVE  IInv'
<1>1. CASE UNCHANGED mapVars
    BY <1>1, CountUnchanged
    DEF IInv, mapVars, TypeOK, MapShape, Destroyers, Sleepers, HandlesLive
<1>2. ASSUME NEW t \in Threads, NEW k \in Keys, NEW e \in Elements, AddElement(t, k, e)
      PROVE  IInv'
    BY <1>2, AddElementIInv
<1>3. ASSUME NEW t \in Threads, NEW k \in Keys, Open(t, k)
      PROVE  IInv'
    BY <1>3, OpenIInv
<1>4. ASSUME NEW t \in Threads, NEW k \in Keys, Close(t, k)
      PROVE  IInv'
    BY <1>4, CloseIInv
<1>5. ASSUME NEW t \in Threads, NEW k \in Keys, Destroy(t, k)
      PROVE  IInv'
    BY <1>5, DestroyNowIInv, DestroyWaitIInv DEF Destroy
<1>6. ASSUME NEW t \in Threads, DestroyResume(t)
      PROVE  IInv'
    BY <1>6, DestroyWaitAgainIInv, DestroyFinishIInv DEF DestroyResume
<1>7. ASSUME NEW t \in Threads,
             Empty(t) \/ WaitForEmptyReturn(t) \/ SpuriousWakeup(t)
      PROVE  IInv'
    BY <1>7, WaitingIInv DEF Empty
<1> QED
    BY <1>1, <1>2, <1>3, <1>4, <1>5, <1>6, <1>7 DEF Next

-----------------------------------------------------------------------------

\* The inductive invariant holds in every reachable state of the map.
THEOREM Invariance == SafeSpec => []IInv
BY InitIInv, NextIInv, PTL DEF SafeSpec

\* The type invariant, for every set of threads, keys and elements.
THEOREM TypeCorrect == SafeSpec => []TypeOK
<1>1. IInv => TypeOK
    BY DEF IInv
<1> QED
    BY <1>1, Invariance, PTL

\* sMapElement::readers is the number of threads that hold the element.
THEOREM ReadersCorrect == SafeSpec => []ReadersCountHolders
<1>1. IInv => ReadersCountHolders
    BY DEF IInv
<1> QED
    BY <1>1, Invariance, PTL

\* destroyElement never deletes an element that a thread has open.
THEOREM HandlesAreSafe == SafeSpec => []NoUseAfterDelete
<1>1. IInv => NoUseAfterDelete
    BY MutexMapAssumption
    DEF IInv, HandlesLive, MapShape, Destroyers, NoUseAfterDelete
<1> QED
    BY <1>1, Invariance, PTL

\* closeElement of an open element neither throws nor fails.
THEOREM CloseIsSafe == SafeSpec => []CloseNeverThrows
<1>1. IInv => CloseNeverThrows
    BY ZeroReaders DEF IInv, MapShape, CloseNeverThrows, TypeOK
<1> QED
    BY <1>1, Invariance, PTL

\* A key has one destroyer, and only it sleeps on the key's condition variable.
THEOREM SingleDestroyer == SafeSpec => []OneDestroyer
<1>1. IInv => OneDestroyer
    BY MutexMapAssumption DEF IInv, Destroyers, Sleepers, OneDestroyer, TypeOK
<1> QED
    BY <1>1, Invariance, PTL

\* All of Safe: the types, the count of the readers, closeElement that neither throws nor fails
\* and one destroyer per key.
THEOREM Safety == SafeSpec => []Safe
<1>1. TypeOK /\ ReadersCountHolders /\ CloseNeverThrows /\ OneDestroyer => Safe
  BY DEF Safe
<1> QED  BY <1>1, TypeCorrect, ReadersCorrect, CloseIsSafe, SingleDestroyer, PTL

\* The wake-up of the last closeElement is never lost.
THEOREM WakeupIsKept == SafeSpec => []NoLostWakeup
<1>1. IInv => NoLostWakeup
    BY ZeroReaders DEF IInv, Sleepers, NoLostWakeup, Holders
<1> QED
    BY <1>1, Invariance, PTL

-----------------------------------------------------------------------------
(* What becomes of an element.  Both invariants of this section rest on     *)
(* IInv: an element belongs to one key or to one destroyer, never to two.   *)

\* stopReaders is only called on elements that cannot be opened any more.
StoppedUnpublished ==
    /\ stopped \subseteq allocated
    /\ \A k \in Keys : rdElement[k] # nullptr => rdElement[k] \notin stopped

\* An element erased together with its key is the only one that key had.
LEMMA EraseLosesNone ==
    ASSUME IInv, NoElementLost, NEW k \in Keys, NEW t \in Threads,
           \/ DestroyElementNow(t, k)
           \/ DestroyElementFinish(t) /\ k = destroying[t]
    PROVE  NoElementLost'
<1> USE DEF IInv, DeleteAndErase, DestroyElementNow, DestroyElementFinish,
            WokenInDestroy, DeleteAndReturn, Openable
<1>1. SUFFICES ASSUME NEW e \in allocated'
               PROVE  \/ \E j \in keys' : rdElement'[j] = e
                      \/ \E u \in Threads : delElement'[u] = e /\ destroying'[u] \in keys'
    BY DEF NoElementLost
<1>2. e \in allocated /\ e # nullptr
    BY MutexMapAssumption DEF TypeOK
<1>3. ASSUME NEW j \in keys, rdElement[j] = e
      PROVE  j \in keys' /\ rdElement'[j] = e
  <2>1. j # k
    BY <1>1, <1>2, <1>3 DEF Destroyers
  <2> QED
    BY <1>3, <2>1 DEF TypeOK
<1>4. ASSUME NEW u \in Threads, delElement[u] = e, destroying[u] \in keys
      PROVE  delElement'[u] = e /\ destroying'[u] \in keys'
  <2>1. CASE DestroyElementNow(t, k)
    <3>1. destroying[u] # k
      BY <1>4, <2>1, MutexMapAssumption DEF Destroyers, TypeOK
    <3> QED
      BY <1>4, <2>1, <3>1
  <2>2. CASE DestroyElementFinish(t) /\ k = destroying[t]
    <3>1. u # t
      BY <1>1, <1>4, <2>2
    <3>2. destroying[u] # k
      BY <1>4, <2>2, <3>1, MutexMapAssumption DEF Destroyers, TypeOK
    <3> QED
      BY <1>4, <2>2, <3>1, <3>2 DEF TypeOK
  <2> QED
    BY <2>1, <2>2
<1> QED
    BY <1>2, <1>3, <1>4 DEF NoElementLost

\* No step loses an element.
LEMMA NextLosesNone ==
    ASSUME IInv, NoElementLost, [Next]_mapVars
    PROVE  NoElementLost'
<1> USE DEF NoElementLost, IInv
<1>1. CASE UNCHANGED mapVars
    BY <1>1 DEF mapVars
<1>2. ASSUME NEW t \in Threads, NEW k \in Keys, NEW e \in Elements, AddElement(t, k, e)
      PROVE  NoElementLost'
  <2>1. \A j \in keys : rdElement'[j] = rdElement[j] /\ j \in keys'
    BY <1>2 DEF AddElement, Absent, TypeOK
  <2>2. k \in keys' /\ rdElement'[k] = e
    BY <1>2 DEF AddElement, TypeOK
  <2> QED
    BY <1>2, <2>1, <2>2 DEF AddElement
<1>3. ASSUME NEW t \in Threads, NEW k \in Keys, Open(t, k) \/ Close(t, k)
      PROVE  NoElementLost'
    BY <1>3 DEF Open, OpenElement, Close, CloseElement
<1>4. ASSUME NEW t \in Threads, NEW k \in Keys, DestroyElementWait(t, k)
      PROVE  NoElementLost'
  <2>1. delElement'[t] = rdElement[k] /\ destroying'[t] = k /\ k \in keys'
    BY <1>4 DEF DestroyElementWait, Openable, TypeOK
  <2>2. \A j \in keys : j # k => rdElement'[j] = rdElement[j]
    BY <1>4 DEF DestroyElementWait, Unpublish, TypeOK
  <2>3. \A u \in Threads : destroying[u] \in keys =>
            delElement'[u] = delElement[u] /\ destroying'[u] = destroying[u]
    BY <1>4, MutexMapAssumption DEF DestroyElementWait, Destroyers, TypeOK
  <2> QED
    BY <1>4, <2>1, <2>2, <2>3 DEF DestroyElementWait
<1>5. ASSUME NEW t \in Threads, NEW k \in Keys, Destroy(t, k)
      PROVE  NoElementLost'
    BY <1>4, <1>5, EraseLosesNone DEF Destroy
<1>6. ASSUME NEW t \in Threads, DestroyResume(t)
      PROVE  NoElementLost'
  <2>1. CASE DestroyElementWaitAgain(t)
    BY <2>1 DEF DestroyElementWaitAgain
  <2>2. CASE DestroyElementFinish(t)
    <3>1. destroying[t] \in Keys
      BY <2>2, MutexMapAssumption DEF DestroyElementFinish, WokenInDestroy, TypeOK, Destroyers
    <3> QED
      BY <2>2, <3>1, EraseLosesNone
  <2> QED
    BY <1>6, <2>1, <2>2 DEF DestroyResume
<1>7. ASSUME NEW t \in Threads,
             Empty(t) \/ WaitForEmptyReturn(t) \/ SpuriousWakeup(t)
      PROVE  NoElementLost'
    BY <1>7 DEF Empty, WaitForEmpty, WaitForEmptyReturn, SpuriousWakeup
<1> QED
    BY <1>1, <1>2, <1>3, <1>5, <1>6, <1>7 DEF Next

\* An allocated element is always in the map or in the hands of the thread that will delete it
\* (addElement, destroyElement): the map does not leak.
THEOREM NothingLeaks == SafeSpec => []NoElementLost
<1>1. Init => NoElementLost
    BY DEF Init, NoElementLost
<1> QED
    BY <1>1, NextLosesNone, Invariance, PTL DEF SafeSpec

\* No step publishes a stopped element or stops a published one.
LEMMA NextStops ==
    ASSUME IInv, StoppedUnpublished, [Next]_mapVars
    PROVE  StoppedUnpublished'
<1> USE DEF StoppedUnpublished, IInv
<1>1. CASE UNCHANGED mapVars
    BY <1>1 DEF mapVars
<1>2. ASSUME NEW t \in Threads, NEW k \in Keys, NEW e \in Elements, AddElement(t, k, e)
      PROVE  StoppedUnpublished'
    BY <1>2 DEF AddElement, TypeOK
<1>3. ASSUME NEW t \in Threads, NEW k \in Keys, Open(t, k) \/ Close(t, k)
      PROVE  StoppedUnpublished'
    BY <1>3 DEF Open, OpenElement, Close, CloseElement
<1>4. ASSUME NEW t \in Threads, NEW k \in Keys, Destroy(t, k)
      PROVE  StoppedUnpublished'
  <2>1. CASE DestroyElementNow(t, k)
    BY <2>1 DEF DestroyElementNow, DeleteAndErase, Openable, MapShape, TypeOK
  <2>2. CASE DestroyElementWait(t, k)
    BY <2>2 DEF DestroyElementWait, Unpublish, Openable, MapShape, TypeOK
  <2> QED
    BY <1>4, <2>1, <2>2 DEF Destroy
<1>5. ASSUME NEW t \in Threads, DestroyResume(t)
      PROVE  StoppedUnpublished'
  <2>1. destroying[t] # NoKey /\ destroying[t] \in Keys
    BY <1>5, MutexMapAssumption
    DEF DestroyResume, DestroyElementWaitAgain, DestroyElementFinish, WokenInDestroy, TypeOK, Destroyers
  <2>2. CASE DestroyElementWaitAgain(t)
    BY <2>1, <2>2 DEF DestroyElementWaitAgain, Destroyers
  <2>3. CASE DestroyElementFinish(t)
    BY <2>1, <2>3 DEF DestroyElementFinish, DeleteAndReturn, DeleteAndErase, Destroyers, TypeOK
  <2> QED
    BY <1>5, <2>2, <2>3 DEF DestroyResume
<1>6. ASSUME NEW t \in Threads,
             Empty(t) \/ WaitForEmptyReturn(t) \/ SpuriousWakeup(t)
      PROVE  StoppedUnpublished'
    BY <1>6 DEF Empty, WaitForEmpty, WaitForEmptyReturn, SpuriousWakeup
<1> QED
    BY <1>1, <1>2, <1>3, <1>4, <1>5, <1>6 DEF Next

\* A thread gets a handle only from openElement, which gives it what is published.
LEMMA NewHandlePublished ==
    ASSUME IInv, [Next]_mapVars, NEW k \in Keys, NEW t \in Threads,
           handle[k][t] = nullptr, handle'[k][t] # nullptr
    PROVE  handle'[k][t] = rdElement[k]
<1> USE DEF IInv
<1>1. ASSUME UNCHANGED handle PROVE FALSE
    BY <1>1
<1>2. ASSUME NEW u \in Threads, NEW j \in Keys, Open(u, j)
      PROVE  handle'[k][t] = rdElement[k]
    BY <1>2 DEF Open, OpenElement, TypeOK
<1>3. ASSUME NEW u \in Threads, NEW j \in Keys, Close(u, j)
      PROVE  FALSE
    BY <1>3 DEF Close, CloseElement, TypeOK
<1> QED
    BY <1>1, <1>2, <1>3
    DEF Next, mapVars, AddElement, Destroy, DestroyElementNow, DestroyElementWait, DestroyResume,
        DestroyElementWaitAgain, DestroyElementFinish, DeleteAndReturn, Empty, WaitForEmpty,
        WaitForEmptyReturn, SpuriousWakeup

\* While destroyElement waits for the readers of an element to leave, nobody joins them
\* (openElement's test of rdElement, destroyElement's rdElement = nullptr).
THEOREM StoppedAreLeft == SafeSpec => StoppedReadersOnlyLeave
<1>1. Init => StoppedUnpublished
    BY DEF Init, StoppedUnpublished
<1>2. IInv /\ StoppedUnpublished /\ [Next]_mapVars
        => [\A k \in Keys, t \in Threads :
              handle[k][t] = nullptr /\ handle'[k][t] # nullptr
                  => handle'[k][t] \notin stopped]_mapVars
  <2> SUFFICES ASSUME IInv, StoppedUnpublished, [Next]_mapVars,
                      NEW k \in Keys, NEW t \in Threads,
                      handle[k][t] = nullptr, handle'[k][t] # nullptr
               PROVE  handle'[k][t] \notin stopped
    OBVIOUS
  <2> QED
    BY NewHandlePublished DEF StoppedUnpublished
<1> QED
    BY <1>1, <1>2, NextStops, Invariance, PTL DEF SafeSpec, StoppedReadersOnlyLeave

-----------------------------------------------------------------------------
(* Mutex_Map implements SafeReclamation: every step of the map is a step of *)
(* the abstract specification under the refinement mapping, or a stutter.   *)

\* The mapping of "retired" when the key has a destroyer, and when it has none.
LEMMA RetiredValue ==
    ASSUME Destroyers, NEW k \in Keys
    PROVE  /\ \A t \in Threads : destroying[t] = k => RetiredUnder(k) = delElement[t]
           /\ (\A t \in Threads : destroying[t] # k) => RetiredUnder(k) = nullptr
<1>1. ASSUME NEW t \in Threads, destroying[t] = k
      PROVE  RetiredUnder(k) = delElement[t]
  <2>1. \A u \in Threads : destroying[u] = k => u = t
    BY <1>1, MutexMapAssumption DEF Destroyers
  <2>2. (CHOOSE u \in Threads : destroying[u] = k) = t
    BY <1>1, <2>1
  <2> QED
    BY <1>1, <2>2 DEF RetiredUnder
<1> QED
    BY <1>1 DEF RetiredUnder

\* A step that leaves every destroyer alone leaves the mapping alone.
LEMMA RetiredUnchanged ==
    ASSUME UNCHANGED <<destroying, delElement>>
    PROVE  [k \in Keys |-> RetiredUnder(k)]' = [k \in Keys |-> RetiredUnder(k)]
BY DEF RetiredUnder

\* Under a key in the map nothing is both published and retired, and an absent
\* key has neither.
LEMMA RetiredShape ==
    ASSUME IInv, NEW k \in Keys
    PROVE  /\ RetiredUnder(k) # nullptr => k \in keys /\ RetiredUnder(k) \in allocated
           /\ \A t \in Threads : destroying[t] = k => RetiredUnder(k) # nullptr
<1>1. ASSUME NEW t \in Threads, destroying[t] = k
      PROVE  RetiredUnder(k) = delElement[t] /\ delElement[t] \in allocated /\ k \in keys
    BY <1>1, RetiredValue, MutexMapAssumption DEF IInv, Destroyers
<1>2. nullptr \notin allocated
    BY MutexMapAssumption DEF IInv, TypeOK
<1> QED
    BY <1>1, <1>2, RetiredValue DEF IInv

\* An empty map is an empty abstract one.
LEMMA InitRefines == Init => Reclamation!Init
BY MutexMapAssumption DEF Init, Reclamation!Init, RetiredUnder

\* addElement publishes.
LEMMA AddRefines ==
    ASSUME IInv, NEW t \in Threads, NEW k \in Keys, NEW e \in Elements,
           AddElement(t, k, e)
    PROVE  Reclamation!Publish(k, e)
<1>1. RetiredUnder(k) = nullptr
    BY RetiredShape DEF AddElement, Absent
<1>2. \A j \in Keys : e # rdElement[j] /\ e # RetiredUnder(j)
    BY RetiredShape, MutexMapAssumption DEF AddElement, Absent, IInv, MapShape
<1>3. [j \in Keys |-> RetiredUnder(j)]' = [j \in Keys |-> RetiredUnder(j)]
    BY RetiredUnchanged DEF AddElement, Absent
<1>4. rdElement[k] = nullptr
    BY DEF AddElement, Absent, IInv, MapShape
<1> QED
    BY <1>1, <1>2, <1>3, <1>4 DEF AddElement, Absent, Reclamation!Publish

\* destroyElement without a wait reclaims.
LEMMA DestroyNowRefines ==
    ASSUME IInv, NEW t \in Threads, NEW k \in Keys, DestroyElementNow(t, k)
    PROVE  Reclamation!Reclaim(k)
<1> USE DEF DestroyElementNow, DeleteAndErase, NotifyIfEmpty, Openable
<1>1. ~Reclamation!InUse(k)
    BY ZeroReaders DEF IInv, Reclamation!InUse
<1>2. RetiredUnder(k) = nullptr
  <2>1. \A u \in Threads : destroying[u] # k
    BY MutexMapAssumption DEF IInv, Destroyers
  <2> QED
    BY <2>1, RetiredValue DEF IInv
<1>3. [j \in Keys |-> RetiredUnder(j)]' = [[j \in Keys |-> RetiredUnder(j)] EXCEPT ![k] = nullptr]
    BY <1>2, RetiredUnchanged
<1> QED
    BY <1>1, <1>3 DEF Reclamation!Reclaim

\* With a wait it retires,
LEMMA DestroyWaitRefines ==
    ASSUME IInv, IInv', NEW t \in Threads, NEW k \in Keys, DestroyElementWait(t, k)
    PROVE  Reclamation!Retire(k)
<1> USE DEF DestroyElementWait, Unpublish, Openable
<1>1. Reclamation!InUse(k)
    BY ZeroReaders DEF IInv, Reclamation!InUse
<1>2. RetiredUnder(k)' = rdElement[k]
  <2>1. destroying'[t] = k /\ delElement'[t] = rdElement[k]
    BY DEF IInv, TypeOK
  <2>2. \A u \in Threads : destroying'[u] = k => u = t
    BY <2>1, MutexMapAssumption DEF IInv, Destroyers
  <2>3. (CHOOSE u \in Threads : destroying'[u] = k) = t
    BY <2>1, <2>2
  <2> QED
    BY <2>1, <2>3 DEF RetiredUnder
<1>3. ASSUME NEW j \in Keys, j # k
      PROVE  RetiredUnder(j)' = RetiredUnder(j)
  <2>1. \A u \in Threads : destroying'[u] = j <=> destroying[u] = j
    BY <1>3, MutexMapAssumption DEF IInv, TypeOK, Destroyers
  <2>2. \A u \in Threads : destroying[u] = j => delElement'[u] = delElement[u]
    BY <1>3, MutexMapAssumption DEF IInv, TypeOK, Destroyers
  <2>3. (CHOOSE u \in Threads : destroying'[u] = j) = (CHOOSE u \in Threads : destroying[u] = j)
    BY <2>1
  <2> QED
    BY <2>1, <2>2, <2>3 DEF RetiredUnder
<1>4. [j \in Keys |-> RetiredUnder(j)]'
         = [[j \in Keys |-> RetiredUnder(j)] EXCEPT ![k] = rdElement[k]]
    BY <1>2, <1>3
<1> QED
    BY <1>1, <1>4 DEF Reclamation!Retire

\* and reclaims at the end of the wait.
LEMMA DestroyFinishRefines ==
    ASSUME IInv, IInv', NEW t \in Threads, DestroyElementFinish(t)
    PROVE  Reclamation!Reclaim(destroying[t])
<1> USE DEF DestroyElementFinish, WokenInDestroy, DeleteAndReturn, DeleteAndErase, NotifyIfEmpty
<1>0. PICK k \in Keys : k = destroying[t] /\ k # NoKey
    BY MutexMapAssumption DEF IInv, TypeOK, Destroyers
<1>1. ~Reclamation!InUse(k)
    BY <1>0, ZeroReaders DEF IInv, Reclamation!InUse
<1>2. RetiredUnder(k) # nullptr
    BY <1>0, RetiredShape
<1>3. RetiredUnder(k)' = nullptr
  <2>1. \A u \in Threads : destroying'[u] # k
    BY <1>0 DEF IInv, TypeOK, Destroyers
  <2> QED
    BY <2>1 DEF RetiredUnder
<1>4. ASSUME NEW j \in Keys, j # k
      PROVE  RetiredUnder(j)' = RetiredUnder(j)
  <2>1. \A u \in Threads : destroying'[u] = j <=> destroying[u] = j
    BY <1>0, <1>4, MutexMapAssumption DEF IInv, TypeOK, Destroyers
  <2>2. \A u \in Threads : destroying[u] = j => delElement'[u] = delElement[u]
    BY <1>0, <1>4, MutexMapAssumption DEF IInv, TypeOK, Destroyers
  <2>3. (CHOOSE u \in Threads : destroying'[u] = j) = (CHOOSE u \in Threads : destroying[u] = j)
    BY <2>1
  <2> QED
    BY <2>1, <2>2, <2>3 DEF RetiredUnder
<1>5. [j \in Keys |-> RetiredUnder(j)]'
         = [[j \in Keys |-> RetiredUnder(j)] EXCEPT ![k] = nullptr]
    BY <1>3, <1>4
<1>6. rdElement' = [rdElement EXCEPT ![k] = nullptr]
    BY <1>0
<1> QED
    BY <1>0, <1>1, <1>2, <1>5, <1>6 DEF Reclamation!Reclaim

\* Every step is one of the abstract map or leaves it alone.
LEMMA NextRefines ==
    ASSUME IInv, IInv', [Next]_mapVars
    PROVE  [Reclamation!Next]_(Reclamation!absVars)
<1> USE DEF Reclamation!Next
<1>1. ASSUME NEW t \in Threads, NEW k \in Keys, NEW e \in Elements, AddElement(t, k, e)
      PROVE  Reclamation!Next
    BY <1>1, AddRefines
<1>2. ASSUME NEW t \in Threads, NEW k \in Keys, Open(t, k)
      PROVE  Reclamation!Next
  <2>1. Reclamation!Acquire(t, k)
    BY <1>2, RetiredUnchanged DEF Open, OpenElement, Openable, Reclamation!Acquire
  <2> QED
    BY <2>1
<1>3. ASSUME NEW t \in Threads, NEW k \in Keys, Close(t, k)
      PROVE  Reclamation!Next
  <2>1. Reclamation!Release(t, k)
    BY <1>3, RetiredUnchanged DEF Close, CloseElement, DropReader, Reclamation!Release
  <2> QED
    BY <2>1
<1>4. ASSUME NEW t \in Threads, NEW k \in Keys, Destroy(t, k)
      PROVE  Reclamation!Next
    BY <1>4, DestroyNowRefines, DestroyWaitRefines DEF Destroy
<1>5. ASSUME NEW t \in Threads, DestroyElementFinish(t)
      PROVE  Reclamation!Next
  <2>1. destroying[t] \in Keys
    BY <1>5, MutexMapAssumption
    DEF DestroyElementFinish, WokenInDestroy, IInv, TypeOK, Destroyers
  <2> QED
    BY <1>5, <2>1, DestroyFinishRefines
<1>6. ASSUME UNCHANGED <<rdElement, handle, destroying, delElement>>
      PROVE  UNCHANGED Reclamation!absVars
    BY <1>6, RetiredUnchanged DEF Reclamation!absVars
<1>7. ASSUME NEW t \in Threads,
             \/ DestroyElementWaitAgain(t)
             \/ Empty(t)
             \/ WaitForEmptyReturn(t)
             \/ SpuriousWakeup(t)
      PROVE  UNCHANGED Reclamation!absVars
    BY <1>6, <1>7 DEF DestroyElementWaitAgain, Empty, WaitForEmpty, WaitForEmptyReturn, SpuriousWakeup
<1>8. CASE UNCHANGED mapVars
    BY <1>6, <1>8 DEF mapVars
<1> QED
    BY <1>1, <1>2, <1>3, <1>4, <1>5, <1>7, <1>8 DEF Next, DestroyResume

\* Mutex_Map implements safe memory reclamation: an object is reclaimed only
\* when no thread uses it, and its key is free only after that.
THEOREM Refinement == SafeSpec => Reclamation!SafeSpec
BY InitRefines, NextRefines, Invariance, PTL DEF SafeSpec, Reclamation!SafeSpec
=============================================================================
