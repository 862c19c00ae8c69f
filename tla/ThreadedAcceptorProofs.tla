----------------------- MODULE ThreadedAcceptorProofs -----------------------
(***************************************************************************)
(* Proofs about ThreadedStreamAcceptor for every finite set of clients,    *)
(* any addresses, any callbacks and any limits.                            *)
(*                                                                         *)
(* UsageMatchesList keeps the counters at or above one where a client ends *)
(* and so the type of the counters; NothingSurvives needs to know that the *)
(* list holds exactly the running clients (ListIsRunning), that a client   *)
(* between accept and the list is the acceptor's current one               *)
(* (CurrentIsAccepted), whose sockets are closed (SocketsFollowClients),   *)
(* and that the thread that accepts is gone for good once the destructor   *)
(* is past the join (AcceptorGone).                                        *)
(***************************************************************************)
EXTENDS ThreadedAcceptor, FiniteSetTheorems, TLAPS

Running == {"init", "callback", "keeping", "returned"}

Processing == {"processing", "waiting", "notified"}

ListIsRunning == \A c \in Clients : c \in threadList <=> client[c] \in Running

CurrentIsAccepted ==
    /\ acceptor \in Processing <=> current # NoClient
    /\ \A c \in Clients : client[c] = "accepted" <=> current = c

SocketsFollowClients ==
    /\ \A c \in Clients : client[c] = "away" => socket[c] = "none"
    /\ \A c \in Clients \ kept : client[c] = "ended" => socket[c] = "closed"
    /\ \A c \in kept : client[c] \notin {"away", "accepted"}

AcceptorGone ==
    /\ mode = "created" => acceptor = "none"
    /\ mode = "blocking" /\ destructor # "alive" => acceptor = "ended"
    /\ destructor \notin {"alive", "stopping", "joining"} => acceptor \in {"none", "ended"}

EmptyInTheEnd == destructor = "destroyed" => threadList = {}

IInv ==
    /\ TypeOK
    /\ UsageMatchesList
    /\ ListIsRunning
    /\ CurrentIsAccepted
    /\ SocketsFollowClients
    /\ AcceptorGone
    /\ EmptyInTheEnd

-----------------------------------------------------------------------------
(* Counting the clients of an address *)

\* Every list of clients is finite, and so are the clients of one address in it.
LEMMA ListsAreFinite ==
    ASSUME NEW S \in SUBSET Clients, NEW a
    PROVE  LET T == {d \in S : RemotePair[d] = a} IN
           /\ IsFiniteSet(S)
           /\ IsFiniteSet(T)
           /\ Cardinality(S) \in Nat
           /\ Cardinality(T) \in Nat
<1> DEFINE T == {d \in S : RemotePair[d] = a}
<1>1. IsFiniteSet(S)
  BY FS_Subset, AcceptorAssumption
<1>2. IsFiniteSet(T)
  BY FS_Subset, <1>1
<1> QED
  BY <1>1, <1>2, FS_CardinalityType

\* push_back adds one to the client's address and nothing to the others.
LEMMA CountAfterAdd ==
    ASSUME NEW S \in SUBSET Clients, NEW c \in Clients \ S, NEW a
    PROVE  Cardinality({d \in S \cup {c} : RemotePair[d] = a})
           = Cardinality({d \in S : RemotePair[d] = a})
             + (IF RemotePair[c] = a THEN 1 ELSE 0)
<1> DEFINE T == {d \in S : RemotePair[d] = a}
           U == {d \in S \cup {c} : RemotePair[d] = a}
<1>1. IsFiniteSet(T) /\ Cardinality(T) \in Nat
  BY ListsAreFinite
<1>2. CASE RemotePair[c] = a
  <2>1. U = T \cup {c} /\ c \notin T
    BY <1>2
  <2> QED
    BY <1>1, <1>2, <2>1, FS_AddElement
<1>3. CASE RemotePair[c] # a
  <2>1. U = T
    BY <1>3
  <2> QED
    BY <1>1, <1>3, <2>1
<1> QED
  BY <1>2, <1>3

\* remove takes one from the client's address, which had at least one.
LEMMA CountAfterRemove ==
    ASSUME NEW S \in SUBSET Clients, NEW c \in S, NEW a
    PROVE  /\ Cardinality({d \in S \ {c} : RemotePair[d] = a})
              = Cardinality({d \in S : RemotePair[d] = a})
                - (IF RemotePair[c] = a THEN 1 ELSE 0)
           /\ RemotePair[c] = a => Cardinality({d \in S : RemotePair[d] = a}) >= 1
<1> DEFINE T == {d \in S : RemotePair[d] = a}
           U == {d \in S \ {c} : RemotePair[d] = a}
<1>1. IsFiniteSet(T) /\ Cardinality(T) \in Nat
  BY ListsAreFinite
<1>2. CASE RemotePair[c] = a
  <2>1. U = T \ {c} /\ c \in T
    BY <1>2
  <2>2. Cardinality(U) = Cardinality(T) - 1 /\ IsFiniteSet(U)
    BY <1>1, <2>1, FS_RemoveElement
  <2>3. Cardinality(U) \in Nat
    BY <2>2, FS_CardinalityType
  <2> QED
    BY <1>1, <1>2, <2>2, <2>3
<1>3. CASE RemotePair[c] # a
  <2>1. U = T
    BY <1>3
  <2> QED
    BY <1>1, <1>3, <2>1
<1> QED
  BY <1>2, <1>3

-----------------------------------------------------------------------------
(* The counters *)

\* Every step keeps the counters those of the list: most touch neither; StartClient
\* adds to both, finalizeThreadElement takes from both, and a client that is one
\* too many leaves both as they were.
LEMMA UsageStep ==
    ASSUME IInv, [Next]_vars
    PROVE  UsageMatchesList'
<1> USE DEF IInv
<1>1. ASSUME UNCHANGED listVars
      PROVE  UsageMatchesList'
  BY <1>1 DEF UsageMatchesList, listVars
<1>2. ASSUME StartClient
      PROVE  UsageMatchesList'
  <2>1. /\ current \in Clients \ threadList
        /\ threadList \in SUBSET Clients
    BY <1>2 DEF StartClient, LeavesLoop, TypeOK, CurrentIsAccepted, ListIsRunning,
                Processing, Running
  <2>2. /\ connectionsPerIP \in [Addrs -> Nat]
        /\ threadList' = threadList \cup {current}
        /\ connectionsPerIP' = [connectionsPerIP EXCEPT ![RemotePair[current]] = @ + 1]
    BY <1>2 DEF StartClient, TypeOK
  <2>3. ASSUME NEW a \in Addrs
        PROVE  connectionsPerIP'[a] = Cardinality({c \in threadList' : RemotePair[c] = a})
    <3>1. Cardinality({d \in threadList \cup {current} : RemotePair[d] = a})
          = Cardinality({d \in threadList : RemotePair[d] = a})
            + (IF RemotePair[current] = a THEN 1 ELSE 0)
      BY <2>1, CountAfterAdd
    <3>2. connectionsPerIP[a] = Cardinality({d \in threadList : RemotePair[d] = a})
      BY DEF UsageMatchesList
    <3>3. connectionsPerIP'[a] = connectionsPerIP[a] + (IF RemotePair[current] = a THEN 1 ELSE 0)
      BY <2>2, <2>3
    <3> QED
      BY <2>2, <3>1, <3>2, <3>3
  <2> QED
    BY <2>3 DEF UsageMatchesList
<1>3. ASSUME NEW e \in Clients, FinalizeThreadElement(e)
      PROVE  UsageMatchesList'
  <2>1. /\ connectionsPerIP \in [Addrs -> Nat]
        /\ threadList \in SUBSET Clients
        /\ e \in threadList
        /\ threadList' = threadList \ {e}
        /\ connectionsPerIP' = [connectionsPerIP EXCEPT ![RemotePair[e]] = @ - 1]
    BY <1>3 DEF FinalizeThreadElement, DecrementIPUsage, TypeOK
  <2>2. ASSUME NEW a \in Addrs
        PROVE  connectionsPerIP'[a] = Cardinality({c \in threadList' : RemotePair[c] = a})
    <3>1. Cardinality({d \in threadList \ {e} : RemotePair[d] = a})
          = Cardinality({d \in threadList : RemotePair[d] = a})
            - (IF RemotePair[e] = a THEN 1 ELSE 0)
      BY <2>1, CountAfterRemove
    <3>2. connectionsPerIP[a] = Cardinality({d \in threadList : RemotePair[d] = a})
      BY DEF UsageMatchesList
    <3>3. connectionsPerIP'[a] = connectionsPerIP[a] - (IF RemotePair[e] = a THEN 1 ELSE 0)
      BY <2>1, <2>2
    <3> QED
      BY <2>1, <3>1, <3>2, <3>3
  <2> QED
    BY <2>2 DEF UsageMatchesList
<1>4. ASSUME DropTooMany
      PROVE  UsageMatchesList'
  BY <1>1, <1>4 DEF DropTooMany, IncrementAndDecrement, listVars
<1> QED
  BY <1>1, <1>2, <1>3, <1>4
  DEF Next, ProcessClient, DestructorStep, ClientStep, Start, AcceptClient, AcceptFails,
      WaitForPlace, AcceptorWakes, WaitTimesOut, DropFinalized, BlockingReturns,
      InitEnds, InitFails, TakeSocket, OwnerDeletesSocket, CallbackReturns, ForgetSocket,
      Stop, SetMaxConcurrentClients, SetMaxConnectionsPerIP, Destroy, SetFinalized,
      JoinAcceptor, DeleteAcceptorSocket, StopClients, DestructorWakes,
      DestructorChecks, vars

-----------------------------------------------------------------------------
(* The types and the other parts of the invariant *)

\* The counters stay natural numbers because a client that ends is counted.
LEMMA TypeStep ==
    ASSUME IInv, [Next]_vars
    PROVE  TypeOK'
<1> USE DEF IInv, TypeOK
<1>1. ASSUME ProcessClient
      PROVE  TypeOK'
  <2>1. ASSUME acceptor \in Processing
        PROVE  current \in Clients /\ RemotePair[current] \in Addrs
    BY <2>1, AcceptorAssumption DEF CurrentIsAccepted
  <2>2. CASE WaitForPlace
    BY <2>2 DEF WaitForPlace, listVars, limits, clientVars
  <2>3. CASE DropFinalized
    BY <2>3 DEF DropFinalized, DropCurrent, CloseSocket, listVars, limits
  <2>4. CASE DropTooMany
    BY <2>4 DEF DropTooMany, DropCurrent, CloseSocket, IncrementAndDecrement, limits
  <2>5. CASE StartClient
    BY <2>1, <2>5 DEF StartClient, LeavesLoop, Processing, limits
  <2> QED
    BY <1>1, <2>2, <2>3, <2>4, <2>5 DEF ProcessClient
<1>2. ASSUME NEW c \in Clients, FinalizeThreadElement(c)
      PROVE  TypeOK'
  <2>1. connectionsPerIP[RemotePair[c]] >= 1 /\ RemotePair[c] \in Addrs
    <3>1. c \in threadList /\ threadList \in SUBSET Clients
      BY <1>2 DEF FinalizeThreadElement
    <3>2. Cardinality({d \in threadList : RemotePair[d] = RemotePair[c]}) >= 1
      BY <3>1, CountAfterRemove
    <3>3. RemotePair[c] \in Addrs
      BY AcceptorAssumption
    <3> QED
      BY <3>2, <3>3 DEF UsageMatchesList
  <2>2. connectionsPerIP' \in [Addrs -> Nat]
    BY <1>2, <2>1 DEF FinalizeThreadElement, DecrementIPUsage
  <2> QED
    BY <1>2, <2>2 DEF FinalizeThreadElement, CloseSocket, NotifyNotFull, NotifyEmpty, limits
<1>3. ASSUME NEW c \in Clients, ClientStep(c)
      PROVE  TypeOK'
  BY <1>2, <1>3 DEF ClientStep, InitEnds, InitFails, TakeSocket, CallbackReturns,
     ForgetSocket, listVars, limits, acceptorVars
<1>4. ASSUME NEW c \in Clients, AcceptClient(c) \/ OwnerDeletesSocket(c)
      PROVE  TypeOK'
  BY <1>4 DEF AcceptClient, OwnerDeletesSocket, CloseSocket, listVars, limits, acceptorVars
<1>5. ASSUME \/ \E m \in {"threaded", "blocking"} : Start(m)
             \/ AcceptFails \/ AcceptorWakes \/ BlockingReturns
      PROVE  TypeOK'
  BY <1>5 DEF Start, AcceptFails, AcceptorWakes, BlockingReturns, listVars, limits,
     clientVars
<1>6. ASSUME WaitTimesOut
      PROVE  TypeOK'
  BY <1>6 DEF WaitTimesOut, DropCurrent, CloseSocket, listVars, limits
<1>7. ASSUME \/ Stop \/ Destroy
             \/ \E n \in ConcurrentLimits : SetMaxConcurrentClients(n)
             \/ \E n \in PerIPLimits : SetMaxConnectionsPerIP(n)
      PROVE  TypeOK'
  BY <1>7 DEF Stop, Destroy, SetMaxConcurrentClients, SetMaxConnectionsPerIP,
     NotifyNotFull, listVars, limits, clientVars, acceptorVars
<1>8. ASSUME DestructorStep \/ DestructorWakes
      PROVE  TypeOK'
  BY <1>8 DEF DestructorStep, SetFinalized, JoinAcceptor, DeleteAcceptorSocket,
     StopClients, DestructorChecks, DestructorWakes, WaitUntilEmpty, NotifyNotFull,
     listVars, limits, clientVars, acceptorVars
<1>9. CASE UNCHANGED vars
  BY <1>9 DEF vars, listVars, limits, clientVars, acceptorVars
<1> QED
  BY <1>1, <1>3, <1>4, <1>5, <1>6, <1>7, <1>8, <1>9 DEF Next

\* Who is in the list, who is being accepted, and whose sockets are closed.
LEMMA ClientsStep ==
    ASSUME IInv, [Next]_vars
    PROVE  ListIsRunning' /\ CurrentIsAccepted' /\ SocketsFollowClients'
<1> USE DEF IInv, TypeOK, ListIsRunning, CurrentIsAccepted, SocketsFollowClients,
            Running, Processing
<1> USE AcceptorAssumption
<1> DEFINE Goal == ListIsRunning /\ CurrentIsAccepted /\ SocketsFollowClients
<1>1. ASSUME ProcessClient
      PROVE  Goal'
  <2>1. CASE WaitForPlace
    BY <2>1 DEF WaitForPlace, listVars, limits, clientVars
  <2>2. CASE DropFinalized
    BY <2>2 DEF DropFinalized, DropCurrent, CloseSocket, LeavesLoop, listVars
  <2>3. CASE DropTooMany
    BY <2>3 DEF DropTooMany, DropCurrent, CloseSocket, LeavesLoop
  <2>4. CASE StartClient
    BY <2>4 DEF StartClient, LeavesLoop
  <2> QED
    BY <1>1, <2>1, <2>2, <2>3, <2>4 DEF ProcessClient
<1>2. ASSUME NEW c \in Clients, ClientStep(c)
      PROVE  Goal'
  <2>1. CASE InitEnds(c) \/ InitFails(c)
    BY <2>1 DEF InitEnds, InitFails, listVars, acceptorVars
  <2>2. CASE TakeSocket(c)
    BY <2>2 DEF TakeSocket, listVars, acceptorVars
  <2>3. CASE CallbackReturns(c) \/ ForgetSocket(c)
    BY <2>3 DEF CallbackReturns, ForgetSocket, listVars, acceptorVars
  <2>4. CASE FinalizeThreadElement(c)
    BY <2>4 DEF FinalizeThreadElement, CloseSocket, NotifyNotFull
  <2> QED
    BY <1>2, <2>1, <2>2, <2>3, <2>4 DEF ClientStep
<1>3. ASSUME NEW c \in Clients, AcceptClient(c)
      PROVE  Goal'
  BY <1>3 DEF AcceptClient, listVars
<1>4. ASSUME NEW c \in Clients, OwnerDeletesSocket(c)
      PROVE  Goal'
  BY <1>4 DEF OwnerDeletesSocket, CloseSocket, listVars, acceptorVars
<1>5. ASSUME \/ \E m \in {"threaded", "blocking"} : Start(m)
             \/ AcceptFails \/ AcceptorWakes \/ BlockingReturns
      PROVE  Goal'
  BY <1>5 DEF Start, AcceptFails, AcceptorWakes, BlockingReturns, listVars, clientVars,
     AcceptorGone
<1>6. ASSUME WaitTimesOut
      PROVE  Goal'
  BY <1>6 DEF WaitTimesOut, DropCurrent, CloseSocket, listVars
<1>7. ASSUME \/ Stop \/ Destroy
             \/ \E n \in ConcurrentLimits : SetMaxConcurrentClients(n)
             \/ \E n \in PerIPLimits : SetMaxConnectionsPerIP(n)
      PROVE  Goal'
  BY <1>7 DEF Stop, Destroy, SetMaxConcurrentClients, SetMaxConnectionsPerIP,
     NotifyNotFull, listVars, clientVars, acceptorVars
<1>8. ASSUME DestructorStep \/ DestructorWakes
      PROVE  Goal'
  <2>1. CASE StopClients
    BY <2>1 DEF StopClients, listVars, acceptorVars
  <2> QED
    BY <1>8, <2>1 DEF DestructorStep, SetFinalized, JoinAcceptor, DeleteAcceptorSocket,
       DestructorChecks, DestructorWakes, NotifyNotFull, listVars, clientVars,
       acceptorVars
<1>9. CASE UNCHANGED vars
  BY <1>9 DEF vars, listVars, clientVars, acceptorVars
<1> QED
  BY <1>1, <1>2, <1>3, <1>4, <1>5, <1>6, <1>7, <1>8, <1>9 DEF Next

\* The thread that accepts is gone after the join, so the list, once empty in
\* the destructor, stays empty.
LEMMA AcceptorGoneStep ==
    ASSUME IInv, [Next]_vars
    PROVE  AcceptorGone' /\ EmptyInTheEnd'
<1> USE DEF IInv, TypeOK, AcceptorGone, EmptyInTheEnd
<1> DEFINE Goal == AcceptorGone /\ EmptyInTheEnd
<1>1. ASSUME ProcessClient \/ WaitTimesOut
      PROVE  Goal'
  BY <1>1 DEF ProcessClient, WaitForPlace, DropFinalized, DropTooMany, StartClient,
     WaitTimesOut, DropCurrent, LeavesLoop, listVars
<1>2. ASSUME NEW c \in Clients, ClientStep(c)
      PROVE  Goal'
  BY <1>2 DEF ClientStep, InitEnds, InitFails, TakeSocket, CallbackReturns, ForgetSocket,
     FinalizeThreadElement, NotifyNotFull, NotifyEmpty, listVars, acceptorVars
<1>3. ASSUME NEW c \in Clients, AcceptClient(c) \/ OwnerDeletesSocket(c)
      PROVE  Goal'
  BY <1>3 DEF AcceptClient, OwnerDeletesSocket, listVars, acceptorVars
<1>4. ASSUME \/ \E m \in {"threaded", "blocking"} : Start(m)
             \/ AcceptFails \/ AcceptorWakes \/ BlockingReturns
      PROVE  Goal'
  BY <1>4 DEF Start, AcceptFails, AcceptorWakes, BlockingReturns, listVars
<1>5. ASSUME \/ Stop \/ Destroy
             \/ \E n \in ConcurrentLimits : SetMaxConcurrentClients(n)
             \/ \E n \in PerIPLimits : SetMaxConnectionsPerIP(n)
      PROVE  Goal'
  BY <1>5 DEF Stop, Destroy, SetMaxConcurrentClients, SetMaxConnectionsPerIP,
     NotifyNotFull, listVars, acceptorVars
<1>6. ASSUME DestructorStep \/ DestructorWakes
      PROVE  Goal'
  BY <1>6 DEF DestructorStep, SetFinalized, JoinAcceptor, AcceptorJoined,
     DeleteAcceptorSocket, StopClients, DestructorChecks, DestructorWakes,
     WaitUntilEmpty, NotifyNotFull, listVars, acceptorVars
<1>7. CASE UNCHANGED vars
  BY <1>7 DEF vars, listVars, acceptorVars
<1> QED
  BY <1>1, <1>2, <1>3, <1>4, <1>5, <1>6, <1>7 DEF Next

-----------------------------------------------------------------------------
(* The theorems *)

\* The inductive invariant holds in every state.
THEOREM Invariance == SafeSpec => []IInv
<1>1. Init => IInv
  <2>1. ASSUME Init
        PROVE  UsageMatchesList
    <3>1. \A a \in Addrs : {c \in threadList : RemotePair[c] = a} = {}
      BY <2>1 DEF Init
    <3>2. \A a \in Addrs : connectionsPerIP[a] = 0
      BY <2>1 DEF Init
    <3> QED
      BY <3>1, <3>2, FS_EmptySet DEF UsageMatchesList
  <2>2. ASSUME Init
        PROVE  TypeOK
    BY <2>2 DEF Init, TypeOK
  <2> QED
    BY <2>1, <2>2, AcceptorAssumption
    DEF Init, IInv, ListIsRunning, CurrentIsAccepted, SocketsFollowClients,
        AcceptorGone, EmptyInTheEnd, Running, Processing
<1>2. IInv /\ [Next]_vars => IInv'
  <2> SUFFICES ASSUME IInv, [Next]_vars
               PROVE  IInv'
    OBVIOUS
  <2>1. TypeOK' /\ UsageMatchesList'
    BY TypeStep, UsageStep
  <2>2. ListIsRunning' /\ CurrentIsAccepted' /\ SocketsFollowClients'
    BY ClientsStep
  <2>3. AcceptorGone' /\ EmptyInTheEnd'
    BY AcceptorGoneStep
  <2> QED
    BY <2>1, <2>2, <2>3 DEF IInv
<1> QED
  BY <1>1, <1>2, PTL DEF SafeSpec

\* The variables keep their types, the counters never fall below zero.
THEOREM TypeCorrect == SafeSpec => []TypeOK
<1>1. IInv => TypeOK
  BY DEF IInv
<1> QED
  BY Invariance, <1>1, PTL

\* The counters per address are those of the list, whatever clients are refused,
\* time out and end: decrementIPUsage never throws.
THEOREM UsageCorrect == SafeSpec => []UsageMatchesList
<1>1. IInv => UsageMatchesList
  BY DEF IInv
<1> QED
  BY Invariance, <1>1, PTL

\* All of Safe: the types and the counters of the addresses.
THEOREM Safety == SafeSpec => []Safe
<1>1. TypeOK /\ UsageMatchesList => Safe
  BY DEF Safe
<1> QED  BY <1>1, TypeCorrect, UsageCorrect, PTL

\* When the destructor returns, no thread that uses the acceptor is left, and all
\* the sockets that nobody took are closed.
THEOREM DestructionIsComplete == SafeSpec => []NothingSurvives
<1>1. IInv => NothingSurvives
  <2> SUFFICES ASSUME IInv, destructor = "destroyed"
               PROVE  NothingSurvives
    BY DEF NothingSurvives
  <2>1. acceptor \in {"none", "ended"} /\ current = NoClient
    BY DEF IInv, AcceptorGone, CurrentIsAccepted, Processing
  <2>2. ASSUME NEW c \in Clients
        PROVE  client[c] \in {"away", "ended"}
    <3>1. client[c] \notin Running
      BY DEF IInv, EmptyInTheEnd, ListIsRunning
    <3>2. client[c] # "accepted"
      BY <2>1, AcceptorAssumption DEF IInv, CurrentIsAccepted
    <3> QED
      BY <3>1, <3>2 DEF IInv, TypeOK, Running
  <2> QED
    BY <2>1, <2>2 DEF IInv, SocketsFollowClients, NothingSurvives
<1> QED
  BY Invariance, <1>1, PTL

\* A client thread is started only within the limits that hold at that moment,
\* and never once the destructor said finalized.
THEOREM LimitsAreKept == SafeSpec => StartedWithinLimits
<1> DEFINE Kept == \A c \in threadList' \ threadList :
                      /\ Cardinality(threadList') <= maxConcurrentClients
                      /\ connectionsPerIP'[RemotePair[c]] <= maxConnectionsPerIP
                      /\ ~finalized
<1>1. IInv /\ [Next]_vars => [Kept]_vars
  <2> SUFFICES ASSUME IInv, [Next]_vars
               PROVE  Kept
    OBVIOUS
  <2>1. CASE StartClient
    <3>1. /\ threadList' = threadList \cup {current}
          /\ current \in Clients \ threadList
          /\ connectionsPerIP \in [Addrs -> Nat]
          /\ RemotePair[current] \in Addrs
      BY <2>1, AcceptorAssumption
      DEF StartClient, LeavesLoop, IInv, TypeOK, CurrentIsAccepted, ListIsRunning,
          Processing, Running
    <3>2. Cardinality(threadList') <= maxConcurrentClients
      <4>1. IsFiniteSet(threadList) /\ Cardinality(threadList) \in Nat
        BY ListsAreFinite DEF IInv, TypeOK
      <4>2. Cardinality(threadList') = Cardinality(threadList) + 1
        BY <3>1, <4>1, FS_AddElement
      <4>3. Cardinality(threadList) < maxConcurrentClients /\ maxConcurrentClients \in Nat
        BY <2>1, <4>1, AcceptorAssumption DEF StartClient, LeavesLoop, Full, IInv, TypeOK
      <4> QED
        BY <4>1, <4>2, <4>3
    <3>3. connectionsPerIP'[RemotePair[current]] <= maxConnectionsPerIP
      BY <2>1, <3>1, AcceptorAssumption DEF StartClient, TooMany, IInv, TypeOK
    <3> QED
      BY <2>1, <3>1, <3>2, <3>3 DEF StartClient
  <2>2. CASE ~StartClient
    <3>1. threadList' \subseteq threadList
      BY <2>2
      DEF Next, ProcessClient, DestructorStep, ClientStep, Start, AcceptClient,
          AcceptFails, WaitForPlace, AcceptorWakes, WaitTimesOut, DropFinalized,
          DropTooMany, BlockingReturns, InitEnds, InitFails, TakeSocket,
          OwnerDeletesSocket, CallbackReturns, ForgetSocket, FinalizeThreadElement,
          Stop, SetMaxConcurrentClients, SetMaxConnectionsPerIP, Destroy, SetFinalized,
          JoinAcceptor, DeleteAcceptorSocket, StopClients, DestructorWakes,
          DestructorChecks, listVars, vars
    <3> QED
      BY <3>1
  <2> QED
    BY <2>1, <2>2
<1> QED
  BY Invariance, <1>1, PTL DEF SafeSpec, StartedWithinLimits
=============================================================================
