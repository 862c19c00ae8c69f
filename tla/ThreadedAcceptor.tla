-------------------------- MODULE ThreadedAcceptor --------------------------
(***************************************************************************)
(* ThreadedStreamAcceptor: one thread accepts clients and gives each a     *)
(* detached StreamThread, bounded in number and per address; the owner     *)
(* destroys the acceptor while clients are running.  mutex_clients guards  *)
(* the list and the counters: a critical section is one step.  The socket  *)
(* pointer of a StreamThread is not guarded by it: its own thread clears   *)
(* it when a callback keeps the socket.  A notify_all that follows a       *)
(* critical section is part of its step: whoever it wakes may wake later,  *)
(* or find that its time is out when it wakes.                             *)
(***************************************************************************)
EXTENDS Naturals, FiniteSets

CONSTANTS
    Clients,            \* the connections that peers make, each once
    Addrs,              \* the remote addresses
    RemotePair,         \* RemotePair[c]: the address of client c
    Keepers,            \* the clients whose callbacks keep the socket
    ConcurrentLimits,   \* values of maxConcurrentClients
    PerIPLimits,        \* values of maxConnectionsPerIP
    NoClient

ASSUME AcceptorAssumption ==
    /\ IsFiniteSet(Clients)
    /\ RemotePair \in [Clients -> Addrs]
    /\ Keepers \subseteq Clients
    /\ ConcurrentLimits \subseteq Nat
    /\ PerIPLimits \subseteq Nat
    /\ NoClient \notin Clients

VARIABLES
    threadList,         \* the clients whose StreamThread is in the list
    connectionsPerIP,   \* 0 where the map has no entry
    maxConcurrentClients,
    maxConnectionsPerIP,
    finalized,
    acceptorSocket,
    mode,               \* how it was started
    acceptor,           \* where the thread that accepts is
    current,            \* the client it has in processClient
    client,             \* where each client's StreamThread is
    socket,             \* each client's socket
    kept,               \* the clients whose callback took the socket
    destructor          \* where the owner's destructor is

listVars == <<threadList, connectionsPerIP>>
limits == <<maxConcurrentClients, maxConnectionsPerIP>>
acceptorVars == <<acceptor, current>>
clientVars == <<client, socket, kept>>
vars == <<listVars, limits, finalized, acceptorSocket, mode, acceptorVars,
          clientVars, destructor>>

TypeOK ==
    /\ threadList \subseteq Clients
    /\ connectionsPerIP \in [Addrs -> Nat]
    /\ maxConcurrentClients \in ConcurrentLimits
    /\ maxConnectionsPerIP \in PerIPLimits
    /\ finalized \in BOOLEAN
    /\ acceptorSocket \in {"listening", "shut", "deleted"}
    /\ mode \in {"created", "threaded", "blocking"}
    /\ acceptor \in {"none", "accepting", "processing", "waiting", "notified",
                     "leaving", "ended"}
    /\ current \in Clients \cup {NoClient}
    /\ client \in [Clients -> {"away", "accepted", "init", "callback", "keeping",
                               "returned", "ended"}]
    /\ socket \in [Clients -> {"none", "open", "shut", "closed"}]
    /\ kept \subseteq Clients
    /\ destructor \in {"alive", "stopping", "joining", "closing", "stoppingClients",
                       "waiting", "woken", "destroyed", "crashed"}

Init ==
    /\ threadList = {}
    /\ connectionsPerIP = [a \in Addrs |-> 0]
    /\ maxConcurrentClients \in ConcurrentLimits
    /\ maxConnectionsPerIP \in PerIPLimits
    /\ finalized = FALSE
    /\ acceptorSocket = "listening"
    /\ mode = "created"
    /\ acceptor = "none"
    /\ current = NoClient
    /\ client = [c \in Clients |-> "away"]
    /\ socket = [c \in Clients |-> "none"]
    /\ kept = {}
    /\ destructor = "alive"

-----------------------------------------------------------------------------
(* State formulae *)

Full == Cardinality(threadList) >= maxConcurrentClients

\* Whether the counter that incrementIPUsage returns is over the limit.
TooMany(a) == connectionsPerIP[a] + 1 > maxConnectionsPerIP

\* A StreamThread whose callback returned false has a null clientSocket.
NullSocket(c) == c \in kept /\ client[c] = "returned"

\* The new owner of a kept socket deleted it, and the StreamThread still points to it.
Dangling(c) == c \in kept /\ client[c] # "returned" /\ socket[c] = "closed"

CloseSocket(c) == socket' = [socket EXCEPT ![c] = "closed"]

-----------------------------------------------------------------------------
(* The thread that accepts *)

\* startThreaded or startBlocking.
Start(m) ==
    /\ mode = "created"
    /\ destructor = "alive"
    /\ mode' = m
    /\ acceptor' = "accepting"
    /\ UNCHANGED <<listVars, limits, finalized, acceptorSocket, current,
                   clientVars, destructor>>

AcceptClient(c) ==
    /\ acceptor = "accepting"
    /\ acceptorSocket = "listening"
    /\ client[c] = "away"
    /\ client' = [client EXCEPT ![c] = "accepted"]
    /\ socket' = [socket EXCEPT ![c] = "open"]
    /\ current' = c
    /\ acceptor' = "processing"
    /\ UNCHANGED <<listVars, limits, finalized, acceptorSocket, mode, kept,
                   destructor>>

\* acceptConnection returns null, which ends the loop: always after stop, and on
\* any error of accept before it.
AcceptFails ==
    /\ acceptor = "accepting"
    /\ acceptor' = IF mode = "blocking" THEN "leaving" ELSE "ended"
    /\ UNCHANGED <<listVars, limits, finalized, acceptorSocket, mode, current,
                   clientVars, destructor>>

\* The end of processClient's loop; a mutant that tests once, with an if.
TestsOnce ==
    \/ acceptor = "notified"
    \/ acceptor = "processing" /\ (~Full \/ finalized)
LeavesLoop ==
    /\ acceptor \in {"processing", "notified"}
    /\ ~Full \/ finalized

WaitForPlace ==
    /\ acceptor \in {"processing", "notified"}
    /\ Full
    /\ ~finalized
    /\ acceptor' = "waiting"
    /\ UNCHANGED <<listVars, limits, finalized, acceptorSocket, mode, current,
                   clientVars, destructor>>

\* A spurious wakeup of wait_for; a notification is in the steps that send it.
AcceptorWakes ==
    /\ acceptor = "waiting"
    /\ acceptor' = "notified"
    /\ UNCHANGED <<listVars, limits, finalized, acceptorSocket, mode, current,
                   clientVars, destructor>>

\* What processClient does with a client it does not take.
DropCurrent(next) ==
    /\ client' = [client EXCEPT ![current] = "ended"]
    /\ CloseSocket(current)
    /\ current' = NoClient
    /\ acceptor' = next

\* wait_for looks at the clock after it has the mutex again: the timeout wins over
\* a notification, and over a list that has a place by then.
WaitTimesOut ==
    /\ acceptor \in {"waiting", "notified"}
    /\ DropCurrent("accepting")
    /\ UNCHANGED <<listVars, limits, finalized, acceptorSocket, mode, kept,
                   destructor>>

DropFinalized ==
    /\ LeavesLoop
    /\ finalized
    /\ DropCurrent(IF mode = "blocking" THEN "leaving" ELSE "ended")
    /\ UNCHANGED <<listVars, limits, finalized, acceptorSocket, mode, kept,
                   destructor>>

\* incrementIPUsage and, after the callback, decrementIPUsage; a mutant without
\* the second.
OnlyIncrement(a) == connectionsPerIP' = [connectionsPerIP EXCEPT ![a] = @ + 1]
IncrementAndDecrement(a) == UNCHANGED connectionsPerIP

DropTooMany ==
    /\ LeavesLoop
    /\ ~finalized
    /\ TooMany(RemotePair[current])
    /\ IncrementAndDecrement(RemotePair[current])
    /\ DropCurrent("accepting")
    /\ UNCHANGED <<threadList, limits, finalized, acceptorSocket, mode, kept,
                   destructor>>

StartClient ==
    /\ LeavesLoop
    /\ ~finalized
    /\ ~TooMany(RemotePair[current])
    /\ connectionsPerIP' = [connectionsPerIP EXCEPT ![RemotePair[current]] = @ + 1]
    /\ threadList' = threadList \cup {current}
    /\ client' = [client EXCEPT ![current] = "init"]
    /\ current' = NoClient
    /\ acceptor' = "accepting"
    /\ UNCHANGED <<limits, finalized, acceptorSocket, mode, socket, kept,
                   destructor>>

\* startBlocking calls stop when its loop ends.
BlockingReturns ==
    /\ acceptor = "leaving"
    /\ acceptorSocket' = "shut"
    /\ acceptor' = "ended"
    /\ UNCHANGED <<listVars, limits, finalized, mode, current, clientVars,
                   destructor>>

-----------------------------------------------------------------------------
(* The StreamThread of a client *)

\* postAcceptSubInitialization returns: callbackOnConnect is called, or
\* callbackOnInitFail.
InitEnds(c) ==
    /\ client[c] = "init"
    /\ client' = [client EXCEPT ![c] = "callback"]
    /\ UNCHANGED <<listVars, limits, finalized, acceptorSocket, mode, acceptorVars,
                   socket, kept, destructor>>

\* It failed, and there is no callbackOnInitFail.
InitFails(c) ==
    /\ client[c] = "init"
    /\ client' = [client EXCEPT ![c] = "returned"]
    /\ UNCHANGED <<listVars, limits, finalized, acceptorSocket, mode, acceptorVars,
                   socket, kept, destructor>>

\* The callback hands the socket to somebody else, and will return false.
TakeSocket(c) ==
    /\ client[c] = "callback"
    /\ c \in Keepers \ kept
    /\ kept' = kept \cup {c}
    /\ UNCHANGED <<listVars, limits, finalized, acceptorSocket, mode, acceptorVars,
                   client, socket, destructor>>

OwnerDeletesSocket(c) ==
    /\ c \in kept
    /\ socket[c] # "closed"
    /\ CloseSocket(c)
    /\ UNCHANGED <<listVars, limits, finalized, acceptorSocket, mode, acceptorVars,
                   client, kept, destructor>>

CallbackReturns(c) ==
    /\ client[c] = "callback"
    /\ client' = [client EXCEPT ![c] = IF c \in kept THEN "keeping" ELSE "returned"]
    /\ UNCHANGED <<listVars, limits, finalized, acceptorSocket, mode, acceptorVars,
                   socket, kept, destructor>>

\* clientSocket = nullptr, without mutex_clients.
ForgetSocket(c) ==
    /\ client[c] = "keeping"
    /\ client' = [client EXCEPT ![c] = "returned"]
    /\ UNCHANGED <<listVars, limits, finalized, acceptorSocket, mode, acceptorVars,
                   socket, kept, destructor>>

NotifyNotFull == acceptor' = IF acceptor = "waiting" THEN "notified" ELSE acceptor

\* cond_clients_empty.notify_one when the list got empty; a mutant that forgets it.
NotifyNobody == UNCHANGED destructor
NotifyEmpty ==
    destructor' = IF threadList' = {} /\ destructor = "waiting" THEN "woken"
                  ELSE destructor

\* decrementIPUsage when the count is not zero, where it would throw.
DecrementIPUsage(a) == connectionsPerIP' = [connectionsPerIP EXCEPT ![a] = @ - 1]

FinalizeThreadElement(c) ==
    /\ client[c] = "returned"
    /\ c \in threadList
    /\ threadList' = threadList \ {c}
    /\ DecrementIPUsage(RemotePair[c])
    /\ client' = [client EXCEPT ![c] = "ended"]
    /\ IF c \in kept THEN UNCHANGED socket ELSE CloseSocket(c)
    /\ NotifyNotFull
    /\ NotifyEmpty
    /\ UNCHANGED <<limits, finalized, acceptorSocket, mode, current, kept>>

-----------------------------------------------------------------------------
(* The owner: stop, the setters and the destructor *)

Stop ==
    /\ destructor = "alive"
    /\ acceptorSocket = "listening"
    /\ acceptorSocket' = "shut"
    /\ UNCHANGED <<listVars, limits, finalized, mode, acceptorVars, clientVars,
                   destructor>>

SetMaxConcurrentClients(n) ==
    /\ destructor = "alive"
    /\ n # maxConcurrentClients
    /\ maxConcurrentClients' = n
    /\ NotifyNotFull
    /\ UNCHANGED <<listVars, maxConnectionsPerIP, finalized, acceptorSocket, mode,
                   current, clientVars, destructor>>

SetMaxConnectionsPerIP(n) ==
    /\ destructor = "alive"
    /\ n # maxConnectionsPerIP
    /\ maxConnectionsPerIP' = n
    /\ UNCHANGED <<listVars, maxConcurrentClients, finalized, acceptorSocket, mode,
                   acceptorVars, clientVars, destructor>>

\* The destructor begins with stop.  The owner does not destroy what its own
\* startBlocking still runs on.
Destroy ==
    /\ destructor = "alive"
    /\ mode = "blocking" => acceptor = "ended"
    /\ acceptorSocket' = "shut"
    /\ destructor' = "stopping"
    /\ UNCHANGED <<listVars, limits, finalized, mode, acceptorVars, clientVars>>

SetFinalized ==
    /\ destructor = "stopping"
    /\ finalized' = TRUE
    /\ NotifyNotFull
    /\ destructor' = "joining"
    /\ UNCHANGED <<listVars, limits, acceptorSocket, mode, current, clientVars>>

\* acceptorThread.join; a mutant that leaves it out.
DoNotJoin == TRUE
AcceptorJoined == mode = "threaded" => acceptor = "ended"

JoinAcceptor ==
    /\ destructor = "joining"
    /\ AcceptorJoined
    /\ destructor' = "closing"
    /\ UNCHANGED <<listVars, limits, finalized, acceptorSocket, mode, acceptorVars,
                   clientVars>>

DeleteAcceptorSocket ==
    /\ destructor = "closing"
    /\ acceptorSocket' = "deleted"
    /\ destructor' = "stoppingClients"
    /\ UNCHANGED <<listVars, limits, finalized, mode, acceptorVars, clientVars>>

WaitUntilEmpty == IF threadList = {} THEN "destroyed" ELSE "waiting"

\* stopSocket on every child thread.  A null or deleted socket is undefined: the
\* process may die, and dies on a null one; or nothing of it shows.
StopClients ==
    /\ destructor = "stoppingClients"
    /\ \/ /\ \A c \in threadList : ~NullSocket(c)
          /\ socket' = [c \in Clients |->
                            IF c \in threadList /\ socket[c] = "open"
                            THEN "shut" ELSE socket[c]]
          /\ destructor' = WaitUntilEmpty
       \/ /\ \E c \in threadList : NullSocket(c) \/ Dangling(c)
          /\ destructor' = "crashed"
          /\ UNCHANGED socket
    /\ UNCHANGED <<listVars, limits, finalized, acceptorSocket, mode, acceptorVars,
                   client, kept>>

DestructorWakes ==
    /\ destructor = "waiting"
    /\ destructor' = "woken"
    /\ UNCHANGED <<listVars, limits, finalized, acceptorSocket, mode, acceptorVars,
                   clientVars>>

DestructorChecks ==
    /\ destructor = "woken"
    /\ destructor' = WaitUntilEmpty
    /\ UNCHANGED <<listVars, limits, finalized, acceptorSocket, mode, acceptorVars,
                   clientVars>>

-----------------------------------------------------------------------------

ProcessClient == WaitForPlace \/ DropFinalized \/ DropTooMany \/ StartClient

DestructorStep ==
    \/ SetFinalized \/ JoinAcceptor \/ DeleteAcceptorSocket
    \/ StopClients \/ DestructorChecks

ClientStep(c) ==
    \/ InitEnds(c) \/ InitFails(c) \/ TakeSocket(c) \/ CallbackReturns(c)
    \/ ForgetSocket(c) \/ FinalizeThreadElement(c)

Next ==
    \/ \E m \in {"threaded", "blocking"} : Start(m)
    \/ \E c \in Clients : AcceptClient(c) \/ ClientStep(c) \/ OwnerDeletesSocket(c)
    \/ AcceptFails
    \/ ProcessClient
    \/ AcceptorWakes
    \/ WaitTimesOut
    \/ BlockingReturns
    \/ Stop
    \/ \E n \in ConcurrentLimits : SetMaxConcurrentClients(n)
    \/ \E n \in PerIPLimits : SetMaxConnectionsPerIP(n)
    \/ Destroy
    \/ DestructorStep
    \/ DestructorWakes

SafeSpec == Init /\ [][Next]_vars

\* Threads that can step do.  A handshake and a callback may block on a client
\* for ever, until its socket is shut down or given away.
Unblocked(c) == socket[c] = "shut" \/ c \in kept

Fairness ==
    /\ WF_vars(acceptorSocket = "shut" /\ AcceptFails)
    /\ WF_vars(ProcessClient)
    /\ WF_vars(WaitTimesOut)
    /\ WF_vars(BlockingReturns)
    /\ WF_vars(DestructorStep)
    /\ \A c \in Clients :
          /\ WF_vars(Unblocked(c) /\ (InitEnds(c) \/ CallbackReturns(c)))
          /\ WF_vars((ForgetSocket(c) \/ FinalizeThreadElement(c)))

Spec == SafeSpec /\ Fairness

-----------------------------------------------------------------------------
(* Properties *)

\* The counters per address are those of the clients in the list, whatever
\* clients are refused and end: decrementIPUsage never throws, and no address
\* is locked out by clients that are gone.
UsageMatchesList ==
    \A a \in Addrs :
        connectionsPerIP[a] = Cardinality({c \in threadList : RemotePair[c] = a})

\* A client thread is only started within the limits of that moment, though they
\* may be lowered, clients may end and the waiting thread may be woken for
\* nothing meanwhile; and none is started once the destructor said finalized.
StartedWithinLimits ==
    [][\A c \in threadList' \ threadList :
          /\ Cardinality(threadList') <= maxConcurrentClients
          /\ connectionsPerIP'[RemotePair[c]] <= maxConnectionsPerIP
          /\ ~finalized]_vars

\* When the destructor returns, no thread is left that would use the acceptor,
\* and every socket it accepted is closed, or belongs to whom a callback gave it.
NothingSurvives ==
    destructor = "destroyed" =>
        /\ acceptor \in {"none", "ended"}
        /\ \A c \in Clients : client[c] \in {"away", "ended"}
        /\ \A c \in Clients \ kept : socket[c] \in {"none", "closed"}

\* The destructor returns, with clients that are blocked in their callbacks, and
\* with a client that is being accepted: unless it dies on a socket that is gone.
DestructorReturns == destructor # "alive" ~> destructor = "destroyed" \/ destructor = "crashed"

\* The invariants of the module in one: the types, and counters per address that are
\* those of the list (incrementIPUsage, decrementIPUsage).
Safe == TypeOK /\ UsageMatchesList
=============================================================================
