------------------------------ MODULE MutexMap ------------------------------
(***************************************************************************)
(* Mutex_Map<T>, the map through which cxFramework's threads share objects *)
(* that any of them may delete (the lines of a multiplexed socket, the     *)
(* pending calls of an RPC client).  Every operation runs under mutex_xMap *)
(* and is one atomic step, except where it waits on a condition variable:  *)
(* the wait releases the mutex and ends the step, and what follows the     *)
(* wake-up is a step of its own.  A condition variable is the set of       *)
(* threads waiting on it; notify_one removes any one of them and a         *)
(* spurious wake-up removes one without a notify.                          *)
(***************************************************************************)
EXTENDS Naturals, FiniteSets

CONSTANTS
    Threads,       \* the threads that share the map
    Keys,          \* the values of the template parameter T
    Elements,      \* addresses of Mutex_Map_Element objects
    nullptr,
    NoKey,
    EmptyWaiters   \* the threads that call waitForEmpty (the owner's destructor)

ASSUME MutexMapAssumption ==
    /\ IsFiniteSet(Threads)
    /\ nullptr \notin Elements
    /\ NoKey \notin Keys
    /\ EmptyWaiters \subseteq Threads

VARIABLES
    keys,                \* the keys xMap holds a sMapElement for
    rdElement,           \* sMapElement::rdElement
    readers,             \* sMapElement::readers
    zeroReadersWaiters,  \* who waits on sMapElement::cond_zeroReaders
    zeroMapsWaiters,     \* who waits on cond_zeroMaps
    allocated,           \* elements that are new'd and not deleted
    stopped,             \* elements whose stopReaders has been called
    handle,              \* handle[k][t]: what openElement(k) gave t, until t closes it
    inside,              \* the operation t is blocked in
    destroying,          \* local key of destroyElement
    delElement           \* local delElement of destroyElement

mapVars == <<keys, rdElement, readers, zeroReadersWaiters, zeroMapsWaiters,
             allocated, stopped, handle, inside, destroying, delElement>>

TypeOK ==
    /\ keys \subseteq Keys
    /\ rdElement \in [Keys -> Elements \cup {nullptr}]
    /\ readers \in [Keys -> Nat]
    /\ zeroReadersWaiters \in [Keys -> SUBSET Threads]
    /\ zeroMapsWaiters \subseteq Threads
    /\ allocated \subseteq Elements
    /\ stopped \subseteq Elements
    /\ handle \in [Keys -> [Threads -> Elements \cup {nullptr}]]
    /\ inside \in [Threads -> {"none", "destroyElement", "waitForEmpty"}]
    /\ destroying \in [Threads -> Keys \cup {NoKey}]
    /\ delElement \in [Threads -> Elements \cup {nullptr}]

Init ==
    /\ keys = {}
    /\ rdElement = [k \in Keys |-> nullptr]
    /\ readers = [k \in Keys |-> 0]
    /\ zeroReadersWaiters = [k \in Keys |-> {}]
    /\ zeroMapsWaiters = {}
    /\ allocated = {}
    /\ stopped = {}
    /\ handle = [k \in Keys |-> [t \in Threads |-> nullptr]]
    /\ inside = [t \in Threads |-> "none"]
    /\ destroying = [t \in Threads |-> NoKey]
    /\ delElement = [t \in Threads |-> nullptr]

-----------------------------------------------------------------------------
(* State formulae *)

\* The test at the head of addElement; a mutant that takes an element being
\* destroyed for an absent one.
AbsentOrDestroyed(k) == k \notin keys \/ rdElement[k] = nullptr
Absent(k) == k \notin keys

\* The test at the head of openElement and of destroyElement; a mutant that
\* forgets the null test.
OpenableWhileDestroyed(k) == k \in keys
Openable(k) == k \in keys /\ rdElement[k] # nullptr

Holders(k) == {t \in Threads : handle[k][t] # nullptr}

\* notify_one on the condition variable whose waiters are ws.
NotifyOne(ws) == IF ws = {} THEN {ws} ELSE {ws \ {w} : w \in ws}

\* closeElement's readers--, and its notify when that was the last reader;
\* a mutant that never notifies.
DropReaderSilently(k) ==
    /\ readers' = [readers EXCEPT ![k] = @ - 1]
    /\ UNCHANGED zeroReadersWaiters
DropReader(k) ==
    /\ readers' = [readers EXCEPT ![k] = @ - 1]
    /\ \/ /\ readers'[k] = 0
          /\ \E ws \in NotifyOne(zeroReadersWaiters[k]) :
                zeroReadersWaiters' = [zeroReadersWaiters EXCEPT ![k] = ws]
       \/ readers'[k] # 0 /\ UNCHANGED zeroReadersWaiters

\* destroyElement's rdElement = nullptr; a mutant that forgets it.
KeepPublished(k) == UNCHANGED rdElement
Unpublish(k) == rdElement' = [rdElement EXCEPT ![k] = nullptr]

\* The notify after the erase; a mutant that forgets it.
NotifyNobody == UNCHANGED zeroMapsWaiters
NotifyIfEmpty ==
    \/ keys' = {} /\ zeroMapsWaiters' \in NotifyOne(zeroMapsWaiters)
    \/ keys' # {} /\ UNCHANGED zeroMapsWaiters

\* The end of destroyElement: delete, erase, and notify when the map is empty.
DeleteAndErase(k, e) ==
    /\ allocated' = allocated \ {e}
    /\ stopped' = stopped \ {e}
    /\ keys' = keys \ {k}
    /\ rdElement' = [rdElement EXCEPT ![k] = nullptr]
    /\ NotifyIfEmpty

-----------------------------------------------------------------------------
(* The operations *)

\* Returns true; with k \in keys addElement returns false and changes nothing.
AddElement(t, k, e) ==
    /\ inside[t] = "none"
    /\ Absent(k)
    /\ e \notin allocated
    /\ allocated' = allocated \cup {e}
    /\ keys' = keys \cup {k}
    /\ rdElement' = [rdElement EXCEPT ![k] = e]
    /\ UNCHANGED <<readers, zeroReadersWaiters, zeroMapsWaiters, stopped,
                   handle, inside, destroying, delElement>>

\* Returns the element; when ~Openable(k) it returns null and changes nothing.
OpenElement(t, k) ==
    /\ inside[t] = "none"
    /\ Openable(k)
    /\ readers' = [readers EXCEPT ![k] = @ + 1]
    /\ handle' = [handle EXCEPT ![k][t] = rdElement[k]]
    /\ UNCHANGED <<keys, rdElement, zeroReadersWaiters, zeroMapsWaiters,
                   allocated, stopped, inside, destroying, delElement>>

\* With readers[k] = 0 the code throws: CloseNeverThrows says it does not.
CloseElement(t, k) ==
    /\ inside[t] = "none"
    /\ k \in keys
    /\ readers[k] # 0
    /\ DropReader(k)
    /\ handle' = [handle EXCEPT ![k][t] = nullptr]
    /\ UNCHANGED <<keys, rdElement, zeroMapsWaiters, allocated, stopped,
                   inside, destroying, delElement>>

\* destroyElement finds no reader: it deletes at once.
DestroyElementNow(t, k) ==
    /\ inside[t] = "none"
    /\ Openable(k)
    /\ readers[k] = 0
    /\ DeleteAndErase(k, rdElement[k])
    /\ UNCHANGED <<readers, zeroReadersWaiters, handle, inside, destroying,
                   delElement>>

\* destroyElement finds readers: the element becomes unreachable, its readers
\* are told to stop and the caller waits.
DestroyElementWait(t, k) ==
    /\ inside[t] = "none"
    /\ Openable(k)
    /\ readers[k] # 0
    /\ Unpublish(k)
    /\ delElement' = [delElement EXCEPT ![t] = rdElement[k]]
    /\ destroying' = [destroying EXCEPT ![t] = k]
    /\ inside' = [inside EXCEPT ![t] = "destroyElement"]
    /\ stopped' = stopped \cup {rdElement[k]}
    /\ zeroReadersWaiters' = [zeroReadersWaiters EXCEPT ![k] = @ \cup {t}]
    /\ UNCHANGED <<keys, readers, zeroMapsWaiters, allocated, handle>>

WokenInDestroy(t) ==
    inside[t] = "destroyElement" /\ t \notin zeroReadersWaiters[destroying[t]]

\* The loop of destroyElement after a wake-up that finds readers.
DestroyElementWaitAgain(t) ==
    LET k == destroying[t] IN
    /\ WokenInDestroy(t)
    /\ readers[k] # 0
    /\ stopped' = stopped \cup {delElement[t]}
    /\ zeroReadersWaiters' = [zeroReadersWaiters EXCEPT ![k] = @ \cup {t}]
    /\ UNCHANGED <<keys, rdElement, readers, zeroMapsWaiters, allocated,
                   handle, inside, destroying, delElement>>

DeleteAndReturn(t) ==
    /\ DeleteAndErase(destroying[t], delElement[t])
    /\ inside' = [inside EXCEPT ![t] = "none"]
    /\ destroying' = [destroying EXCEPT ![t] = NoKey]
    /\ delElement' = [delElement EXCEPT ![t] = nullptr]
    /\ UNCHANGED <<readers, zeroReadersWaiters, handle>>

\* The loop of destroyElement after a wake-up that finds none; a mutant with an
\* if in place of the loop.
DestroyElementFinishUnchecked(t) == WokenInDestroy(t) /\ DeleteAndReturn(t)
DestroyElementFinish(t) ==
    WokenInDestroy(t) /\ readers[destroying[t]] = 0 /\ DeleteAndReturn(t)

\* waitForEmpty on a map that is not empty; on an empty one it returns at once.
WaitForEmpty(t) ==
    /\ inside[t] = "none"
    /\ keys # {}
    /\ inside' = [inside EXCEPT ![t] = "waitForEmpty"]
    /\ zeroMapsWaiters' = zeroMapsWaiters \cup {t}
    /\ UNCHANGED <<keys, rdElement, readers, zeroReadersWaiters, allocated,
                   stopped, handle, destroying, delElement>>

\* waitForEmpty does not look at the map again after its single wait.
WaitForEmptyReturn(t) ==
    /\ inside[t] = "waitForEmpty"
    /\ t \notin zeroMapsWaiters
    /\ inside' = [inside EXCEPT ![t] = "none"]
    /\ UNCHANGED <<keys, rdElement, readers, zeroReadersWaiters,
                   zeroMapsWaiters, allocated, stopped, handle, destroying,
                   delElement>>

SpuriousWakeup(t) ==
    /\ \/ /\ inside[t] = "destroyElement"
          /\ t \in zeroReadersWaiters[destroying[t]]
          /\ zeroReadersWaiters' =
                [zeroReadersWaiters EXCEPT ![destroying[t]] = @ \ {t}]
          /\ UNCHANGED zeroMapsWaiters
       \/ /\ t \in zeroMapsWaiters
          /\ zeroMapsWaiters' = zeroMapsWaiters \ {t}
          /\ UNCHANGED zeroReadersWaiters
    /\ UNCHANGED <<keys, rdElement, readers, allocated, stopped, handle,
                   inside, destroying, delElement>>

-----------------------------------------------------------------------------
(* What the callers do.  The map counts handles and does not know whose    *)
(* they are, so it relies on its callers: they close what they opened, and *)
(* they hold nothing while they destroy an element or wait for the map to  *)
(* be empty.  RpcClient.tla checks that the RPC client obeys.              *)

HoldsNothing(t) == \A k \in Keys : handle[k][t] = nullptr

Open(t, k) == handle[k][t] = nullptr /\ OpenElement(t, k)

Close(t, k) == handle[k][t] # nullptr /\ CloseElement(t, k)

Destroy(t, k) ==
    /\ HoldsNothing(t)
    /\ DestroyElementNow(t, k) \/ DestroyElementWait(t, k)

DestroyResume(t) == DestroyElementWaitAgain(t) \/ DestroyElementFinish(t)

Empty(t) == t \in EmptyWaiters /\ HoldsNothing(t) /\ WaitForEmpty(t)

Next ==
    \E t \in Threads :
        \/ \E k \in Keys :
              \/ \E e \in Elements : AddElement(t, k, e)
              \/ Open(t, k)
              \/ Close(t, k)
              \/ Destroy(t, k)
        \/ DestroyResume(t)
        \/ Empty(t)
        \/ WaitForEmptyReturn(t)
        \/ SpuriousWakeup(t)

SafeSpec == Init /\ [][Next]_mapVars

\* A thread that is not blocked runs, and what is opened is closed.  Nobody
\* has to add, open or destroy anything.
Fairness ==
    \A t \in Threads :
        /\ \A k \in Keys : WF_mapVars(Close(t, k))
        /\ WF_mapVars(DestroyElementFinish(t))
        /\ WF_mapVars(WaitForEmptyReturn(t))

Spec == SafeSpec /\ Fairness

-----------------------------------------------------------------------------
(* Properties *)

\* readers is exactly the number of threads that hold the element: no close is
\* lost or counted twice, whatever adds and destroys the key meanwhile
\* (openElement's readers++ and closeElement's readers--).
ReadersCountHolders == \A k \in Keys : readers[k] = Cardinality(Holders(k))

\* No thread holds an element that destroyElement has deleted.
NoUseAfterDelete ==
    \A k \in Keys, t \in Threads : handle[k][t] # nullptr => handle[k][t] \in allocated

\* closeElement of a handle finds its key and a positive count: it never throws
\* "Invalid close on Mutex MAP" and never returns false.
CloseNeverThrows ==
    \A k \in Keys, t \in Threads : handle[k][t] # nullptr => k \in keys /\ readers[k] > 0

\* At most one thread deletes an element: the others' destroyElement finds
\* rdElement null, so no element is deleted twice and no condition variable is
\* erased while somebody waits on it.
OneDestroyer ==
    /\ \A t, u \in Threads :
          destroying[t] = destroying[u] /\ destroying[t] # NoKey => t = u
    /\ \A k \in Keys : \A t \in zeroReadersWaiters[k] :
          k \in keys /\ destroying[t] = k

\* An element never leaks out of the map: what is allocated can be opened or
\* has a destroyer that will delete it.
NoElementLost ==
    \A e \in allocated :
        \/ \E k \in keys : rdElement[k] = e
        \/ \E t \in Threads : delElement[t] = e /\ destroying[t] \in keys

\* A thread sleeps in destroyElement only while somebody still reads the
\* element: the wake-up of the last closeElement is never lost.
NoLostWakeup ==
    \A k \in Keys : zeroReadersWaiters[k] # {} => Holders(k) # {}

\* Once stopReaders was called on an element its readers only leave: the set of
\* holders cannot grow while destroyElement waits for it to be empty.
StoppedReadersOnlyLeave ==
    [][\A k \in Keys, t \in Threads :
          handle[k][t] = nullptr /\ handle'[k][t] # nullptr
              => handle'[k][t] \notin stopped]_mapVars

\* destroyElement returns, if the readers close what they opened.
DestroyTerminates ==
    \A t \in Threads : inside[t] = "destroyElement" ~> inside[t] = "none"

\* waitForEmpty with a single waiter returns if the map is empty at any moment
\* after it started to wait.
EmptyIsNoticed ==
    \A t \in Threads : (inside[t] = "waitForEmpty" /\ keys = {}) ~> inside[t] = "none"

\* The map keeps the promise of SafeReclamation: objects are deleted when
\* nobody uses them and retired objects are eventually deleted.
RetiredUnder(k) ==
    IF \E t \in Threads : destroying[t] = k
    THEN delElement[CHOOSE t \in Threads : destroying[t] = k]
    ELSE nullptr

Reclamation == INSTANCE SafeReclamation WITH
    published <- rdElement,
    retired <- [k \in Keys |-> RetiredUnder(k)],
    uses <- handle

ImplementsReclamation == Reclamation!Spec

\* The invariants of the module in one: the types, the count of readers, a close that never throws and
\* one destroyer (openElement, closeElement, destroyElement).
Safe == TypeOK /\ ReadersCountHolders /\ CloseNeverThrows /\ OneDestroyer

\* Both waits of the map end, destroyElement's and waitForEmpty's.
Progress == DestroyTerminates /\ EmptyIsNoticed
=============================================================================
