--------------------------- MODULE SafeReclamation ---------------------------
(***************************************************************************)
(* What a Mutex_Map promises to the code that shares objects through it,   *)
(* said without counters, condition variables or wait sets: an object is   *)
(* published under a key, threads acquire and release it, it is retired    *)
(* (nobody acquires it any more) and it is reclaimed, that is deleted,     *)
(* only when no thread uses it.  A key is free again once its object has   *)
(* been reclaimed.                                                         *)
(***************************************************************************)
EXTENDS Naturals

CONSTANTS Threads, Keys, Elements, nullptr

VARIABLES
    published,   \* [Keys -> Elements \cup {nullptr}]: what can be acquired
    retired,     \* [Keys -> Elements \cup {nullptr}]: retired, not yet deleted
    uses         \* [Keys -> [Threads -> Elements \cup {nullptr}]]

absVars == <<published, retired, uses>>

Init ==
    /\ published = [k \in Keys |-> nullptr]
    /\ retired = [k \in Keys |-> nullptr]
    /\ uses = [k \in Keys |-> [t \in Threads |-> nullptr]]

InUse(k) == \E t \in Threads : uses[k][t] # nullptr

Publish(k, e) ==
    /\ published[k] = nullptr
    /\ retired[k] = nullptr
    /\ \A j \in Keys : e # published[j] /\ e # retired[j]
    /\ published' = [published EXCEPT ![k] = e]
    /\ UNCHANGED <<retired, uses>>

Acquire(t, k) ==
    /\ published[k] # nullptr
    /\ uses[k][t] = nullptr
    /\ uses' = [uses EXCEPT ![k][t] = published[k]]
    /\ UNCHANGED <<published, retired>>

Release(t, k) ==
    /\ uses[k][t] # nullptr
    /\ uses' = [uses EXCEPT ![k][t] = nullptr]
    /\ UNCHANGED <<published, retired>>

Retire(k) ==
    /\ published[k] # nullptr
    /\ InUse(k)
    /\ retired' = [retired EXCEPT ![k] = published[k]]
    /\ published' = [published EXCEPT ![k] = nullptr]
    /\ UNCHANGED uses

Reclaim(k) ==
    /\ published[k] # nullptr \/ retired[k] # nullptr
    /\ ~InUse(k)
    /\ published' = [published EXCEPT ![k] = nullptr]
    /\ retired' = [retired EXCEPT ![k] = nullptr]
    /\ UNCHANGED uses

Next ==
    \E k \in Keys :
        \/ \E e \in Elements : Publish(k, e)
        \/ \E t \in Threads : Acquire(t, k) \/ Release(t, k)
        \/ Retire(k)
        \/ Reclaim(k)

SafeSpec == Init /\ [][Next]_absVars

Spec ==
    /\ SafeSpec
    /\ \A k \in Keys : WF_absVars(retired[k] # nullptr /\ Reclaim(k))
    /\ \A k \in Keys, t \in Threads : WF_absVars(Release(t, k))
=============================================================================
