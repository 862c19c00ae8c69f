------------------------------ MODULE AuthStore ------------------------------
(***************************************************************************)
(* What a store of accounts promises, without saying how it keeps them.    *)
(* An object is a pair of a kind and a key. A domain holds accounts,       *)
(* groups and attributes; an account holds its activation and one password *)
(* per index. Accounts, groups and attributes of a domain are linked to    *)
(* each other. An object goes with everything it holds and every link it   *)
(* has, in one step.                                                       *)
(***************************************************************************)
CONSTANT Objects,        \* the objects there may be
         HolderOf(_)     \* the set of the object's holder, empty for a domain

VARIABLES live,          \* the objects that exist
          links          \* the links that exist, pairs of objects

vars == <<live, links>>

\* A domain is held by nobody, and what holds something is a domain or is held by one
\* (what Below counts on).
ThreeLevels ==
    /\ \A o \in Objects : HolderOf(o) \subseteq Objects
    /\ \A o \in Objects : \A p \in HolderOf(o) : \A q \in HolderOf(p) : HolderOf(q) = {}

\* What goes when the objects of S go: they, what they hold, and what that holds
Below(S) == LET held(T) == T \cup {o \in Objects : HolderOf(o) \cap T # {}}
                  IN  held(held(S))

Init == live = {} /\ links = {}

Create(o) ==
    /\ o \notin live
    /\ HolderOf(o) \subseteq live
    /\ live' = live \cup {o}
    /\ UNCHANGED links

Destroy(S) ==
    /\ live' = live \ Below(S)
    /\ links' = {l \in links : l[1] \notin Below(S) /\ l[2] \notin Below(S)}

Link(o, p) ==
    /\ {o, p} \subseteq live
    /\ HolderOf(o) = HolderOf(p)
    /\ links' = links \cup {<<o, p>>}
    /\ UNCHANGED live

Unlink(l) ==
    /\ l \in links
    /\ links' = links \ {l}
    /\ UNCHANGED live

\* What the store owes: an object's holder exists, a link's ends exist
Integrity ==
    /\ \A o \in live : HolderOf(o) \subseteq live
    /\ \A l \in links : l[1] \in live /\ l[2] \in live

Next ==
    \/ \E o \in Objects : Create(o) \/ Destroy({o})
    \/ \E o, p \in Objects : Link(o, p)
    \/ \E l \in links : Unlink(l)

Spec == Init /\ [][Next]_vars
=============================================================================
