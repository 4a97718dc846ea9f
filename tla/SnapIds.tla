------------------------------ MODULE SnapIds ------------------------------
(***************************************************************************)
(* What CSnapIdPool promises the entities: an id has at most one owner,    *)
(* ids that were given back wait in a first-in first-out quarantine, and   *)
(* an entity goes without an id only when none is free.                    *)
(***************************************************************************)
EXTENDS Integers, Sequences

CONSTANTS Ids, Entities

VARIABLES
    free,    \* the ids that can be handed out
    timed,   \* the quarantine, oldest first
    held     \* the ids each entity holds: none or one

vars == <<free, timed, held>>

Init == /\ free = Ids
        /\ timed = <<>>
        /\ held = [e \in Entities |-> {}]

\* The oldest id in quarantine becomes available.
Release ==
    /\ timed # <<>>
    /\ free' = free \cup {Head(timed)}
    /\ timed' = Tail(timed)
    /\ UNCHANGED held

\* A new entity receives a free id.
Allocate(e) ==
    /\ held[e] = {}
    /\ \E id \in free : /\ free' = free \ {id}
                        /\ held' = [held EXCEPT ![e] = {id}]
    /\ UNCHANGED timed

\* An entity is destroyed and its id joins the end of the quarantine.
GiveBack(e) ==
    \E id \in held[e] : /\ timed' = Append(timed, id)
                        /\ held' = [held EXCEPT ![e] = {}]
                        /\ UNCHANGED free

Next == Release \/ \E e \in Entities : Allocate(e) \/ GiveBack(e)

Spec == Init /\ [][Next]_vars
=============================================================================
