-------------------------------- MODULE IdPool --------------------------------
(***************************************************************************)
(* What a pool of ids promises its users: TEIDs, UE addresses and the      *)
(* slots of the rule maps are all handed out like this.                    *)
(*                                                                         *)
(* places[i] says where id i is: {Free} when it can be handed out, {h}     *)
(* when it is with h, {} when nobody knows it any more.  No id is ever in  *)
(* two places; an id goes from one holder to another only through the      *)
(* pool; a forgotten id does not come back.                                *)
(***************************************************************************)
CONSTANTS
    Id,       \* the ids
    Holder,   \* who can hold one
    Free      \* the pool itself, not a member of Holder

VARIABLE places

Init == places = [i \in Id |-> {Free}]

FreeIds == {i \in Id : places[i] = {Free}}

\* Free id i goes to h; an id h already has is forgotten.
Take(i, h) ==
    places' = [j \in Id |-> IF j = i THEN {h} ELSE places[j] \ {h}]

\* Those who hold an id.
Holders == (UNION {places[i] : i \in Id}) \ {Free}

\* The ids of the holders H are free again.
Release(H) ==
    places' = [j \in Id |-> IF places[j] \cap H # {} THEN {Free} ELSE places[j]]

\* The holders H go without giving anything back.
Forget(H) ==
    places' = [j \in Id |-> places[j] \ H]

Next ==
    \/ \E H \in SUBSET Holders : Release(H)
    \/ \E i \in FreeIds : \E h \in Holder : Take(i, h)

\* A pool whose ids are lost only when a holder takes another.
Spec == Init /\ [][Next]_places

\* A pool whose holders may go without giving back what they hold.
LossyNext == Next \/ \E H \in SUBSET Holders : Forget(H)
LossySpec == Init /\ [][LossyNext]_places

-----------------------------------------------------------------------------
(* What both kinds of pool promise *)

\* No id is in two places.
OnePlace == \A i \in Id : \A x, y \in places[i] : x = y

\* An id that leaves a holder goes to the pool or gets lost, and a lost id stays lost.
Passes ==
    \A i \in Id :
        \/ places'[i] = places[i]
        \/ places[i] = {Free}
        \/ places[i] # {} /\ places'[i] \subseteq {Free}

\* Between two holders an id is free.
Handover == [][Passes]_places
=============================================================================
