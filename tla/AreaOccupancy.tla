----------------------------- MODULE AreaOccupancy -----------------------------
(* What the allocation services promise a reader of the venue map: at any moment  *)
(* an area is free, held by exactly one deal or partner, or deleted.  It goes to  *)
(* a new holder only from free, one step frees areas of one holder only, and a    *)
(* deleted area never comes back.  A removal starts on a free area; what it does  *)
(* not do is keep the area free until it is through.                              *)
CONSTANTS Areas, Targets,
          Free, Gone      \* marks of an area nobody holds; neither is a target

VARIABLES occupant,       \* area -> its holder, Free or Gone
          retiring        \* the areas somebody is removing

Init == occupant = [a \in Areas |-> Free] /\ retiring = {}

Occupy(a, t) ==
    /\ occupant[a] = Free
    /\ occupant' = [occupant EXCEPT ![a] = t]
    /\ UNCHANGED retiring

\* A release frees one area; losing or deleting a deal frees several.
Vacate(t, S) ==
    /\ \A a \in S : occupant[a] = t
    /\ occupant' = [a \in Areas |-> IF a \in S THEN Free ELSE occupant[a]]
    /\ UNCHANGED retiring

\* A removal is accepted: nobody holds the area.
Announce(a) ==
    /\ occupant[a] = Free
    /\ retiring' = retiring \cup {a}
    /\ UNCHANGED occupant

\* A removal ends without deleting the area.
Withdraw(a) ==
    /\ retiring' = retiring \ {a}
    /\ UNCHANGED occupant

\* A removal deletes the area; another removal of it may still be under way.
Delete(a) ==
    /\ a \in retiring
    /\ occupant' = [occupant EXCEPT ![a] = Gone]
    /\ retiring' \in {retiring, retiring \ {a}}

Retire(a) == occupant[a] = Free /\ Delete(a)

\* What the documents rule out and the code allows: the area was assigned while its
\* removal was under way, and is deleted together with the allocation.
Evict(a) == occupant[a] \in Targets /\ Delete(a)

Next == \/ \E a \in Areas, t \in Targets : Occupy(a, t)
        \/ \E t \in Targets, S \in SUBSET Areas : Vacate(t, S)
        \/ \E a \in Areas : Announce(a) \/ Withdraw(a) \/ Retire(a) \/ Evict(a)

Spec == Init /\ [][Next]_<<occupant, retiring>>
=============================================================================
