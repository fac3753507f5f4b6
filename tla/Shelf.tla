-------------------------------- MODULE Shelf --------------------------------
(***************************************************************************)
(* What the plan store promises (include/opp/store.hpp): a bounded shelf   *)
(* with one place per digest.  An artifact appears on it in one step, is   *)
(* never replaced, and leaves it only when it is withdrawn; a place that   *)
(* was spoiled from outside stays spoiled until it is cleared.  Power loss *)
(* takes the shelf back to an earlier state of itself, never to a mixture. *)
(***************************************************************************)
EXTENDS Naturals, FiniteSets

CONSTANTS Digests, Capacity

VARIABLES
    shelf,  \* shelf[d]: "empty", "held" or "spoiled"
    saved   \* the shelf a power loss goes back to

shelfVars == <<shelf, saved>>

Filled(s) == {d \in Digests : s[d] # "empty"}

ShelfInit ==
    /\ shelf = [d \in Digests |-> "empty"]
    /\ saved = shelf

Place(d) ==
    /\ shelf[d] = "empty"
    /\ Cardinality(Filled(shelf)) < Capacity
    /\ shelf' = [shelf EXCEPT ![d] = "held"]
    /\ UNCHANGED saved

Withdraw(d) ==
    /\ shelf[d] # "empty"
    /\ shelf' = [shelf EXCEPT ![d] = "empty"]
    /\ UNCHANGED saved

Spoil(d) ==
    /\ shelf[d] # "empty"
    /\ shelf' = [shelf EXCEPT ![d] = "spoiled"]
    /\ saved' = [saved EXCEPT ![d] = IF @ = "empty" THEN @ ELSE "spoiled"]

Save == saved' = shelf /\ UNCHANGED shelf

Revert == shelf' = saved /\ UNCHANGED saved

ShelfNext ==
    \/ \E d \in Digests : Place(d) \/ Withdraw(d) \/ Spoil(d)
    \/ Save \/ Revert

ShelfSpec == ShelfInit /\ [][ShelfNext]_shelfVars
=============================================================================
