---------------------------- MODULE LowestFreeId ----------------------------
(***************************************************************************)
(* What a bot model is promised by its id generator: the ids of the live   *)
(* bots are distinct and as small as they can be, so that a model of n     *)
(* bots uses small indices whatever bots stopped before.                   *)
(***************************************************************************)
EXTENDS Integers

CONSTANT MaxId      \* the largest id considered

VARIABLE ids        \* the ids in use

Init == ids = {}

(* The smallest id that is not in use is handed out. *)
Acquire ==
    \E id \in 1 .. MaxId :
        /\ id \notin ids
        /\ \A k \in 1 .. (id - 1) : k \in ids
        /\ ids' = ids \cup {id}

Release == \E id \in ids : ids' = ids \ {id}

Next == Acquire \/ Release

Spec == Init /\ [][Next]_ids
=============================================================================
