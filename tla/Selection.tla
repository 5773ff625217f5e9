----------------------------- MODULE Selection -----------------------------
(***************************************************************************)
(* What a loop over a sequence keeps of it.  Select(s, S) is SelectSeq for *)
(* membership of a set, as a recursive function: SelectionLemmas says what *)
(* it yields.                                                              *)
(***************************************************************************)
EXTENDS Integers, Sequences

(* The elements of a sequence that are in a set, in their order. *)
Select(s, S) ==
    LET kept[i \in 0 .. Len(s)] ==
            IF i = 0 THEN <<>>
            ELSE IF s[i] \in S THEN Append(kept[i - 1], s[i]) ELSE kept[i - 1]
    IN  kept[Len(s)]
=============================================================================
