------------------------------ MODULE MCSlotMap ------------------------------
(* A small instance of SlotMap: four prompt tokens, two of them in one slot, *)
(* one in a slot that other requests share and one in a slot of its own; one *)
(* token to decode, and a sidecar of one slot.                               *)
EXTENDS SlotMap, TLC

MCTokens == 0 .. 4
MCInitial == [t \in 0 .. 3 |-> IF t < 2 THEN 0 ELSE t - 1]

Symmetry == Permutations(Readers) \cup Permutations(Tasks)
=============================================================================
