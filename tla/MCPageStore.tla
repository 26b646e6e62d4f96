----------------------------- MODULE MCPageStore -----------------------------
(* Small instances of PageStore: v is a small unselected payload, w a larger *)
(* one with a selected token.                                                *)
EXTENDS PageStore, TLC

CONSTANTS v, w

MCSize == [x \in Values |-> IF x = w THEN 2 ELSE 1]
MCSelected == [x \in Values |-> IF x = w THEN 1 ELSE 0]

Symmetry == Permutations(Keys) \cup Permutations(Clients)
=============================================================================
