------------------------------ MODULE MCServing ------------------------------
(* Small instances of Serving. *)
EXTENDS Serving, TLC

Symmetry == Permutations(Ids) \cup Permutations(Args)
=============================================================================
