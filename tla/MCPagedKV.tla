------------------------------ MODULE MCPagedKV ------------------------------
(* Small instances of PagedKV: a prompt of two tokens and one or two decode  *)
(* steps, in a permuted block table.                                         *)
EXTENDS PagedKV, TLC

MCTokens == 0 .. Prompt + Steps - 1
MCTable == [t \in MCTokens |-> Prompt + Steps - 1 - t]
MCInitial == [t \in 0 .. Prompt - 1 |-> MCTable[t]]

ASSUME ArenaAssumption == Assumptions

Symmetry == Permutations(Readers) \cup Permutations(Tasks)
=============================================================================
