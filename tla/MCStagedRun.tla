----------------------------- MODULE MCStagedRun -----------------------------
(* Small instances of StagedRun. *)
EXTENDS StagedRun, TLC

Symmetry == Permutations(Processes)
=============================================================================
