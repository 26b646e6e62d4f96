---------------------------- MODULE MCPopulation ----------------------------
(* Small instances of Population. *)
EXTENDS Population, TLC

CONSTANTS a, b
=============================================================================
