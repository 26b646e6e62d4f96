----------------------------- MODULE MCWaitQueue -----------------------------
(* Small instances of WaitQueue. *)
EXTENDS WaitQueue, TLC
=============================================================================
