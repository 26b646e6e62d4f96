----------------------------- MODULE MCPretraining ----------------------------
(* The smallest training that can be resumed: two updates over one row.       *)
EXTENDS Pretraining, TLC

MCStops == {1, None}
MCOrder == 0 :> <<0>> @@ 1 :> <<0>>
=============================================================================
