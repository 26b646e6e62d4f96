------------------------------ MODULE MCOffline ------------------------------
(* Small instances of the two offline programs: a corpus of three rows,      *)
(* shuffled anew in every epoch; a file of known length and an archive of    *)
(* unknown length.                                                           *)
EXTENDS Offline, TLC

CONSTANTS shard, archive, all, models

MCStops == {3, None}
MCOrder == 0 :> <<1, 0, 2>> @@ 1 :> <<2, 1, 0>> @@ 2 :> <<0, 2, 1>> @@ 3 :> <<2, 0, 1>>

MCLength == shard :> 2 @@ archive :> 1
MCLimit == shard :> 2 @@ archive :> 2
MCChosen == all :> {shard, archive} @@ models :> {shard}
=============================================================================
