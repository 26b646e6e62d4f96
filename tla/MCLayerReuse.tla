---------------------------- MODULE MCLayerReuse ----------------------------
(* A layer of three prompt tokens, one of them selected and one mandatory.   *)
EXTENDS LayerReuse, TLC

MCTokens == 0 .. Prompt + Steps - 1
MCTable == [t \in MCTokens |-> Prompt + Steps - 1 - t]
MCInitial == [t \in 0 .. Prompt - 1 |-> MCTable[t]]
=============================================================================
