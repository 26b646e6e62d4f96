------------------------------ MODULE MCPrefill ------------------------------
(* Small instances of Prefill: one prompt template with two reusable chunks  *)
(* around a recomputed one; its last token is reusable.                     *)
EXTENDS Prefill, TLC

Chunks(middle) ==
    << [id |-> "a", role |-> "reuse", start |-> 0, end |-> 2],
       [id |-> "d", role |-> "recompute", start |-> 2, end |-> 2 + middle],
       [id |-> "b", role |-> "reuse", start |-> 2 + middle, end |-> 3 + middle] >>

Plan(operation, tokens) ==
    [operation |-> operation, namespace |-> "n", task |-> "t",
     chunks |-> Chunks(Len(tokens) - 3), tokens |-> tokens]

Gap(p) == [p EXCEPT !.chunks[2].end = @ - 1]

MCRequests ==
    { Plan("populate", <<1, 2, 7, 3>>), Plan("populate", <<4, 2, 7, 3>>),
      Plan("reuse", <<1, 2, 8, 9, 3>>), Gap(Plan("reuse", <<1, 2, 8, 9, 3>>)) }
=============================================================================
