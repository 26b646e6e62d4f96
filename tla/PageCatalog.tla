----------------------------- MODULE PageCatalog -----------------------------
(***************************************************************************)
(* What a page store promises its callers: a map from keys to immutable    *)
(* values.  A value, once put, can only disappear: by a delete, by a       *)
(* restart when its durability was never acknowledged, or because an       *)
(* operator removed a damaged file.  It is never replaced in place, and a  *)
(* value that was acknowledged as durable survives every restart.          *)
(* Eviction, loading, pinning and capacity are invisible at this level.    *)
(***************************************************************************)
CONSTANTS Keys, Values, None

VARIABLES
    content,    \* [Keys -> Values \cup {None}]: what a lookup would find
    safe        \* the keys whose durability was acknowledged

vars == <<content, safe>>

Stored == {k \in Keys : content[k] # None}

Init == /\ content = [k \in Keys |-> None]
        /\ safe = {}

Put(k, v) == /\ content[k] = None
             /\ content' = [content EXCEPT ![k] = v]
             /\ UNCHANGED safe

Acknowledge(k) == /\ k \in Stored
                  /\ safe' = safe \cup {k}
                  /\ UNCHANGED content

Delete(k) == /\ k \in Stored
             /\ content' = [content EXCEPT ![k] = None]
             /\ safe' = safe \ {k}

\* The process stops, orderly or not: any page never acknowledged may be lost.
Restart(kept) == /\ safe \subseteq kept
                 /\ content' = [k \in Keys |-> IF k \in kept THEN content[k] ELSE None]
                 /\ UNCHANGED safe

\* An operator removes files that no longer verify.
Repair(lost) == /\ content' = [k \in Keys |-> IF k \in lost THEN None ELSE content[k]]
                /\ safe' = safe \ lost

Next == \/ \E k \in Keys, v \in Values : Put(k, v)
        \/ \E k \in Keys : Acknowledge(k) \/ Delete(k)
        \/ \E kept \in SUBSET Keys : Restart(kept)
        \/ \E lost \in SUBSET Keys : Repair(lost)

Spec == Init /\ [][Next]_vars
=============================================================================
