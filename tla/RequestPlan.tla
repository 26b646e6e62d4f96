----------------------------- MODULE RequestPlan -----------------------------
(***************************************************************************)
(* RequestPlan of contracts.py: how the metadata of a request divides its  *)
(* prompt into chunks that are reused or recomputed, and by which key its  *)
(* pages are stored.                                                       *)
(*                                                                         *)
(* A plan is [operation, namespace, task, chunks, tokens]; a chunk is      *)
(* [id, role, start, end] and covers the token offsets start .. end - 1,   *)
(* which count from 0 as in the code.  Digests are taken to be injective,  *)
(* so a digest is the value that it is made of.                            *)
(*                                                                         *)
(* A definition named ...Fault is the one after it with a plausible        *)
(* mistake; no specification uses it.                                      *)
(***************************************************************************)
EXTENDS Integers, Sequences, FiniteSets

MaxChunks == 1024

\* The fields of a plan that parse works on.
IsPlan(plan) ==
    /\ plan.tokens \in Seq(Int)
    /\ plan.chunks \in Seq([id : STRING, role : STRING, start : Int, end : Int])

Span(chunk) == chunk.start .. chunk.end - 1
Prompt(plan) == 0 .. Len(plan.tokens) - 1

-----------------------------------------------------------------------------
(* parse                                                                    *)

\* Where the chunks before the i-th one end.
Cursor(chunks, i) == IF i = 1 THEN 0 ELSE chunks[i - 1].end

Adjoins(chunks, i, n) ==
    /\ chunks[i].start = Cursor(chunks, i)
    /\ chunks[i].start < chunks[i].end /\ chunks[i].end =< n

Accepts(plan) ==
    /\ Len(plan.tokens) > 0 /\ Len(plan.chunks) \in 1 .. MaxChunks
    /\ \A i \in DOMAIN plan.chunks : Adjoins(plan.chunks, i, Len(plan.tokens))
    /\ \A i \in DOMAIN plan.chunks : plan.chunks[i].role \in {"reuse", "recompute"}
    /\ \A i, j \in DOMAIN plan.chunks : i # j => plan.chunks[i].id # plan.chunks[j].id
    /\ plan.chunks[Len(plan.chunks)].end = Len(plan.tokens)

-----------------------------------------------------------------------------
(* fixed_indices, mandatory_indices, fixed_layout and cache_key             *)

InRole(plan, role) ==
    {p \in Prompt(plan) : \E i \in DOMAIN plan.chunks :
                             plan.chunks[i].role = role /\ p \in Span(plan.chunks[i])}

Fixed(plan) == InRole(plan, "reuse")
MandatoryFault(plan) == InRole(plan, "recompute")
Mandatory(plan) == {Len(plan.tokens) - 1} \cup InRole(plan, "recompute")

Content(plan, chunk) == SubSeq(plan.tokens, chunk.start + 1, chunk.end)

\* The numbers of a finite set in their order.
Ascending(S) ==
    [i \in 1 .. Cardinality(S) |-> CHOOSE s \in S : Cardinality({t \in S : t < s}) = i - 1]

Layout(plan, chunks) ==
    LET reused == Ascending({i \in DOMAIN chunks : chunks[i].role = "reuse"})
    IN [k \in DOMAIN reused |-> <<chunks[reused[k]].id, Content(plan, chunks[reused[k]])>>]
FixedLayout(plan) == Layout(plan, plan.chunks)

\* Which chunks there are, in which order: their content may vary.
Template(plan) == [i \in DOMAIN plan.chunks |-> <<plan.chunks[i].id, plan.chunks[i].role>>]

CacheKeyFault(plan, layer) == <<plan.namespace, plan.task, Template(plan), layer>>
CacheKey(plan, layer) ==
    <<plan.namespace, plan.task, FixedLayout(plan), Template(plan), layer>>

-----------------------------------------------------------------------------
(* Not in the code: what a row computed for a token of the prompt stands    *)
(* for.  A reusable row depends on every reusable chunk before it.          *)

ChunkOf(plan, p) == CHOOSE i \in DOMAIN plan.chunks : p \in Span(plan.chunks[i])

TokenAt(plan, p) ==
    LET i == ChunkOf(plan, p)
    IN [task |-> plan.task, template |-> Template(plan), chunk |-> i,
        offset |-> p - plan.chunks[i].start, token |-> plan.tokens[p + 1],
        before |-> Layout(plan, SubSeq(plan.chunks, 1, i - 1))]
=============================================================================
