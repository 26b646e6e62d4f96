------------------------------- MODULE Prefill -------------------------------
(***************************************************************************)
(* One prefill of CacheSlideRuntime, layer by layer: _prefill, attention,  *)
(* _read, _put, _prefetch, the fallback of run, release and a restart.     *)
(* A population stores the K/V and the layer inputs of its fixed tokens;   *)
(* a reuse of a prompt with the same cache key computes all rows up to the *)
(* calibration layer, then only the active ones, and takes the others from *)
(* the pages, while the next layer's page is being loaded.                 *)
(*                                                                         *)
(* A tensor of rows is a sequence, and which token stands in which place   *)
(* is kept beside it, as in the code.  What a row holds is what it was     *)
(* computed for: the token (TokenAt of RequestPlan) and the depth, the     *)
(* number of layers that it went through.                                  *)
(*                                                                         *)
(* The runtime is one thread; workers of the store complete its loads, and *)
(* the process may end at any time.  Failing clean-ups, the store and the  *)
(* arena are in Population, PageStore, PagedKV and LayerReuse.             *)
(*                                                                         *)
(* A definition named ...Fault is the one after it with a plausible        *)
(* mistake; no specification uses it.                                      *)
(***************************************************************************)
EXTENDS RequestPlan, WCA

CONSTANTS
    Requests,       \* the plans that prefills are asked for
    Layers,         \* num_hidden_layers
    Calibration,    \* calibration_layer, from zero
    Deviations,     \* bound: ranks of the deviations that are told apart
    MaxCrashes,     \* bound: ends of the process
    None

\* The fields of a WCAState for the tokens of a plan.
WCAStates(p) ==
    [mandatory : SUBSET Prompt(p), deviation : [Prompt(p) -> Nat],
     candidate : SUBSET Prompt(p), selected : SUBSET Prompt(p), removed : SUBSET Prompt(p),
     alpha : [Prompt(p) -> Nat], budget : Nat, last : Nat]

ASSUME LayersAssumption == Layers \in Nat \ {0} /\ Calibration \in 0 .. Layers - 1
ASSUME BoundAssumption == Deviations \in Nat /\ MaxCrashes \in Nat
ASSUME RequestAssumption == \A p \in Requests : IsPlan(p)
ASSUME NoneAssumption ==
    /\ None \notin Requests
    /\ None \notin [layer : Nat, load : {"ready", "running", "failed"}]
    /\ \A p \in Requests : None \notin WCAStates(p)

VARIABLES
    pages,          \* the store: the rows of each page
    loads,          \* _loads: the pages that a worker is reading
    plan,           \* the plan of the one live request, or None
    reuse, write,   \* reuse, write_cache
    profiled,       \* profiles is not empty
    created,        \* created_keys
    future,         \* kv_future and kv_future_layer, or None
    wca,            \* a WCAState, or None
    at,             \* where run is
    retried,        \* it is in the second _prefill
    index,          \* the layer, from zero
    order,          \* active, which is previous once the layer is done
    hidden,         \* the rows of hidden and residual
    kv,             \* cached_k and cached_v, then full_k and full_v
    fused,          \* used_alpha of the layer's update
    output,
    ran,            \* not in the code: the latest layer each token went through
    policies,       \* not in the code: with and without profiles, as used so far
    outcome,        \* not in the code: how the last run ended
    crashes

store == <<pages, loads>>
request == <<plan, reuse, write, profiled, created>>
rows == <<order, hidden, kv, fused>>
pass == <<index, rows, ran, policies, output>>
vars == <<store, request, future, wca, at, retried, pass, outcome, crashes>>

-----------------------------------------------------------------------------
(* Pages and rows                                                           *)

Page(p, layer, kind) == <<CacheKey(p, layer), kind>>
Marker(p) == Page(p, 0, "committed")
LayerPages(p) == {Page(p, layer, kind) : layer \in 0 .. Layers - 1, kind \in {"state", "kv"}}
Stored == DOMAIN pages
Without(S) == [p \in Stored \ S |-> pages[p]]
With(page, content) == [p \in Stored \cup {page} |-> IF p = page THEN content ELSE pages[p]]

RowAt(token, depth) == [of |-> TokenAt(plan, token), depth |-> depth]
Zero == [of |-> None, depth |-> 0]

FixedOrder == Ascending(Fixed(plan))

\* Where a sequence of tokens has t: lookup[t] and ordinal[t].
Has(tokens, t) == \E i \in DOMAIN tokens : tokens[i] = t
Place(tokens, t) == CHOOSE i \in DOMAIN tokens : tokens[i] = t

\* rows[fixed], of rows that stand in `order'.
FixedRows(tensor) == [i \in DOMAIN FixedOrder |-> tensor[Place(order, FixedOrder[i])]]

NoRows == order' = <<>> /\ hidden' = <<>> /\ kv' = <<>> /\ fused' = <<>>
NoPass == NoRows /\ index' = 0 /\ ran' = <<>> /\ policies' = {} /\ output' = <<>>

Init ==
    /\ pages = <<>> /\ loads = {}
    /\ plan = None /\ reuse = FALSE /\ write = FALSE /\ profiled = FALSE /\ created = {}
    /\ future = None /\ wca = None
    /\ at = "idle" /\ retried = FALSE
    /\ index = 0 /\ order = <<>> /\ hidden = <<>> /\ kv = <<>> /\ fused = <<>>
    /\ ran = <<>> /\ policies = {} /\ output = <<>>
    /\ outcome = "none" /\ crashes = 0

-----------------------------------------------------------------------------
(* How a step fails.  run answers its five errors with a full prefill, once;*)
(* "plain" is the answer to CCPEPositionError.  For other errors see Errs.   *)

Fails(answer) ==
    IF retried THEN at' = "idle" /\ outcome' = answer
               ELSE at' = answer /\ UNCHANGED outcome
Continues(next) == at' = next /\ UNCHANGED outcome

-----------------------------------------------------------------------------
(* The prefetch                                                             *)

Drained == future # None => future.load # "running"

Prefetches(layer) == reuse /\ layer < Layers

\* submit_load: a resident page is there at once; for another there may be no
\* room.  A second prefetch would raise.
Prefetch(layer, next) ==
    \/ ~Prefetches(layer) /\ Continues(next) /\ UNCHANGED <<loads, future>>
    \/ /\ Prefetches(layer) /\ future = None
       /\ \/ future' = [layer |-> layer, load |-> "ready"] /\ UNCHANGED loads
          \/ /\ future' = [layer |-> layer, load |-> "running"]
             /\ loads' = loads \cup {Page(plan, layer, "kv")}
       /\ Continues(next)
    \/ Prefetches(layer) /\ Fails("fallback") /\ UNCHANGED <<loads, future>>

ResolvedFault(ok) == IF ok THEN "ready" ELSE "running"
Resolved(ok) == IF ok THEN "ready" ELSE "failed"

LoadDone(page, ok) ==
    /\ page \in loads
    /\ loads' = loads \ {page}
    /\ future' = IF future # None /\ Page(plan, future.layer, "kv") = page
                 THEN [future EXCEPT !.load = Resolved(ok)] ELSE future
    /\ UNCHANGED <<pages, request, wca, at, retried, pass, outcome, crashes>>

-----------------------------------------------------------------------------
(* release and the start of a run                                           *)

\* What outlives no request.  future.cancel() never succeeds: it is waited for.
MayRetireFault == TRUE
MayRetire == Drained

Retire ==
    /\ MayRetire
    /\ pages' = Without(created)
    /\ created' = {} /\ future' = None /\ wca' = None
    /\ UNCHANGED loads

Release ==
    /\ at = "idle" /\ plan # None
    /\ Retire
    /\ plan' = None /\ reuse' = FALSE /\ write' = FALSE /\ profiled' = FALSE
    /\ NoPass /\ outcome' = "none"
    /\ UNCHANGED <<at, retried, crashes>>

Hit(p) == Fixed(p) # {} /\ {Marker(p)} \cup LayerPages(p) \subseteq Stored \ created

\* A prefill; a plan that parse refuses changes nothing, and one that asks for a
\* calibration only releases the old state.
Run(p, profiles) ==
    /\ at = "idle" /\ Accepts(p) /\ p.operation # "calibrate"
    /\ Retire
    /\ plan' = p /\ profiled' = profiles
    /\ reuse' = (p.operation = "reuse" /\ profiles /\ Hit(p))
    /\ write' = (p.operation = "populate" /\ profiles /\ ~Hit(p))
    /\ at' = (IF write' THEN "recover" ELSE "enter") /\ retried' = FALSE
    /\ NoPass /\ outcome' = "none"
    /\ UNCHANGED crashes

\* _recover_population
Recover ==
    /\ at = "recover"
    /\ \/ /\ Marker(plan) \notin Stored
          /\ pages' = Without(LayerPages(plan))
          /\ Continues("enter")
       \/ Fails("fallback") /\ UNCHANGED pages
    /\ UNCHANGED <<loads, request, future, wca, retried, pass, crashes>>

Enter ==
    /\ at = "enter"
    /\ order' = Ascending(Prompt(plan))
    /\ hidden' = [i \in DOMAIN order' |-> RowAt(order'[i], 0)]
    /\ ran' = [t \in Prompt(plan) |-> 0]
    /\ Prefetch(0, "gather")
    /\ UNCHANGED <<pages, request, wca, retried, index, kv, fused, policies, output, crashes>>

-----------------------------------------------------------------------------
(* One layer                                                                *)

\* _put: one of the two pages of the layer.
Put(kind, tensor) ==
    /\ Page(plan, index, kind) \notin Stored
    /\ pages' = With(Page(plan, index, kind), tensor)
    /\ created' = created \cup {Page(plan, index, kind)}

Active == IF wca = None THEN order ELSE Ascending(ActiveTokens(wca))
Continuing(t) == Has(order, t)
Restored(t) == pages[Page(plan, index, "state")][Place(FixedOrder, t)]

Gathered(t) == IF Continuing(t) THEN hidden[Place(order, t)] ELSE Restored(t)

\* Continuing rows are carried on, the others come from the layer's snapshot.
Gather ==
    /\ at = "gather"
    /\ \/ /\ \A i \in DOMAIN Active :
                ~Continuing(Active[i]) =>
                  (Active[i] \in Fixed(plan) /\ Page(plan, index, "state") \in Stored)
          /\ order' = Active
          /\ hidden' = [i \in DOMAIN Active |-> Gathered(Active[i])]
          /\ IF write THEN Put("state", FixedRows(hidden)) ELSE UNCHANGED <<pages, created>>
          /\ Continues(IF reuse THEN "read" ELSE "fuse")
       \/ /\ write \/ \E i \in DOMAIN Active : ~Continuing(Active[i])
          /\ Fails("fallback")
          /\ UNCHANGED <<order, hidden, pages, created>>
    /\ UNCHANGED <<loads, plan, reuse, write, profiled, future, wca, retried, index, kv, fused,
                   ran, policies, output, crashes>>

\* promote_selected takes the result of a load that just failed: run answers the
\* store's own errors, not those of the file system.
StageFails ==
    /\ at = "read" /\ wca # None /\ \E i \in DOMAIN order : order[i] \in Fixed(plan)
    /\ future # None /\ future.load = "failed"
    /\ Fails("fallback")
    /\ UNCHANGED <<store, request, future, wca, retried, pass, crashes>>

Prefetched == future # None /\ future.layer = index

\* _read of the K/V: the prefetch, or else the store.
Read ==
    /\ at = "read"
    /\ Prefetched => Drained
    /\ future' = IF Prefetched THEN None ELSE future
    /\ \/ /\ Page(plan, index, "kv") \in Stored
          /\ Prefetched => future.load = "ready"
          /\ kv' = [t \in Prompt(plan) |->
                      IF t \in Fixed(plan)
                      THEN pages[Page(plan, index, "kv")][Place(FixedOrder, t)] ELSE Zero]
          /\ Continues("prefetch")
       \/ Fails("fallback") /\ UNCHANGED kv
    /\ UNCHANGED <<store, request, wca, retried, index, order, hidden, fused, ran, policies,
                   output, crashes>>

PrefetchNext ==
    /\ at = "prefetch"
    /\ Prefetch(index + 1, "fuse")
    /\ UNCHANGED <<pages, request, wca, retried, pass, crashes>>

Sparse == reuse /\ wca # None
Observes == reuse /\ wca = None /\ index = Calibration

\* The ranks of the deviations: a recomputed row is compared with itself.
Measured ==
    {d \in [Prompt(plan) -> 0 .. Deviations] :
        /\ \A t \in Prompt(plan) \ Fixed(plan) : d[t] = 0
        /\ \A t \in Fixed(plan) : d[t] > 1 => \E u \in Fixed(plan) : d[u] = d[t] - 1}

\* WCA's part: it corrects the rows, or observes the first deviations.
Correct ==
    \/ Sparse /\ wca' \in Updated(wca, index + 1)
    \/ Observes /\ \E d \in Measured :
                      wca' \in Initialized(Fixed(plan), Mandatory(plan), d, index + 1)
    \/ ~Sparse /\ ~Observes /\ UNCHANGED wca

\* The full K/V that the layer's queries attend to.
Fuse ==
    /\ at = "fuse"
    /\ \/ /\ Correct
          /\ fused' = IF Sparse THEN [t \in Prompt(plan) |-> UsedWeight(wca, t, index + 1)]
                                ELSE <<>>
          /\ kv' = [t \in Prompt(plan) |-> IF Has(order, t) THEN hidden[Place(order, t)]
                                           ELSE IF Sparse THEN kv[t] ELSE Zero]
          /\ policies' = policies \cup {profiled}
          /\ IF write THEN Put("kv", FixedRows(hidden)) ELSE UNCHANGED <<pages, created>>
          /\ Continues("finish")
       \/ /\ \/ (Sparse \/ Observes \/ write) /\ Fails("fallback")
             \/ profiled /\ Fails("plain")
          /\ UNCHANGED <<wca, fused, kv, policies, pages, created>>
    /\ UNCHANGED <<loads, plan, reuse, write, profiled, future, retried, index, order, hidden,
                   ran, output, crashes>>

Finish ==
    /\ at = "finish"
    /\ \/ /\ hidden' = [i \in DOMAIN hidden |-> [hidden[i] EXCEPT !.depth = @ + 1]]
          /\ ran' = [t \in Prompt(plan) |-> IF Has(order, t) THEN index + 1 ELSE ran[t]]
          /\ index' = index + 1 /\ kv' = <<>> /\ fused' = <<>>
          /\ Continues(IF index' < Layers THEN "gather" ELSE "output")
       \/ /\ reuse /\ Fails("fallback")
          /\ UNCHANGED <<hidden, ran, index, kv, fused>>
    /\ UNCHANGED <<store, request, future, wca, retried, order, policies, output, crashes>>

-----------------------------------------------------------------------------
(* The end of _prefill, and the second one                                  *)

Output ==
    /\ at = "output"
    /\ \/ /\ output' = [t \in Prompt(plan) |-> IF Has(order, t) THEN hidden[Place(order, t)] ELSE Zero]
          /\ IF write THEN pages' = With(Marker(plan), <<>>) /\ created' = {} ELSE UNCHANGED <<pages, created>>
          /\ write' = FALSE
          /\ NoRows
          /\ at' = "idle" /\ outcome' = "returned"
       \/ write /\ Fails("fallback") /\ UNCHANGED <<pages, created, write, rows, output>>
    /\ UNCHANGED <<loads, plan, reuse, profiled, future, wca, retried, index, ran, policies, crashes>>

\* What the second prefill must not see of the first.
Forgotten == reuse' = FALSE /\ write' = FALSE /\ wca' = None

Fallback ==
    /\ at \in {"fallback", "plain"}
    /\ Drained
    /\ future' = None
    /\ pages' = Without(created) /\ created' = {}
    /\ Forgotten
    /\ profiled' = (profiled /\ at # "plain")
    /\ at' = "enter" /\ retried' = TRUE
    /\ NoPass
    /\ UNCHANGED <<loads, plan, outcome, crashes>>

\* Any other error, of the device, the file system or the arena, or a full
\* prefill whose output is not finite.
Errs ==
    /\ at \notin {"idle", "fallback", "plain"}
    /\ at' = "idle" /\ outcome' = "raised"
    /\ NoPass
    /\ UNCHANGED <<store, request, future, wca, retried, crashes>>

\* The process ends; the next one may find a page damaged and leave it out.
Crash(lost) ==
    /\ crashes < MaxCrashes
    /\ crashes' = crashes + 1
    /\ pages' = Without(lost) /\ loads' = {}
    /\ plan' = None /\ reuse' = FALSE /\ write' = FALSE /\ profiled' = FALSE /\ created' = {}
    /\ future' = None /\ wca' = None
    /\ at' = "idle" /\ retried' = FALSE /\ NoPass /\ outcome' = "none"

-----------------------------------------------------------------------------
(* The specification                                                        *)

Step ==
    \/ Recover \/ Enter \/ Gather \/ StageFails \/ Read \/ PrefetchNext \/ Fuse \/ Finish
    \/ Output \/ Fallback

Next ==
    \/ Release \/ \E p \in Requests, profiles \in BOOLEAN : Run(p, profiles)
    \/ Step \/ Errs
    \/ \E page \in loads, ok \in BOOLEAN : LoadDone(page, ok)
    \/ \E lost \in {{}} \cup {{p} : p \in Stored} : Crash(lost)

\* The runtime's thread goes on while it can, and so does a worker of the store.
Fairness ==
    /\ WF_vars(Step)
    /\ WF_vars(\E page \in loads, ok \in BOOLEAN : LoadDone(page, ok))

Spec == Init /\ [][Next]_vars
FairSpec == Spec /\ Fairness

-----------------------------------------------------------------------------
(* Properties                                                               *)

Computing == at \in {"gather", "read", "prefetch", "fuse", "finish", "output"}

\* Each row of the hidden states is of the token that its place stands for, and
\* of the layer that comes next, whether it was computed, carried on past rows
\* that dropped out, or restored from what a prompt with the same cache key but
\* other recomputed chunks stored; and the K/V that a layer attends to are of
\* that layer, one row for each token of the prompt, in its order.
RowsExact ==
    /\ Computing =>
         /\ DOMAIN hidden = DOMAIN order
         /\ \A i \in DOMAIN order : hidden[i] = RowAt(order[i], index)
    /\ at = "finish" => \A t \in Prompt(plan) : kv[t] = RowAt(t, index)

\* Every load that the runtime's prefetches started and that is not over is the
\* live request's one prefetch; none is left when a prefill has returned, or has
\* begun again, or the request is gone; and no prefetch finds another.
PrefetchOwned ==
    /\ loads # {} => /\ future # None /\ future.load = "running"
                     /\ loads = {Page(plan, future.layer, "kv")}
    /\ future # None => plan # None /\ reuse
    /\ outcome = "returned" => future = None
    /\ at = "prefetch" => future = None

\* At every layer the corrected tokens are the most deviating reusable tokens
\* that no gate removed, as many as the budget allows; and a layer's update is
\* asked for the rows and the layer that it expects.
SelectionBest ==
    wca # None =>
        /\ BestSelected(wca)
        /\ wca.selected \cup wca.removed \subseteq Fixed(plan)
        /\ Prompt(plan) \ Fixed(plan) \subseteq wca.mandatory
        /\ at \in {"read", "prefetch", "fuse"} =>
             wca.last = index /\ order = Ascending(ActiveTokens(wca))

\* A corrected row is fused with the weight of the layer at which it was last
\* computed, which for a token that a gate promoted is an early one.
WeightsTimely ==
    at = "finish" /\ fused # <<>> =>
        \A i \in DOMAIN order :
            fused[order[i]] = IF order[i] \in Mandatory(plan) THEN Fresh
                              ELSE IF WeightUpdate = "previous_layer" THEN ran[order[i]]
                              ELSE index + 1

\* A prefill that returned has the prompt's last row through all layers, and all
\* rows unless it reused; a second prefill keeps nothing of the first; and one
\* output is computed wholly with the profiles or wholly without.
OutputSound ==
    outcome = "returned" =>
        /\ output[Len(plan.tokens) - 1] = RowAt(Len(plan.tokens) - 1, Layers)
        /\ ~reuse => \A t \in Prompt(plan) : output[t] = RowAt(t, Layers)
        /\ policies = {profiled}

\* run returns or raises, also when it has to wait for a load.
PrefillEnds == at # "idle" ~> at = "idle"

\* Whenever the strict position policy finds an invalid path, the prompt is
\* computed again without profiles.
PositionRecovered == outcome # "plain"
=============================================================================
