------------------------------- MODULE Serving -------------------------------
(***************************************************************************)
(* One engine process serving requests: the adapters that integration.py   *)
(* puts on the native model runner, V1 or V2, and the request states of    *)
(* runtime.py that prefill, decode and replay steps reach through them.    *)
(*                                                                         *)
(* The scheduler and the native runner are external: they admit, schedule, *)
(* preempt and finish requests, any operation of theirs may fail, and what *)
(* failed may be scheduled again.  A request's metadata is one of Args,    *)
(* its tokens are their number, and a row of K/V is the position and the   *)
(* metadata that it was computed from.  Pages and snapshots are those of   *)
(* Population: here a prefill computes, or reuses, all rows.               *)
(*                                                                         *)
(* A definition named ...Fault is the one after it with a plausible        *)
(* mistake; no specification uses it.                                      *)
(***************************************************************************)
EXTENDS Integers, Sequences

CONSTANTS
    Ids, Args,  \* request IDs, and the metadata they may carry
    Prompt,     \* the length of a prompt
    MaxTokens,  \* bound: tokens of a request that is still scheduled
    Layers,
    Paged,      \* the runtime has an arena factory, as in the engine
    None

ASSUME SizeAssumption ==
    Prompt \in Nat \ {0} /\ MaxTokens \in Nat /\ Prompt =< MaxTokens /\ Layers \in Nat \ {0}

\* What the runner, the adapter and the runtime keep of a request.
Numbers == 0 .. Layers - 1
Positions == 0 .. MaxTokens
Natives == [args : Args, known : Prompt .. MaxTokens + 1, computed : Positions, there : BOOLEAN]
Snapshots == [args : Args, prefill : Positions]
States == [args : Args, decoded : Positions,
           rows : [Numbers -> {None} \cup Seq(Positions \X Args)]]

ASSUME NoneAssumption ==
    /\ None \notin Ids /\ None \notin Args /\ Paged \in BOOLEAN
    /\ None \notin Natives /\ None \notin Snapshots /\ None \notin States

VARIABLES
    v2,         \* which of the two runners the adapter was attached to
    engine,     \* [id -> the native request: metadata, tokens known, rows
                \*        computed, whether the runner has it], or None
    snapshots,  \* [id -> what the adapter keeps of a request], or None
    requests,   \* runtime.requests: [id -> state], or None
    context,    \* _CURRENT_STEP
    at, call    \* the execution in progress

adapter == <<snapshots, context>>
vars == <<v2, engine, adapter, requests, at, call>>

NoCall == [new |-> None, batch |-> None, count |-> 0, layer |-> 0, fallback |-> FALSE]
NoRows == [l \in Numbers |-> <<>>]
There == {q \in Ids : engine[q] # None /\ engine[q].there}

Init ==
    /\ v2 \in BOOLEAN
    /\ engine = [q \in Ids |-> None]
    /\ snapshots = [q \in Ids |-> None]
    /\ requests = [q \in Ids |-> None]
    /\ context = None
    /\ at = "idle" /\ call = NoCall

\* The scope of execute or forward ends, by a return or by an exception.
Ends ==
    /\ context' = None
    /\ at' = "idle" /\ call' = NoCall

-----------------------------------------------------------------------------
(* The scheduler                                                            *)

Submit(q, x) ==
    /\ engine[q] = None
    /\ engine' = [engine EXCEPT ![q] = [args |-> x, known |-> Prompt, computed |-> 0,
                                        there |-> FALSE]]
    /\ UNCHANGED <<v2, adapter, requests, at, call>>

\* The mapping that a request carries is not the adapter's own.
Mutate(q, x) ==
    /\ engine[q] # None
    /\ engine' = [engine EXCEPT ![q].args = x]
    /\ UNCHANGED <<v2, adapter, requests, at, call>>

SnapshotGoneFault(q) == UNCHANGED snapshots
SnapshotGone(q) == snapshots' = [snapshots EXCEPT ![q] = None]

\* remove (V2) or cleanup (V1), and release of the runtime.
Removed(q) == SnapshotGone(q) /\ requests' = [requests EXCEPT ![q] = None]

\* The scheduled rows: those not computed yet, or the first of them.
Schedulable(q, count) ==
    /\ engine[q] # None
    /\ engine[q].known =< MaxTokens
    /\ count \in 1 .. engine[q].known - engine[q].computed

\* A request ends or, without gone, nothing does; another may be admitted.
Begin(gone, new, batch, count) ==
    /\ at = "idle" /\ at' = "add"
    /\ call' = [NoCall EXCEPT !.new = new, !.batch = batch, !.count = count]
    /\ IF gone = None THEN UNCHANGED <<engine, snapshots, requests>>
       ELSE Removed(gone) /\ engine' = [engine EXCEPT ![gone] = None]
    /\ UNCHANGED <<v2, context>>

Execute ==
    \E gone \in {None} \cup There, new \in {None} \cup Ids :
        /\ new # None => /\ new # gone /\ engine[new] # None
                         /\ ~v2 => new \notin There
        /\ \/ new = None /\ Begin(gone, None, None, 0)
           \/ \E q \in IF new # None THEN {new} ELSE There \ {gone} :
                 \E count \in 1 .. MaxTokens :
                     Schedulable(q, count) /\ Begin(gone, new, q, count)

\* V2 removes a preempted request, V1 keeps it; both start it anew.
Preempt(q) ==
    /\ at = "idle"
    /\ q \in There
    /\ engine' = [engine EXCEPT ![q].computed = 0, ![q].there = ~v2]
    /\ IF v2 THEN Removed(q) ELSE UNCHANGED <<snapshots, requests>>
    /\ UNCHANGED <<v2, context, at, call>>

\* execute_model(dummy_run=True): the model runs without a step.
DummyRun ==
    /\ at = "idle" /\ at' = "dummy"
    /\ UNCHANGED <<v2, engine, adapter, requests, call>>

DummyDone ==
    /\ at = "dummy"
    /\ Ends
    /\ UNCHANGED <<v2, engine, snapshots, requests>>

-----------------------------------------------------------------------------
(* Admission                                                                *)

Installed(q) == [engine EXCEPT ![q].there = TRUE, ![q].computed = 0]

PublishedFault(q) == UNCHANGED snapshots
Published(q) ==
    snapshots' = [snapshots EXCEPT ![q] = [args |-> engine[q].args,
                                           prefill |-> engine[q].known]]

\* Native add_requests removes what it had of the id, then installs it; the
\* snapshot is published after that.  V1 has no hook here.
Add ==
    /\ at = "add"
    /\ at' = IF call.batch = None THEN "idle" ELSE "prepare"
    /\ call' = IF call.batch = None THEN NoCall ELSE call
    /\ IF call.new = None THEN UNCHANGED <<engine, snapshots, requests>>
       ELSE /\ engine' = Installed(call.new)
            /\ IF v2 THEN /\ Published(call.new)
                          /\ requests' = [requests EXCEPT ![call.new] = None]
               ELSE UNCHANGED <<snapshots, requests>>
    /\ UNCHANGED <<v2, context>>

\* Native add_requests fails after the removal.
AddFails ==
    /\ at = "add" /\ call.new # None
    /\ engine' = [engine EXCEPT ![call.new].there = FALSE, ![call.new].computed = 0]
    /\ IF v2 THEN Removed(call.new) ELSE UNCHANGED <<snapshots, requests>>
    /\ Ends /\ UNCHANGED v2

-----------------------------------------------------------------------------
(* The step of an execution                                                 *)

First == engine[call.batch].computed

\* V1: _make_step, from the native request as it is now.
StepOfNative ==
    [id |-> call.batch, args |-> engine[call.batch].args, first |-> First,
     count |-> call.count, replay |-> First = 0 /\ call.count > Prompt]

\* V2: prepare, from the snapshot.
StepOfSnapshot ==
    [id |-> call.batch, args |-> snapshots[call.batch].args, first |-> First,
     count |-> call.count,
     replay |-> First = 0 /\ snapshots[call.batch].prefill > Prompt]

\* _validate_step_positions
Unchunked(s) == IF s.first < Prompt THEN s.first = 0 /\ (s.replay \/ s.count = Prompt)
                ELSE s.count = 1

UnchangedInputsFault(q) == TRUE
UnchangedInputs(q) == snapshots[q] # None => snapshots[q].args = engine[q].args

AcceptsNative ==
    /\ StepOfNative.replay => call.count = engine[call.batch].known
    /\ Unchunked(StepOfNative)
    /\ UnchangedInputs(call.batch)

AcceptsSnapshot ==
    /\ snapshots[call.batch] # None
    /\ First = 0 => call.count = snapshots[call.batch].prefill
    /\ Unchunked(StepOfSnapshot)

Accepts == IF v2 THEN AcceptsSnapshot ELSE AcceptsNative

Prepare ==
    /\ at = "prepare" /\ at' = "run"
    /\ Accepts
    /\ IF v2 THEN /\ context' = StepOfSnapshot
                  /\ UNCHANGED snapshots
       ELSE /\ context' = StepOfNative
            /\ snapshots' = [snapshots EXCEPT ![call.batch] =
                  IF @ = None THEN [args |-> StepOfNative.args, prefill |-> 0] ELSE @]
    /\ UNCHANGED <<v2, engine, requests, call>>

PrepareRefused ==
    /\ at = "prepare"
    /\ ~Accepts
    /\ Ends
    /\ UNCHANGED <<v2, engine, snapshots, requests>>

-----------------------------------------------------------------------------
(* CacheSlideRuntime.run and attention                                      *)

Mine == requests[context.id]
IsPrefill == context.first = 0 /\ context.count = IF context.replay THEN context.count ELSE Prompt

Decoded(count) == count - Prompt

\* A prefill of a known request releases what is left of it: a replay.
RunPrefill ==
    /\ at = "run" /\ at' = "layers"
    /\ IsPrefill
    /\ requests' = [requests EXCEPT ![context.id] =
          [args |-> context.args, decoded |-> Decoded(context.count), rows |-> NoRows]]
    /\ UNCHANGED <<v2, engine, adapter, call>>

\* The prompt is over the budget, or the metadata is not what run accepts, before
\* or after the release of what is left.
PrefillRefused ==
    /\ at = "run"
    /\ IsPrefill
    /\ \/ UNCHANGED requests
       \/ requests' = [requests EXCEPT ![context.id] = None]
    /\ Ends
    /\ UNCHANGED <<v2, engine, snapshots>>

Consecutive == context.first = Prompt + Mine.decoded

Decodable == Mine # None /\ Mine.args = context.args /\ Consecutive

RunDecode ==
    /\ at = "run" /\ at' = "layers"
    /\ ~IsPrefill
    /\ Decodable
    /\ UNCHANGED <<v2, engine, adapter, requests, call>>

RunRefused ==
    /\ at = "run"
    /\ ~IsPrefill /\ ~Decodable
    /\ Ends
    /\ UNCHANGED <<v2, engine, snapshots, requests>>

Row(p) == <<p, context.args>>
Prefilled == [i \in 1 .. context.count |-> Row(i - 1)]

\* What the layer has written, or nothing.  An arena appends the next row only,
\* and a failed write retires it; without arenas the row is concatenated.
Appendable(rows) == Paged => rows # None /\ Len(rows) = context.first
Attended(rows) == IF IsPrefill THEN Prefilled ELSE Append(rows, Row(context.first))

Keep(rows) == requests' = [requests EXCEPT ![context.id].rows[call.layer] = rows]

Attend ==
    /\ at = "layers" /\ call.layer < Layers
    /\ IsPrefill \/ Appendable(Mine.rows[call.layer])
    /\ Keep(Attended(Mine.rows[call.layer]))
    /\ call' = [call EXCEPT !.layer = @ + 1]
    /\ UNCHANGED <<v2, engine, adapter, at>>

\* An exception that run does not catch: before the layer's write, in it, after
\* it, or because the arena refuses the row.
LayerFails ==
    /\ at = "layers" /\ call.layer < Layers
    /\ LET rows == Mine.rows[call.layer]
       IN \/ UNCHANGED requests
          \/ Paged /\ rows # None /\ Keep(None)
          \/ (IsPrefill \/ Appendable(rows)) /\ Keep(Attended(rows))
    /\ Ends
    /\ UNCHANGED <<v2, engine, snapshots>>

\* The full prefill after a failed reuse or population.
Fallback ==
    /\ at = "layers"
    /\ IsPrefill /\ ~call.fallback
    /\ requests' = [requests EXCEPT ![context.id].rows = NoRows]
    /\ call' = [call EXCEPT !.layer = 0, !.fallback = TRUE]
    /\ UNCHANGED <<v2, engine, adapter, at>>

\* run returns.
ModelDone ==
    /\ at = "layers" /\ call.layer = Layers
    /\ at' = "sample"
    /\ requests' = IF IsPrefill THEN requests
                   ELSE [requests EXCEPT ![context.id].decoded = @ + 1]
    /\ UNCHANGED <<v2, engine, adapter, call>>

\* A token is sampled when all rows are there.
Sampled ==
    /\ at = "sample"
    /\ LET q == call.batch
           rows == engine[q].computed + call.count
       IN engine' = [engine EXCEPT ![q].computed = rows,
                                   ![q].known = IF rows = @ THEN @ + 1 ELSE @]
    /\ Ends
    /\ UNCHANGED <<v2, snapshots, requests>>

SamplingFails ==
    /\ at = "sample"
    /\ Ends
    /\ UNCHANGED <<v2, engine, snapshots, requests>>

-----------------------------------------------------------------------------
Next ==
    \/ \E q \in Ids : \/ \E x \in Args : Submit(q, x) \/ Mutate(q, x)
                      \/ Preempt(q)
    \/ Execute \/ DummyRun \/ DummyDone
    \/ Add \/ AddFails
    \/ Prepare \/ PrepareRefused
    \/ RunPrefill \/ PrefillRefused \/ RunDecode \/ RunRefused
    \/ Attend \/ LayerFails \/ Fallback \/ ModelDone
    \/ Sampled \/ SamplingFails

Spec == Init /\ [][Next]_vars

-----------------------------------------------------------------------------
(* Properties *)

\* Every variable stays in its type.
TypeOK ==
    /\ v2 \in BOOLEAN
    /\ engine \in [Ids -> {None} \cup Natives]
    /\ snapshots \in [Ids -> {None} \cup Snapshots]
    /\ requests \in [Ids -> {None} \cup States]
    /\ context \in {None} \cup [id : Ids, args : Args, first : Positions,
                                count : 1 .. MaxTokens, replay : BOOLEAN]
    /\ at \in {"idle", "dummy", "add", "prepare", "run", "layers", "sample"}
    /\ call \in [new : {None} \cup Ids, batch : {None} \cup Ids, count : Positions,
                 layer : 0 .. Layers, fallback : BOOLEAN]

\* Every layer that has attended in a step holds one row for each position up to
\* the step's last, in order, all computed from the metadata that the request had
\* when the adapter first saw it, however often the request was preempted,
\* replayed, retried or replaced by one of the same id.
HistoryExact ==
    at = "layers" =>
        \A l \in 0 .. call.layer - 1 :
            /\ snapshots[context.id] # None
            /\ Mine.rows[l] = [i \in 1 .. context.first + context.count |->
                                  <<i - 1, snapshots[context.id].args>>]

\* Between executions: what adapter and runtime keep is of requests that the
\* runner has, V2 has a snapshot of each, the runtime knows every row that the
\* engine has counted and at most one that it has not, and no step is current.
SidesAgree ==
    /\ at \in {"idle", "dummy", "add", "prepare"} => context = None
    /\ at = "idle" =>
        \A q \in Ids :
            /\ snapshots[q] # None => q \in There
            /\ v2 /\ q \in There => snapshots[q] # None
            /\ requests[q] # None => /\ snapshots[q] # None
                                     /\ requests[q].args = snapshots[q].args
            /\ q \in There /\ engine[q].computed >= Prompt =>
                  /\ requests[q] # None
                  /\ Prompt + requests[q].decoded - engine[q].computed \in {0, 1}
=============================================================================
