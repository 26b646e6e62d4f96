----------------------------- MODULE Population -----------------------------
(***************************************************************************)
(* CacheSlideRuntime of runtime.py: how one prefill populates or reuses    *)
(* the pages of an immutable snapshot, falls back to a full prefill, and   *)
(* cleans up, over a store that promises no more than PageCatalog.         *)
(*                                                                         *)
(* The pages of an identity (what _key hashes) are numbered in the order   *)
(* in which a population creates them: state and kv of layer 0, of layer   *)
(* 1, ..., and last the commit marker.  A page's value is the number of    *)
(* the population that wrote it.                                           *)
(*                                                                         *)
(* The runtime is single threaded: what interleaves with its calls to the  *)
(* store, one action each, are failures of any of them and the end of the  *)
(* process.  Decode steps and the device side are not here.                *)
(*                                                                         *)
(* A definition named ...Fault is the one after it with a plausible        *)
(* mistake; no specification uses it.                                      *)
(***************************************************************************)
EXTENDS Integers, FiniteSets

CONSTANTS
    Identities,
    Profiled,       \* identities with a CCPE profile for every layer
    Reusable,       \* identities with fixed_indices
    Requests,
    Layers,
    MaxLive,        \* requests the engine keeps at once: max_num_seqs = 1
    MaxPopulations, \* bound: populations ever started
    None

ASSUME LayersAssumption == Layers \in Nat \ {0}
ASSUME BoundAssumption == MaxLive \in Nat \ {0} /\ MaxPopulations \in Nat
ASSUME PlanAssumption == Profiled \subseteq Identities /\ Reusable \subseteq Identities
ASSUME FiniteAssumption == IsFiniteSet(Requests)

Marker == 2 * Layers
Numbers == 0 .. Marker
KvPage(layer) == 2 * layer + 1
StatePage(layer) == 2 * layer

\* RequestState; `from' holds the populations whose pages were read.
RequestType == [identity : Identities, reuse : BOOLEAN, write : BOOLEAN,
                created : SUBSET Numbers, from : SUBSET (1 .. MaxPopulations),
                fallback : BOOLEAN, sampled : BOOLEAN]

ASSUME NoneAssumption == None \notin Nat \cup RequestType

VARIABLES
    content, safe,  \* the store: see PageCatalog
    populations,    \* populations started so far
    requests,       \* requests: the RequestState of each request, or None
    run             \* the run or release call in progress

vars == <<content, safe, populations, requests, run>>
store == <<content, safe>>

Store == INSTANCE PageCatalog WITH
    Keys <- Identities \X Numbers, Values <- 1 .. MaxPopulations

Plans == [identity : Identities, replay : BOOLEAN,
          operation : {"recompute", "populate", "reuse", "calibrate"}]

\* A call at its stage `at', about request r, and no call at all.
Call(at, r) == [at |-> at, req |-> r, plan |-> None, owner |-> None, n |-> 0,
                left |-> {}, deferred |-> {}, then |-> "none"]
NoRun == Call("none", None)

Live == {r \in Requests : requests[r] # None}
Present(i) == {n \in Numbers : content[<<i, n>>] # None}
State == requests[run.req]
Identity == State.identity

Init ==
    /\ Store!Init
    /\ populations = 0
    /\ requests = [r \in Requests |-> None]
    /\ run = NoRun

-----------------------------------------------------------------------------
(* release and _discard_uncommitted                                         *)

Discard(r, plan, then) ==
    [at |-> "discard", req |-> r, plan |-> plan, n |-> 0, then |-> then, deferred |-> {},
     owner |-> IF requests[r] = None THEN None ELSE requests[r].identity,
     left |-> IF requests[r] = None THEN {} ELSE requests[r].created]

\* The state is popped first; then its pages go, the latest first.
Pop(r, plan, then) ==
    /\ requests' = [requests EXCEPT ![r] = None]
    /\ run' = Discard(r, plan, then)
    /\ UNCHANGED <<store, populations>>

Release(r) ==
    /\ run = NoRun
    /\ requests[r] # None
    /\ Pop(r, None, "end")

LatestFault(S) == {n \in S : \A m \in S : n =< m}
Latest(S) == {n \in S : \A m \in S : m =< n}

\* A page on disk may resist; it is left for a later clean-up.
DiscardPage ==
    /\ run.at = "discard"
    /\ \E n \in Latest(run.left) :
          \/ /\ \/ Store!Delete(<<run.owner, n>>)
                \/ content[<<run.owner, n>>] = None /\ UNCHANGED store
             /\ run' = [run EXCEPT !.left = @ \ {n}]
          \/ /\ <<run.owner, n>> \in safe
             /\ run' = [run EXCEPT !.left = @ \ {n}, !.deferred = @ \cup {n}]
             /\ UNCHANGED store
    /\ UNCHANGED <<populations, requests>>

\* Then release returns, its run goes on, or the fallback's full prefill starts.
DiscardDone ==
    /\ run.at = "discard" /\ run.left = {}
    /\ \/ /\ run.then = "end"
          /\ run' = NoRun /\ UNCHANGED requests
       \/ /\ run.then = "preflight"
          /\ run' = [Call("preflight", run.req) EXCEPT !.plan = run.plan]
          /\ UNCHANGED requests
       \/ /\ run.then = "retry"
          /\ run' = Call("dense", run.req)
          /\ requests' = [requests EXCEPT ![run.req].created = run.deferred]
    /\ UNCHANGED <<store, populations>>

-----------------------------------------------------------------------------
(* run: the start of a prefill                                              *)

\* An old state of the same request is released, even for a plan that fails.
Run(r, p) ==
    /\ run = NoRun
    /\ r \in Live \/ Cardinality(Live) < MaxLive
    /\ p.operation = "populate" => populations < MaxPopulations
    /\ Pop(r, p, "preflight")

Hit(i) == i \in Profiled \cap Reusable /\ Present(i) = Numbers

Preflight ==
    /\ run.at = "preflight"
    /\ run.plan.operation # "calibrate"
    /\ LET p == run.plan
           reuse == p.operation = "reuse" /\ Hit(p.identity) /\ ~p.replay
           write == /\ p.operation = "populate" /\ ~Hit(p.identity)
                    /\ p.identity \in Profiled /\ ~p.replay
       IN /\ requests' = [requests EXCEPT ![run.req] =
                 [identity |-> p.identity, reuse |-> reuse, write |-> write, created |-> {},
                  from |-> {}, fallback |-> FALSE, sampled |-> FALSE]]
          /\ run' = Call(IF write THEN "recover" ELSE IF reuse THEN "reuse" ELSE "dense",
                         run.req)
    /\ UNCHANGED <<store, populations>>

\* ValueError: calibration is no generation, or a profile does not load.
PreflightRaises ==
    /\ run.at = "preflight"
    /\ run' = NoRun
    /\ UNCHANGED <<store, populations, requests>>

-----------------------------------------------------------------------------
(* _recover_population, _put and _commit_population                         *)

\* What a population that never committed left behind.  With a marker the
\* recovery is refused: the prefill fails.
RecoverPage ==
    /\ run.at = "recover" /\ run.n < Marker
    /\ Marker \notin Present(Identity)
    /\ \/ Store!Delete(<<Identity, run.n>>)
       \/ content[<<Identity, run.n>>] = None /\ UNCHANGED store
    /\ run' = [run EXCEPT !.n = @ + 1]
    /\ UNCHANGED <<populations, requests>>

RecoveredFault == run.n >= Marker - 1
Recovered == run.n = Marker

RecoverDone ==
    /\ run.at = "recover"
    /\ Recovered
    /\ run' = [run EXCEPT !.at = "put", !.n = 0]
    /\ populations' = populations + 1
    /\ UNCHANGED <<store, requests>>

Created(q) == q.created \cup {run.n}

PutPage ==
    /\ run.at = "put"
    /\ Store!Put(<<Identity, run.n>>, populations)
    /\ requests' = [requests EXCEPT ![run.req].created = Created(State)]
    /\ run' = [run EXCEPT !.at = "spill"]
    /\ UNCHANGED populations

\* submit_spill(key).result() returns: the page is durable.
SpillPage ==
    /\ run.at = "spill" /\ run.n < Marker
    /\ Store!Acknowledge(<<Identity, run.n>>)
    /\ run' = [run EXCEPT !.at = "put", !.n = @ + 1]
    /\ UNCHANGED <<populations, requests>>

CommittedFault(q) == [q EXCEPT !.write = FALSE, !.sampled = TRUE]
Committed(q) == [q EXCEPT !.created = {}, !.write = FALSE, !.sampled = TRUE]

\* Once the marker is durable the pages are no longer the request's.
Commit ==
    /\ run.at = "spill" /\ run.n = Marker
    /\ Store!Acknowledge(<<Identity, Marker>>)
    /\ requests' = [requests EXCEPT ![run.req] = Committed(State)]
    /\ run' = NoRun
    /\ UNCHANGED populations

-----------------------------------------------------------------------------
(* reuse and full prefill                                                   *)

\* One layer: its K/V page and, when WCA promotes tokens, its state page.
ReuseLayer ==
    /\ run.at = "reuse" /\ run.n < Layers
    /\ \E read \in {{KvPage(run.n)}, {KvPage(run.n), StatePage(run.n)}} :
          /\ read \subseteq Present(Identity)
          /\ requests' = [requests EXCEPT ![run.req].from =
                             @ \cup {content[<<Identity, n>>] : n \in read}]
    /\ run' = [run EXCEPT !.n = @ + 1]
    /\ UNCHANGED <<store, populations>>

\* The prefill returns its output: a token is sampled.
PrefillDone ==
    /\ run.at = "dense" \/ (run.at = "reuse" /\ run.n = Layers)
    /\ requests' = [requests EXCEPT ![run.req].sampled = TRUE]
    /\ run' = NoRun
    /\ UNCHANGED <<store, populations>>

Prefilling == run.at \in {"recover", "put", "spill", "reuse", "dense"}

RetriedFault(q) == [q EXCEPT !.write = FALSE, !.from = {}, !.fallback = TRUE]
Retried(q) == [q EXCEPT !.reuse = FALSE, !.write = FALSE, !.from = {}, !.fallback = TRUE]

MayRetryFault(q) == TRUE
MayRetry(q) == ~q.fallback

\* ReuseFailure, CacheCapacityError, CacheIntegrityError, CCPEPositionError or
\* WCANumericalError: everything is recomputed from the input, once.
Fallback ==
    /\ Prefilling
    /\ MayRetry(State)
    /\ run' = Discard(run.req, None, "retry")
    /\ requests' = [requests EXCEPT ![run.req] = Retried(State)]
    /\ UNCHANGED <<store, populations>>

\* Any other error, and any error of the second prefill, leaves run at once.
Raise ==
    /\ Prefilling
    /\ run' = NoRun
    /\ UNCHANGED <<store, populations, requests>>

-----------------------------------------------------------------------------
\* The process ends, in a crash or by close, and another one starts.
Restart ==
    /\ \E lost \in SUBSET (Store!Stored \ safe) : Store!Restart(Store!Stored \ lost)
    /\ requests' = [r \in Requests |-> None]
    /\ run' = NoRun
    /\ UNCHANGED populations

Step == \/ DiscardPage \/ DiscardDone \/ Preflight \/ PreflightRaises
        \/ RecoverPage \/ RecoverDone \/ PutPage \/ SpillPage \/ Commit
        \/ ReuseLayer \/ PrefillDone \/ Fallback \/ Raise

Next == \/ \E r \in Requests : Release(r) \/ \E p \in Plans : Run(r, p)
        \/ Step
        \/ Restart

\* A call runs on until it returns.
Spec == Init /\ [][Next]_vars
FairSpec == Spec /\ WF_vars(Step)

-----------------------------------------------------------------------------
(* Properties *)

RunType == [at : {"none", "discard", "preflight", "recover", "put", "spill", "reuse", "dense"},
            req : Requests \cup {None}, plan : Plans \cup {None},
            owner : Identities \cup {None}, n : Numbers, left : SUBSET Numbers,
            deferred : SUBSET Numbers, then : {"none", "end", "preflight", "retry"}]

\* Every variable stays in its type.
TypeOK ==
    /\ content \in [Identities \X Numbers -> 1 .. MaxPopulations \cup {None}]
    /\ safe \subseteq Identities \X Numbers
    /\ populations \in 0 .. MaxPopulations
    /\ requests \in [Requests -> RequestType \cup {None}]
    /\ run \in RunType

\* A commit marker is there only with all the pages of its own population, and
\* they are durable: no mix of failed writes, failed clean-ups, retries and
\* crashes makes an incomplete or mixed snapshot look complete.
CommittedComplete ==
    \A i \in Identities : Marker \in Present(i) =>
        \A n \in 0 .. Marker - 1 :
            content[<<i, n>>] = content[<<i, Marker>>] /\ <<i, n>> \in safe

\* A committed snapshot is immutable and outlives its request, every later
\* request and every restart.
CommittedForEver ==
    [][\A i \in Identities : <<i, Marker>> \in safe =>
         \A n \in Numbers : content'[<<i, n>>] = content[<<i, n>>]]_vars

\* A population never meets a page of an earlier one: whatever was left behind
\* is recovered first, so "population collides with immutable pages" is not seen.
NoCollision == run.at = "put" => run.n \notin Present(Identity)

\* A token is sampled either from the pages of the committed population alone,
\* or from a full prefill that used none, also after a reuse failed half way.
SampledFromOne ==
    \A r \in Live : requests[r].sampled =>
        requests[r].from = IF requests[r].reuse THEN {content[<<requests[r].identity, Marker>>]}
                           ELSE {}

Retrying == run.at = "discard" /\ run.then = "retry"
Starting == run.at = "preflight" \/ (run.at = "discard" /\ run.then = "preflight")

\* What each stage of a call has in hand.
Calling ==
    /\ safe \subseteq Store!Stored
    /\ run.at = "discard" => /\ run.then # "none"
                             /\ run.left \cup run.deferred # {} => run.owner \in Identities
    /\ Starting => /\ run.plan \in Plans /\ run.req \in Requests
                   /\ run.plan.operation = "populate" => populations < MaxPopulations
    /\ run.at = "recover" => populations < MaxPopulations
    /\ run.at \in {"put", "spill"} => populations > 0

\* One request lives at a time, and the call in progress is about it.
Serial ==
    /\ \A q, r \in Live : q = r
    /\ run.at = "none" => run = NoRun
    /\ run.at \in {"discard", "preflight"} /\ ~Retrying => Live = {}
    /\ Retrying \/ Prefilling => run.req \in Live /\ ~State.sampled
    /\ Retrying => run.owner = Identity /\ ~State.reuse

\* The pages that a request, or the call in progress, may still delete are not
\* a committed population's; a marker among them would go first.
OwnUncommitted ==
    /\ \A r \in Live : LET i == requests[r].identity IN
          requests[r].created # {} =>
              /\ <<i, Marker>> \notin safe
              /\ Marker \in Present(i) => Marker \in requests[r].created
    /\ run.at = "discard" =>
          /\ run.left \cup run.deferred # {} => <<run.owner, Marker>> \notin safe
          /\ run.left # {} /\ Marker \in Present(run.owner) => Marker \in run.left
          /\ run.deferred # {} => Marker \notin Present(run.owner)

\* How far a population is: nothing is left of an older one, and what it has
\* written is all there and durable.
Populating ==
    /\ run.at = "recover" =>
          /\ \A n \in 0 .. run.n - 1 : n \notin Present(Identity)
          /\ run.n > 0 => Marker \notin Present(Identity)
    /\ run.at \in {"put", "spill"} =>
          /\ \A n \in 0 .. run.n - 1 : /\ content[<<Identity, n>>] = populations
                                         /\ <<Identity, n>> \in safe
          /\ \A n \in run.n + 1 .. Marker : n \notin Present(Identity)
          /\ <<Identity, run.n>> \notin safe
          /\ IF run.at = "put" THEN run.n \notin Present(Identity)
             ELSE content[<<Identity, run.n>>] = populations /\ run.n \in State.created

\* A reuse reads a committed population that nobody can take away under it.
Reusing ==
    /\ \A r \in Live :
          IF requests[r].reuse
          THEN /\ Present(requests[r].identity) = Numbers
               /\ requests[r].created = {}
               /\ requests[r].from \subseteq {content[<<requests[r].identity, Marker>>]}
          ELSE requests[r].from = {}
    /\ run.at = "reuse" => State.reuse /\ (run.n > 0 => State.from # {})
    /\ Prefilling /\ run.at # "reuse" => ~State.reuse
    /\ \A r \in Live : requests[r].reuse /\ requests[r].sampled => requests[r].from # {}

\* What a run in progress knows of the store; with the properties above this is
\* inductive while requests are served one at a time.
Consistent == Calling /\ Serial /\ OwnUncommitted /\ Populating /\ Reusing

\* A run or a release ends, whatever fails in it.
RunEnds == run # NoRun ~> run = NoRun
=============================================================================
