------------------------------ MODULE WaitQueue ------------------------------
(***************************************************************************)
(* WaitQueue of wait_queue.py: consumers wait for artifacts, an external   *)
(* worker runs one unit of work at a time, and a consumer that wakes gets  *)
(* at most one lease.  Every operation runs on the owner thread, so every  *)
(* operation is one action; what interleaves are the consumers, which keep *)
(* tickets long after they are superseded, and the worker, which may       *)
(* report a unit long after its waiters are gone or the queue is closed.   *)
(*                                                                         *)
(* Tickets are compared by identity: two on_wait calls with the same       *)
(* arguments give different tickets, told apart here by id.  The insertion *)
(* order of the dict _jobs is the order of since.  A call that raises or   *)
(* returns None or False changes nothing and is not an action.             *)
(*                                                                         *)
(* A definition named ...Fault is the one after it with a plausible        *)
(* mistake; no specification uses it.                                      *)
(***************************************************************************)
EXTENDS Integers, FiniteSets

CONSTANTS
    Keys,           \* ArtifactKey
    Consumers,      \* (engine_id, request_id)
    Generations,    \* ConsumerEpoch.generation
    MaxJobs, MaxConsumers,
    MaxIssued,      \* bound: wait tickets ever issued
    None

ASSUME LimitAssumption == MaxJobs \in Nat \ {0} /\ MaxConsumers \in Nat \ {0}
ASSUME FiniteAssumption == IsFiniteSet(Keys) /\ IsFiniteSet(Consumers)
ASSUME GenerationAssumption == Generations \subseteq Nat /\ MaxIssued \in Nat

Tickets == [consumer : Consumers, generation : Generations, key : Keys, id : 1 .. MaxIssued]
Units == [key : Keys, since : 1 .. MaxIssued]

ASSUME NoneAssumption == None \notin Tickets \cup Units

VARIABLES
    state,          \* _jobs[k].state, "none" when k is not in _jobs
    since,          \* when k entered _jobs
    demand,         \* _jobs[k].consumers
    waits,          \* _waits: the current ticket of each consumer
    work,           \* _work: the WorkTicket in flight
    closed,
    issued,         \* how many wait tickets were issued
    tickets,        \* the wait tickets the consumers still have in hand
    units,          \* the work tickets the worker still has in hand
    leases          \* tickets whose ready lease was handed over and is open

jobs == <<state, since, demand>>
vars == <<jobs, waits, work, closed, issued, tickets, units, leases>>

Jobs == {k \in Keys : state[k] # "none"}
Waiters == {c \in Consumers : waits[c] # None}
Terminal(k) == state[k] \in {"complete", "failed"}

Init ==
    /\ state = [k \in Keys |-> "none"] /\ since = [k \in Keys |-> 0]
    /\ demand = [k \in Keys |-> {}]
    /\ waits = [c \in Consumers |-> None]
    /\ work = None /\ closed = FALSE /\ issued = 0
    /\ tickets = {} /\ units = {} /\ leases = {}

\* The keys of D leave _jobs.
Drop(D) ==
    /\ state' = [k \in Keys |-> IF k \in D THEN "none" ELSE state[k]]
    /\ since' = [k \in Keys |-> IF k \in D THEN 0 ELSE since[k]]

FirstFault(S) == {k \in S : \A j \in S : since[j] =< since[k]}

\* The first entry of _jobs among the keys of S.
First(S) == {k \in S : \A j \in S : since[k] =< since[j]}

-----------------------------------------------------------------------------
(* on_wait                                                                  *)

ForgettableFault(k) == Terminal(k)

\* Terminal history that nobody waits for.
Forgettable(k) == Terminal(k) /\ demand[k] = {}

\* What on_wait evicts to make room for k: nothing, or the oldest forgettable
\* entry.  Without one it raises.
Evictions(k) == IF k \in Jobs \/ Cardinality(Jobs) < MaxJobs THEN {{}}
                ELSE {{j} : j \in First({i \in Keys : Forgettable(i)})}

\* Queued jobs that nobody waits for once ticket t is gone.
Abandoned(t) == {j \in Keys : state[j] = "queued" /\ demand[j] = {t}}

Admits(c) == waits[c] # None \/ Cardinality(Waiters) < MaxConsumers

\* setdefault: a retained job keeps its place in the queue.
Admitted(k, t) == IF k \in Jobs THEN since[k] ELSE t.id

Fresh == issued + 1

\* A newer wait of c for k.  The previous one is cancelled, but a job for the
\* same key survives the moment without consumers.
OnWait(c, g, k) ==
    /\ ~closed
    /\ issued < MaxIssued
    /\ waits[c] # None => g >= waits[c].generation
    /\ Admits(c)
    /\ \E evicted \in Evictions(k) :
          LET t == [consumer |-> c, generation |-> g, key |-> k, id |-> Fresh]
              gone == (evicted \cup Abandoned(waits[c])) \ {k}
          IN /\ state' = [j \in Keys |-> IF j \in gone THEN "none"
                                         ELSE IF j = k /\ k \notin Jobs THEN "queued"
                                         ELSE state[j]]
             /\ since' = [j \in Keys |-> IF j \in gone THEN 0
                                         ELSE IF j = k THEN Admitted(k, t) ELSE since[j]]
             /\ demand' = [j \in Keys |-> (demand[j] \ {waits[c]})
                                          \cup (IF j = k THEN {t} ELSE {})]
             /\ waits' = [waits EXCEPT ![c] = t]
             /\ tickets' = tickets \cup {t}
    /\ issued' = issued + 1
    /\ UNCHANGED <<work, closed, units, leases>>

-----------------------------------------------------------------------------
(* cancel and on_wake                                                       *)

CurrentFault(t) ==
    LET w == waits[t.consumer]
    IN w # None /\ w.key = t.key /\ w.generation = t.generation

\* Only the very ticket that on_wait returned last is live.
Current(t) == waits[t.consumer] = t

AbandonsFault(t) == {j \in Keys : demand[j] = {t}}
Abandons(t) == Abandoned(t)

\* The body of cancel for a live ticket.
Consume(t) ==
    /\ waits' = [waits EXCEPT ![t.consumer] = None]
    /\ demand' = [k \in Keys |-> demand[k] \ {t}]
    /\ Drop(Abandons(t))

Cancel(t) ==
    /\ Current(t)
    /\ Consume(t)
    /\ UNCHANGED <<work, closed, issued, tickets, units, leases>>

\* The wait is consumed, then the backend is asked once: a miss, an error and
\* an incompatible lease, which is closed again, all look the same.
OnWake(t) ==
    /\ Current(t)
    /\ Consume(t)
    /\ leases' \in {leases, leases \cup {t}}
    /\ UNCHANGED <<work, closed, issued, tickets, units>>

\* External: the consumer closes its lease.
CloseLease(t) ==
    /\ t \in leases
    /\ leases' = leases \ {t}
    /\ UNCHANGED <<jobs, waits, work, closed, issued, tickets, units>>

-----------------------------------------------------------------------------
(* begin_next, complete, forget and close                                   *)

Idle == work = None

\* begin_next(resource_grant=True)
BeginNext ==
    /\ ~closed
    /\ Idle
    /\ \E k \in First({j \in Keys : state[j] = "queued" /\ demand[j] # {}}) :
          /\ state' = [state EXCEPT ![k] = "running"]
          /\ work' = [key |-> k, since |-> since[k]]
          /\ units' = units \cup {work'}
    /\ UNCHANGED <<since, demand, waits, closed, issued, tickets, leases>>

\* Late, duplicate and foreign completions are refused.
Issued(w) == work = w

DrainedFault == work
Drained == None

Complete(w, success) ==
    /\ Issued(w)
    /\ work' = Drained
    /\ IF closed
       THEN Drop(Keys) /\ demand' = [k \in Keys |-> {}]
       ELSE /\ state' = [state EXCEPT ![w.key] = IF success THEN "complete" ELSE "failed"]
            /\ UNCHANGED <<since, demand>>
    /\ UNCHANGED <<waits, closed, issued, tickets, units, leases>>

Forget(k) ==
    /\ ~closed
    /\ Forgettable(k)
    /\ Drop({k})
    /\ UNCHANGED <<demand, waits, work, closed, issued, tickets, units, leases>>

\* What close leaves in _jobs: the unit that is still running.
Kept == {k \in Keys : state[k] = "running"}

Close ==
    /\ closed' = TRUE
    /\ waits' = [c \in Consumers |-> None]
    /\ Drop(Keys \ Kept)
    /\ demand' = [k \in Keys |-> {}]
    /\ UNCHANGED <<work, issued, tickets, units, leases>>

-----------------------------------------------------------------------------
Next ==
    \/ \E c \in Consumers, g \in Generations, k \in Keys : OnWait(c, g, k)
    \/ \E t \in tickets : Cancel(t) \/ OnWake(t) \/ CloseLease(t)
    \/ BeginNext
    \/ \E w \in units, success \in BOOLEAN : Complete(w, success)
    \/ \E k \in Keys : Forget(k)
    \/ Close

\* External: the owner keeps calling begin_next with a grant, and the worker
\* reports the unit it was given.
Fairness == /\ WF_vars(BeginNext)
            /\ WF_vars(\E w \in units, success \in BOOLEAN : Complete(w, success))

Spec == Init /\ [][Next]_vars
FairSpec == Spec /\ Fairness

-----------------------------------------------------------------------------
(* Properties *)

\* Every variable of the queue stays in its type.
TypeOK ==
    /\ state \in [Keys -> {"none", "queued", "running", "complete", "failed"}]
    /\ since \in [Keys -> 0 .. MaxIssued]
    /\ demand \in [Keys -> SUBSET Tickets]
    /\ waits \in [Consumers -> Tickets \cup {None}]
    /\ work \in Units \cup {None}
    /\ closed \in BOOLEAN
    /\ issued \in 0 .. MaxIssued
    /\ tickets \subseteq Tickets /\ units \subseteq Units /\ leases \subseteq Tickets

\* _waits and the consumers of the jobs are two views of one relation: a ticket
\* is demanded exactly while it is its consumer's current one, by the job of its
\* key; a job is never queued for nobody.
DemandExact ==
    /\ \A k \in Keys : demand[k] = {waits[c] : c \in {d \in Waiters : waits[d].key = k}}
    /\ \A k \in Keys : demand[k] # {} => k \in Jobs
    /\ \A k \in Keys : state[k] = "queued" => demand[k] # {}
    /\ \A c \in Waiters : waits[c].consumer = c

\* There is exactly one running job while a unit is out, its own, and none
\* otherwise, whatever was cancelled, superseded or closed meanwhile; a closed
\* queue keeps nothing else.
WorkExact ==
    /\ \A k \in Keys : state[k] = "running" <=> (work # None /\ work.key = k)
    /\ work # None => work.since = since[work.key] /\ work \in units
    /\ closed => Waiters = {} /\ \A k \in Jobs : state[k] = "running"

\* The metadata stays within max_jobs and max_consumers.
Bounded == Cardinality(Jobs) =< MaxJobs /\ Cardinality(Waiters) =< MaxConsumers

\* First come, first served: all that was ever handed to the worker entered the
\* queue before anything that is still queued.
NoOvertaking ==
    \A k \in Keys : state[k] = "queued" => \A w \in units : w.since < since[k]

\* The job a consumer waits for is the one it found or made when it asked: until
\* it is woken, cancelled or closed, no eviction, no leaving consumer and no new
\* one drops that job or admits it anew, so that a wait never costs its key a
\* second place in the queue or a second unit of work.
WaitKept == \A c \in Waiters : since[waits[c].key] \in 1 .. waits[c].id

\* A unit is run once per admission: nothing leaves a terminal state but by
\* leaving _jobs, a running job only ends by complete, and while somebody waits
\* for a key its history stays, so the key is not run again.
RunOnce ==
    [][\A k \in Keys :
         /\ state[k] = "running" => state'[k] = "running" \/ work' = None
         /\ Terminal(k) => state'[k] = state[k] \/ state'[k] = "none"
         /\ state[k] # "none" /\ state'[k] = "none" => demand'[k] = {}]_vars

\* A job that is queued is handed to the worker, or loses its last consumer.
QueuedServed == \A k \in Keys : state[k] = "queued" ~> state[k] # "queued"
=============================================================================
