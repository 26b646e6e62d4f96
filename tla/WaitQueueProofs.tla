--------------------------- MODULE WaitQueueProofs ---------------------------
(* What WaitQueue guarantees for every number of keys, consumers and limits. *)
EXTENDS WaitQueue, FiniteSetTheorems, TLAPS

USE LimitAssumption, FiniteAssumption, GenerationAssumption, NoneAssumption

\* The places in the queue: positive exactly for retained jobs, all different,
\* and none of them in the future, like those the worker has seen.
SinceExact ==
    /\ \A k \in Keys : since[k] =< issued /\ (since[k] = 0 <=> k \notin Jobs)
    /\ \A j, k \in Jobs : since[j] = since[k] => j = k
    /\ \A w \in units : w.since =< issued

IInv == TypeOK /\ DemandExact /\ WorkExact /\ Bounded /\ NoOvertaking /\ SinceExact

-----------------------------------------------------------------------------
(* Lemmas *)

\* DemandExact, ticket by ticket.
LEMMA DemandOf ==
    ASSUME DemandExact, NEW k \in Keys, NEW t
    PROVE  t \in demand[k] <=> \E c \in Waiters : waits[c] = t /\ t.key = k
BY DEF DemandExact

\* The waiting consumers are told apart by their tickets.
LEMMA OwnTicket ==
    ASSUME DemandExact, NEW c \in Waiters, NEW d \in Waiters, waits[c] = waits[d]
    PROVE  c = d
BY DEF DemandExact

\* A set of keys or of consumers is no larger than one it is part of.
LEMMA Smaller ==
    ASSUME NEW A, NEW S \in SUBSET A, NEW T \in SUBSET S, IsFiniteSet(A),
           NEW n \in Nat, Cardinality(S) =< n
    PROVE  Cardinality(T) \in Nat /\ Cardinality(T) =< n
<1>1. IsFiniteSet(S)
  BY FS_Subset
<1>2. IsFiniteSet(T) /\ Cardinality(T) =< Cardinality(S)
  BY <1>1, FS_Subset
<1> QED BY <1>1, <1>2, FS_CardinalityType

\* There is room for one more element below a limit.
LEMMA OneMore ==
    ASSUME NEW S, IsFiniteSet(S), NEW x, NEW n \in Nat, Cardinality(S) < n
    PROVE  Cardinality(S \cup {x}) =< n
<1>1. Cardinality(S) \in Nat
  BY FS_CardinalityType
<1>2. Cardinality(S \cup {x}) = IF x \in S THEN Cardinality(S) ELSE Cardinality(S) + 1
  BY FS_AddElement, Zenon
<1> QED BY <1>1, <1>2

\* A step that admits no job and no consumer stays within the limits.
LEMMA NoneAdmitted ==
    ASSUME Bounded, Jobs' \subseteq Jobs, Waiters' \subseteq Waiters
    PROVE  Bounded'
<1>1. Cardinality(Jobs') =< MaxJobs
  BY Smaller DEF Bounded, Jobs
<1>2. Cardinality(Waiters') =< MaxConsumers
  BY Smaller DEF Bounded, Waiters
<1> QED BY <1>1, <1>2 DEF Bounded

\* A live ticket is its consumer's, and no other consumer has it.
LEMMA LiveTicket ==
    ASSUME DemandExact, NEW t \in Tickets, Current(t)
    PROVE  /\ t.consumer \in Waiters /\ t.key \in Keys /\ t \in demand[t.key]
           /\ \A c \in Waiters : waits[c] = t => c = t.consumer
           /\ \A k \in Keys : t \in demand[k] => k = t.key
<1>1. t # None /\ t.consumer \in Consumers /\ t.key \in Keys
  BY DEF Tickets
<1>2. t.consumer \in Waiters
  BY <1>1 DEF Waiters, Current
<1> QED BY <1>1, <1>2, DemandOf, OwnTicket DEF Current

\* What cancel and on_wake have in common keeps the invariant.
LEMMA ConsumeInv ==
    ASSUME IInv, NEW t \in tickets, Current(t), Consume(t), leases' \subseteq Tickets,
           UNCHANGED <<work, closed, issued, tickets, units>>
    PROVE  IInv'
<1> USE DEF IInv
<1> t \in Tickets
  BY DEF TypeOK
<1> DEFINE gone == Abandons(t)
<1>a. /\ t.consumer \in Waiters /\ t.key \in Keys
      /\ \A c \in Waiters : waits[c] = t => c = t.consumer
  BY LiveTicket
<1>b. /\ waits' = [waits EXCEPT ![t.consumer] = None]
      /\ demand' = [k \in Keys |-> demand[k] \ {t}]
      /\ state' = [k \in Keys |-> IF k \in gone THEN "none" ELSE state[k]]
      /\ since' = [k \in Keys |-> IF k \in gone THEN 0 ELSE since[k]]
  BY DEF Consume, Drop
<1>c. \A k \in gone : k \in Keys /\ state[k] = "queued" /\ demand[k] = {t}
  BY DEF Abandons, Abandoned
<1>d. \A k \in Keys : state[k] = "queued" /\ demand[k] = {t} => k \in gone
  BY DEF Abandons, Abandoned
<1> HIDE DEF gone
<1>e. Jobs' = Jobs \ gone /\ Waiters' = Waiters \ {t.consumer}
  BY <1>a, <1>b DEF Jobs, Waiters, TypeOK
<1>1. TypeOK'
  <2>1. waits' \in [Consumers -> Tickets \cup {None}]
    BY <1>b DEF TypeOK
  <2>2. since' \in [Keys -> 0 .. MaxIssued] /\ demand' \in [Keys -> SUBSET Tickets]
    BY <1>b DEF TypeOK
  <2>3. state' \in [Keys -> {"none", "queued", "running", "complete", "failed"}]
    BY <1>b DEF TypeOK
  <2> QED BY <2>1, <2>2, <2>3 DEF TypeOK
<1>2. DemandExact'
  <2>1. ASSUME NEW k \in Keys
        PROVE  demand'[k] = {waits'[c] : c \in {d \in Waiters' : waits'[d].key = k}}
    <3>1. \A c \in Waiters' : waits'[c] = waits[c] /\ waits[c] # t
      BY <1>a, <1>b, <1>e DEF Waiters, TypeOK
    <3>2. demand'[k] = demand[k] \ {t}
      BY <1>b
    <3>3. \A x : x \in demand'[k] <=> \E c \in Waiters' : waits'[c] = x /\ x.key = k
      BY <3>1, <3>2, <1>a, <1>e, DemandOf DEF Current
    <3> QED BY <3>3
  <2>2. \A k \in Keys : demand'[k] # {} => k \in Jobs'
    BY <1>b, <1>c, <1>e DEF DemandExact
  <2>3. \A k \in Keys : state'[k] = "queued" => demand'[k] # {}
    BY <1>b, <1>d DEF DemandExact, TypeOK
  <2>4. \A c \in Waiters' : waits'[c].consumer = c
    BY <1>b, <1>e DEF DemandExact, Waiters, TypeOK
  <2> QED BY <2>1, <2>2, <2>3, <2>4 DEF DemandExact
<1>3. WorkExact'
  <2>1. \A k \in Keys : state'[k] = "running" <=> state[k] = "running"
    BY <1>b, <1>c
  <2>2. work # None => work.key \in Keys \ gone
    BY <1>c DEF WorkExact, TypeOK, Units
  <2>3. work # None => since'[work.key] = since[work.key]
    BY <1>b, <2>2
  <2>4. Waiters = {} => Waiters' = {}
    BY <1>e
  <2>5. \A k \in Jobs' : k \in Jobs /\ k \in Keys
    BY <1>e DEF Jobs
  <2> QED BY <2>1, <2>3, <2>4, <2>5 DEF WorkExact
<1>4. Bounded'
  BY <1>e, NoneAdmitted
<1>5. NoOvertaking'
  BY <1>b DEF NoOvertaking, TypeOK
<1>6. SinceExact'
  BY <1>b, <1>e DEF SinceExact, Jobs, TypeOK
<1> QED BY <1>1, <1>2, <1>3, <1>4, <1>5, <1>6

-----------------------------------------------------------------------------
(* IInv is inductive                                                         *)

LEMMA InitInv == Init => IInv
<1> SUFFICES ASSUME Init PROVE IInv
  OBVIOUS
<1>1. TypeOK
  <2>1. closed \in BOOLEAN
    BY Zenon DEF Init
  <2> QED BY <2>1 DEF Init, TypeOK
<1>2. Jobs = {} /\ Waiters = {}
  BY DEF Init, Jobs, Waiters
<1>3. DemandExact /\ WorkExact /\ NoOvertaking /\ SinceExact
  BY <1>2 DEF Init, DemandExact, WorkExact, NoOvertaking, SinceExact
<1>4. Bounded
  BY <1>2, FS_EmptySet DEF Bounded
<1> QED BY <1>1, <1>3, <1>4 DEF IInv

LEMMA StepInv == IInv /\ [Next]_vars => IInv'
<1> SUFFICES ASSUME IInv, [Next]_vars PROVE IInv'
  OBVIOUS
<1> USE DEF IInv
<1>1. ASSUME NEW c \in Consumers, NEW g \in Generations, NEW k \in Keys, OnWait(c, g, k)
      PROVE  IInv'
  <2>1. PICK evicted \in Evictions(k) :
          LET t == [consumer |-> c, generation |-> g, key |-> k, id |-> Fresh]
              gone == (evicted \cup Abandoned(waits[c])) \ {k}
          IN /\ state' = [j \in Keys |-> IF j \in gone THEN "none"
                                         ELSE IF j = k /\ k \notin Jobs THEN "queued"
                                         ELSE state[j]]
             /\ since' = [j \in Keys |-> IF j \in gone THEN 0
                                         ELSE IF j = k THEN Admitted(k, t) ELSE since[j]]
             /\ demand' = [j \in Keys |-> (demand[j] \ {waits[c]})
                                          \cup (IF j = k THEN {t} ELSE {})]
             /\ waits' = [waits EXCEPT ![c] = t]
             /\ tickets' = tickets \cup {t}
    BY <1>1 DEF OnWait
  <2> DEFINE t == [consumer |-> c, generation |-> g, key |-> k, id |-> Fresh]
             gone == (evicted \cup Abandoned(waits[c])) \ {k}
  <2>2. /\ ~closed /\ Admits(c) /\ issued' = issued + 1 /\ issued < MaxIssued
        /\ UNCHANGED <<work, closed, units, leases>>
    BY <1>1 DEF OnWait
  <2>3. /\ t \in Tickets /\ t # None /\ t.consumer = c /\ t.key = k
        /\ Admitted(k, t) = IF k \in Jobs THEN since[k] ELSE issued + 1
    BY <2>2 DEF TypeOK, Tickets, Fresh, Admitted
  <2>4. ASSUME NEW j \in gone
        PROVE  /\ j \in Keys /\ j # k
               /\ \/ Forgettable(j)
                  \/ state[j] = "queued" /\ demand[j] = {waits[c]}
    BY DEF Evictions, First, Abandoned
  <2>5. \A j \in Keys \ {k} : demand[j] = {waits[c]} /\ state[j] = "queued" => j \in gone
    BY DEF Abandoned
  <2>6. \/ k \in Jobs
        \/ k \notin Jobs /\ Cardinality(Jobs) < MaxJobs
        \/ \E j \in Jobs \ {k} : j \in gone
    BY DEF Evictions, First, Forgettable, Terminal, Jobs
  <2> HIDE DEF t, gone
  <2>7. /\ state' = [j \in Keys |-> IF j \in gone THEN "none"
                                    ELSE IF j = k /\ k \notin Jobs THEN "queued" ELSE state[j]]
        /\ since' = [j \in Keys |-> IF j \in gone THEN 0
                                    ELSE IF j = k THEN IF k \in Jobs THEN since[k] ELSE issued + 1
                                    ELSE since[j]]
        /\ demand' = [j \in Keys |-> (demand[j] \ {waits[c]})
                                     \cup (IF j = k THEN {t} ELSE {})]
        /\ waits' = [waits EXCEPT ![c] = t]
        /\ tickets' = tickets \cup {t}
    BY <2>1, <2>3 DEF t, gone
  <2>8. \A d \in Consumers : waits'[d] = IF d = c THEN t ELSE waits[d]
    BY <2>7 DEF TypeOK
  <2>9. Waiters' = Waiters \cup {c} /\ Jobs' = (Jobs \ gone) \cup {k}
    <3>1. Waiters' = Waiters \cup {c}
      BY <2>3, <2>8 DEF Waiters
    <3>2. Jobs' = (Jobs \ gone) \cup {k}
      BY <2>4, <2>7 DEF Jobs
    <3> QED BY <3>1, <3>2
  <2>a. TypeOK'
    <3>1. state' \in [Keys -> {"none", "queued", "running", "complete", "failed"}]
      BY <2>7 DEF TypeOK
    <3>2. since' \in [Keys -> 0 .. MaxIssued] /\ issued' \in 0 .. MaxIssued
      BY <2>2, <2>7 DEF TypeOK
    <3>3. demand' \in [Keys -> SUBSET Tickets]
      BY <2>3, <2>7 DEF TypeOK
    <3>4. waits' \in [Consumers -> Tickets \cup {None}] /\ tickets' \subseteq Tickets
      BY <2>3, <2>7 DEF TypeOK
    <3> QED BY <2>2, <3>1, <3>2, <3>3, <3>4 DEF TypeOK
  <2>b. DemandExact'
    <3>1. ASSUME NEW j \in Keys, NEW x
          PROVE  x \in demand'[j] <=> \E d \in Waiters' : waits'[d] = x /\ x.key = j
      <4>1. x \in demand'[j] <=> (x \in demand[j] /\ x # waits[c]) \/ (j = k /\ x = t)
        BY <2>7
      <4>2. x \in demand[j] /\ x # waits[c]
              <=> \E d \in Waiters \ {c} : waits[d] = x /\ x.key = j
        <5>1. \A d \in Waiters : waits[d] = waits[c] => d = c
          BY DEF DemandExact, Waiters
        <5> QED BY <5>1, DemandOf
      <4> QED BY <2>3, <2>8, <2>9, <4>1, <4>2 DEF Waiters
    <3>2. \A j \in Keys : demand'[j] = {waits'[d] : d \in {e \in Waiters' : waits'[e].key = j}}
      BY <3>1
    <3>3. \A j \in Keys : demand'[j] # {} => j \in Jobs'
      BY <2>4, <2>7, <2>9 DEF DemandExact, Forgettable
    <3>4. \A j \in Keys : state'[j] = "queued" => demand'[j] # {}
      <4>1. ASSUME NEW j \in Keys \ {k}, state'[j] = "queued" PROVE demand'[j] # {}
        <5>1. j \notin gone /\ state[j] = "queued"
          BY <2>7, <4>1
        <5>2. demand[j] # {} /\ demand[j] # {waits[c]}
          BY <2>5, <5>1 DEF DemandExact
        <5> QED BY <2>7, <5>2
      <4> QED BY <2>7, <4>1
    <3>5. \A d \in Waiters' : waits'[d].consumer = d
      BY <2>3, <2>8, <2>9 DEF DemandExact, Waiters
    <3> QED BY <3>2, <3>3, <3>4, <3>5 DEF DemandExact
  <2>c. WorkExact'
    <3>1. \A j \in gone : state[j] # "running"
      BY <2>4 DEF Forgettable, Terminal
    <3>2. \A j \in Keys : state'[j] = "running" <=> state[j] = "running"
      BY <2>7, <3>1 DEF Jobs
    <3>3. work # None => work.key \in Keys \ gone /\ work.key \in Jobs
      BY <3>1 DEF WorkExact, TypeOK, Units, Jobs
    <3>4. work # None => since'[work.key] = since[work.key]
      BY <2>7, <3>3
    <3> QED BY <2>2, <3>2, <3>4 DEF WorkExact
  <2>d. Bounded'
    <3>1. Cardinality(Waiters') =< MaxConsumers
      <4>1. IsFiniteSet(Waiters)
        BY FS_Subset DEF Waiters
      <4>2. CASE c \in Waiters
        BY <2>9, <4>2, Smaller DEF Bounded, Waiters
      <4>3. CASE c \notin Waiters
        <5>1. Cardinality(Waiters) < MaxConsumers
          BY <2>2, <4>3 DEF Admits, Waiters
        <5> QED BY <2>9, <4>1, <5>1, OneMore
      <4> QED BY <4>2, <4>3
    <3>2. Cardinality(Jobs') =< MaxJobs
      <4>1. IsFiniteSet(Jobs) /\ Jobs \in SUBSET Keys
        BY FS_Subset DEF Jobs
      <4>2. CASE k \in Jobs
        BY <2>9, <4>1, <4>2, Smaller DEF Bounded
      <4>3. CASE k \notin Jobs /\ Cardinality(Jobs) < MaxJobs
        <5>1. Cardinality(Jobs \cup {k}) =< MaxJobs
          BY <4>1, <4>3, OneMore
        <5>2. Jobs' \subseteq Jobs \cup {k} /\ Jobs \cup {k} \subseteq Keys
          BY <2>9, <4>1
        <5> QED BY <5>1, <5>2, Smaller
      <4>4. CASE \E j \in Jobs \ {k} : j \in gone
        <5>1. PICK j \in Jobs \ {k} : j \in gone
          BY <4>4
        <5>2. /\ IsFiniteSet(Jobs \ {j})
              /\ Cardinality(Jobs \ {j}) = Cardinality(Jobs) - 1
          BY <4>1, <5>1, FS_RemoveElement
        <5>3. Cardinality((Jobs \ {j}) \cup {k}) =< MaxJobs
          <6>1. Cardinality(Jobs) \in Nat
            BY <4>1, FS_CardinalityType
          <6>2. Cardinality(Jobs \ {j}) < MaxJobs
            BY <5>2, <6>1 DEF Bounded
          <6> QED BY <5>2, <6>2, OneMore
        <5>4. Jobs' \subseteq (Jobs \ {j}) \cup {k} /\ (Jobs \ {j}) \cup {k} \subseteq Keys
          BY <2>9, <4>1, <5>1
        <5> QED BY <5>3, <5>4, Smaller
      <4> QED BY <2>6, <4>2, <4>3, <4>4
    <3> QED BY <3>1, <3>2 DEF Bounded
  <2>e. NoOvertaking' /\ SinceExact'
    <3>1. \A j \in Keys \ {k} : state'[j] = "queued" => state[j] = "queued" /\ since'[j] = since[j]
      BY <2>7
    <3>2. /\ k \in Jobs => since'[k] = since[k] /\ state'[k] = state[k]
          /\ k \notin Jobs => since'[k] = issued + 1
      BY <2>4, <2>7
    <3>3. NoOvertaking'
      BY <2>2, <3>1, <3>2 DEF NoOvertaking, SinceExact, TypeOK, Units
    <3>4. \A j \in Keys : since'[j] =< issued' /\ (since'[j] = 0 <=> j \notin Jobs')
      BY <2>2, <2>4, <2>7, <2>9 DEF SinceExact, TypeOK
    <3>5. \A i, j \in Jobs' : since'[i] = since'[j] => i = j
      <4>1. \A i \in Jobs' : i \in Keys /\ (i # k => i \in Jobs /\ since'[i] = since[i])
        BY <2>7, <2>9 DEF Jobs
      <4> QED BY <3>2, <4>1 DEF SinceExact, TypeOK
    <3>6. \A w \in units' : w.since =< issued'
      BY <2>2 DEF SinceExact, TypeOK, Units
    <3> QED BY <3>3, <3>4, <3>5, <3>6 DEF SinceExact
  <2> QED BY <2>a, <2>b, <2>c, <2>d, <2>e
<1>2. ASSUME NEW t \in tickets, Cancel(t) PROVE IInv'
  <2>1. leases' \subseteq Tickets
    BY <1>2 DEF Cancel, TypeOK
  <2> QED BY <1>2, <2>1, ConsumeInv DEF Cancel
<1>3. ASSUME NEW t \in tickets, OnWake(t) PROVE IInv'
  <2>1. leases' \subseteq Tickets
    BY <1>3 DEF OnWake, TypeOK
  <2> QED BY <1>3, <2>1, ConsumeInv DEF OnWake
<1>4. ASSUME NEW t \in tickets, CloseLease(t) PROVE IInv'
  <2>1. UNCHANGED <<state, since, demand, waits, work, closed, issued, tickets, units>>
    BY <1>4 DEF CloseLease, jobs
  <2>2. TypeOK'
    BY <1>4, <2>1 DEF CloseLease, TypeOK
  <2> QED BY <2>1, <2>2 DEF DemandExact, WorkExact, Bounded, NoOvertaking, SinceExact, Jobs,
                            Waiters
<1>5. ASSUME BeginNext PROVE IInv'
  <2>1. PICK k \in First({j \in Keys : state[j] = "queued" /\ demand[j] # {}}) :
          /\ state' = [state EXCEPT ![k] = "running"]
          /\ work' = [key |-> k, since |-> since[k]]
          /\ units' = units \cup {work'}
    BY <1>5 DEF BeginNext
  <2>2. /\ ~closed /\ work = None
        /\ UNCHANGED <<since, demand, waits, closed, issued, tickets, leases>>
    BY <1>5 DEF BeginNext, Idle
  <2>3. /\ k \in Keys /\ state[k] = "queued" /\ since[k] > 0
        /\ \A j \in Keys : state[j] = "queued" => since[k] =< since[j]
    BY <2>1 DEF First, SinceExact, Jobs, DemandExact, TypeOK
  <2>4. /\ work' \in Units /\ work' # None /\ work'.key = k /\ work'.since = since[k]
    BY <2>1, <2>3 DEF Units, TypeOK
  <2>5. Jobs' = Jobs /\ Waiters' = Waiters
    BY <2>1, <2>2, <2>3 DEF Jobs, Waiters, TypeOK
  <2>6. TypeOK'
    BY <2>1, <2>2, <2>3, <2>4 DEF TypeOK
  <2>7. DemandExact'
    BY <2>1, <2>2, <2>3, <2>5 DEF DemandExact, TypeOK
  <2>8. WorkExact'
    <3>1. \A j \in Keys : state[j] # "running"
      BY <2>2 DEF WorkExact
    <3>2. \A j \in Keys : state'[j] = "running" <=> j = k
      BY <2>1, <2>3, <3>1 DEF TypeOK
    <3> QED BY <2>1, <2>2, <2>4, <3>2 DEF WorkExact
  <2>9. Bounded'
    BY <2>5, NoneAdmitted
  <2>a. NoOvertaking'
    <3>1. \A j \in Keys : state'[j] = "queued" => j # k /\ state[j] = "queued"
      BY <2>1, <2>3 DEF TypeOK
    <3>2. \A j \in Keys \ {k} : state[j] = "queued" => since[k] < since[j]
      BY <2>3 DEF SinceExact, Jobs, TypeOK
    <3> QED BY <2>1, <2>2, <2>4, <3>1, <3>2 DEF NoOvertaking
  <2>b. SinceExact'
    BY <2>1, <2>2, <2>3, <2>4, <2>5 DEF SinceExact
  <2> QED BY <2>6, <2>7, <2>8, <2>9, <2>a, <2>b
<1>6. ASSUME NEW w \in units, NEW success \in BOOLEAN, Complete(w, success) PROVE IInv'
  <2>1. /\ work = w /\ work' = None
        /\ UNCHANGED <<waits, closed, issued, tickets, units, leases>>
    BY <1>6 DEF Complete, Issued, Drained
  <2>2. w \in Units /\ w # None /\ w.key \in Keys /\ state[w.key] = "running"
    BY <2>1 DEF TypeOK, Units, WorkExact
  <2>3. \A j \in Keys : state[j] = "running" <=> j = w.key
    BY <2>1, <2>2 DEF WorkExact
  <2>4. CASE closed
    <3>1. /\ state' = [k \in Keys |-> "none"] /\ since' = [k \in Keys |-> 0]
          /\ demand' = [k \in Keys |-> {}]
      BY <1>6, <2>4 DEF Complete, Drop, TypeOK
    <3>2. Jobs' = {} /\ Waiters' = {}
      BY <2>1, <2>4, <3>1 DEF Jobs, Waiters, WorkExact
    <3>3. TypeOK'
      BY <2>1, <3>1 DEF TypeOK
    <3>4. Bounded'
      BY <3>2, NoneAdmitted
    <3>5. DemandExact' /\ WorkExact' /\ NoOvertaking' /\ SinceExact'
      BY <2>1, <3>1, <3>2 DEF DemandExact, WorkExact, NoOvertaking, SinceExact, TypeOK
    <3> QED BY <3>3, <3>4, <3>5
  <2>5. CASE ~closed
    <3> DEFINE outcome == IF success THEN "complete" ELSE "failed"
    <3>1. state' = [state EXCEPT ![w.key] = outcome] /\ UNCHANGED <<since, demand>>
      BY <1>6, <2>5 DEF Complete
    <3>2. outcome \in {"complete", "failed"}
      OBVIOUS
    <3> HIDE DEF outcome
    <3>3. Jobs' = Jobs /\ Waiters' = Waiters
      BY <2>1, <2>2, <3>1, <3>2 DEF Jobs, Waiters, TypeOK
    <3>4. TypeOK'
      BY <2>1, <2>2, <3>1, <3>2 DEF TypeOK
    <3>5. Bounded'
      BY <3>3, NoneAdmitted
    <3>6. DemandExact' /\ NoOvertaking' /\ SinceExact'
      BY <2>1, <2>2, <3>1, <3>2, <3>3 DEF DemandExact, NoOvertaking, SinceExact, TypeOK
    <3>7. WorkExact'
      BY <2>1, <2>3, <2>5, <3>1, <3>2 DEF WorkExact, TypeOK
    <3> QED BY <3>4, <3>5, <3>6, <3>7
  <2> QED BY <2>4, <2>5
<1>7. ASSUME NEW k \in Keys, Forget(k) PROVE IInv'
  <2>1. /\ ~closed /\ Terminal(k) /\ demand[k] = {}
        /\ state' = [j \in Keys |-> IF j = k THEN "none" ELSE state[j]]
        /\ since' = [j \in Keys |-> IF j = k THEN 0 ELSE since[j]]
        /\ UNCHANGED <<demand, waits, work, closed, issued, tickets, units, leases>>
    BY <1>7 DEF Forget, Forgettable, Drop
  <2>2. Jobs' = Jobs \ {k} /\ Waiters' = Waiters
    BY <2>1 DEF Jobs, Waiters
  <2>3. TypeOK'
    BY <2>1 DEF TypeOK
  <2>4. Bounded'
    BY <2>2, NoneAdmitted
  <2>5. DemandExact' /\ NoOvertaking'
    BY <2>1, <2>2 DEF DemandExact, NoOvertaking, Terminal
  <2>6. WorkExact'
    <3>1. work # None => work.key \in Keys \ {k}
      BY <2>1 DEF WorkExact, TypeOK, Units, Terminal
    <3> QED BY <2>1, <2>2, <3>1 DEF WorkExact, Terminal
  <2>7. SinceExact'
    BY <2>1, <2>2 DEF SinceExact, Jobs, TypeOK
  <2> QED BY <2>3, <2>4, <2>5, <2>6, <2>7
<1>8. ASSUME Close PROVE IInv'
  <2>1. /\ closed' = TRUE /\ waits' = [c \in Consumers |-> None]
        /\ state' = [k \in Keys |-> IF state[k] = "running" THEN state[k] ELSE "none"]
        /\ since' = [k \in Keys |-> IF state[k] = "running" THEN since[k] ELSE 0]
        /\ demand' = [k \in Keys |-> {}]
        /\ UNCHANGED <<work, issued, tickets, units, leases>>
    BY <1>8 DEF Close, Drop, Kept
  <2>2. Jobs' = {k \in Jobs : state[k] = "running"} /\ Waiters' = {}
    BY <2>1 DEF Jobs, Waiters
  <2>3. TypeOK'
    <3>1. closed' \in BOOLEAN
      BY <2>1
    <3>2. state' \in [Keys -> {"none", "queued", "running", "complete", "failed"}]
      BY <2>1 DEF TypeOK
    <3> QED BY <2>1, <3>1, <3>2 DEF TypeOK
  <2>4. Bounded'
    BY <2>2, NoneAdmitted
  <2>5. DemandExact' /\ NoOvertaking'
    BY <2>1, <2>2 DEF DemandExact, NoOvertaking
  <2>6. WorkExact'
    <3>1. \A k \in Keys : state'[k] = "running" <=> state[k] = "running"
      BY <2>1
    <3>2. work # None => since'[work.key] = since[work.key]
      <4>1. work # None => work.key \in Keys /\ state[work.key] = "running"
        BY DEF WorkExact, TypeOK, Units
      <4> QED BY <2>1, <4>1
    <3>3. \A k \in Jobs' : state'[k] = "running"
      BY <2>2, <3>1 DEF Jobs
    <3> QED BY <2>1, <2>2, <3>1, <3>2, <3>3 DEF WorkExact
  <2>7. SinceExact'
    BY <2>1, <2>2 DEF SinceExact, Jobs, TypeOK
  <2> QED BY <2>3, <2>4, <2>5, <2>6, <2>7
<1>9. ASSUME UNCHANGED vars PROVE IInv'
  BY <1>9 DEF vars, jobs, TypeOK, DemandExact, WorkExact, Bounded, NoOvertaking, SinceExact, Jobs,
              Waiters
<1> QED
  BY <1>1, <1>2, <1>3, <1>4, <1>5, <1>6, <1>7, <1>8, <1>9 DEF Next

-----------------------------------------------------------------------------
(* The theorems                                                              *)

THEOREM Invariance == Spec => []IInv
BY InitInv, StepInv, PTL DEF Spec

\* Every variable of the queue keeps its type.
THEOREM QueueTypeOK == Spec => []TypeOK
<1>1. IInv => TypeOK
  BY DEF IInv
<1> QED BY <1>1, Invariance, PTL

\* _waits and the jobs' consumers never disagree.
THEOREM QueueDemandExact == Spec => []DemandExact
<1>1. IInv => DemandExact
  BY DEF IInv
<1> QED BY <1>1, Invariance, PTL

\* The unit in flight is the one running job, until it is reported.
THEOREM QueueWorkExact == Spec => []WorkExact
<1>1. IInv => WorkExact
  BY DEF IInv
<1> QED BY <1>1, Invariance, PTL

\* The metadata never outgrows its limits.
THEOREM QueueBounded == Spec => []Bounded
<1>1. IInv => Bounded
  BY DEF IInv
<1> QED BY <1>1, Invariance, PTL

\* No unit ever overtakes another in the queue.
THEOREM QueueNoOvertaking == Spec => []NoOvertaking
<1>1. IInv => NoOvertaking
  BY DEF IInv
<1> QED BY <1>1, Invariance, PTL

\* A wait keeps the job it found or made: IInv and WaitKept together are
\* inductive.
LEMMA StepKept == IInv /\ WaitKept /\ [Next]_vars => WaitKept'
<1> SUFFICES ASSUME IInv, WaitKept, [Next]_vars, NEW c \in Waiters'
             PROVE  since'[waits'[c].key] \in 1 .. waits'[c].id
  BY DEF WaitKept
<1> DEFINE k == waits[c].key
<1>1. IInv'
  BY StepInv
<1>2. waits'[c] \in Tickets /\ c \in Consumers
  BY <1>1 DEF IInv, TypeOK, Waiters
<1>3. since'[waits'[c].key] \in Nat /\ since'[waits'[c].key] > 0
  <2>1. waits'[c].key \in Keys /\ waits'[c] \in demand'[waits'[c].key]
    BY <1>1, <1>2 DEF IInv, DemandExact, Tickets
  <2>2. waits'[c].key \in Jobs'
    BY <1>1, <2>1 DEF IInv, DemandExact
  <2> QED BY <1>1, <2>1, <2>2 DEF IInv, SinceExact, TypeOK
<1>4. SUFFICES since'[waits'[c].key] =< waits'[c].id
  BY <1>2, <1>3 DEF Tickets
<1>5. ASSUME waits'[c] = waits[c], since'[k] = since[k] \/ since'[k] = 0
      PROVE  since'[waits'[c].key] =< waits'[c].id
  <2>1. c \in Waiters
    BY <1>5 DEF Waiters
  <2> QED BY <1>2, <1>5, <2>1 DEF WaitKept, Tickets
<1>6. ASSUME NEW d \in Consumers, NEW g \in Generations, NEW j \in Keys, OnWait(d, g, j)
      PROVE  since'[waits'[c].key] =< waits'[c].id
  <2> DEFINE t == [consumer |-> d, generation |-> g, key |-> j, id |-> Fresh]
  <2>1. /\ waits' = [waits EXCEPT ![d] = t] /\ issued' = issued + 1
        /\ \A i \in Keys \ {j} : since'[i] \in {0, since[i]}
        /\ since'[j] = Admitted(j, t)
    BY <1>6 DEF OnWait
  <2>2. issued \in Nat /\ t.key = j /\ t.id = issued + 1
    BY DEF IInv, TypeOK, Fresh
  <2>3. Admitted(j, t) = IF j \in Jobs THEN since[j] ELSE issued + 1
    BY <2>2 DEF Admitted
  <2>4. since[j] =< issued /\ (j \notin Jobs => since[j] = 0)
    BY DEF IInv, SinceExact
  <2> HIDE DEF t
  <2>5. CASE c = d
    <3>1. waits'[c] = t
      BY <1>2, <2>1, <2>5 DEF IInv, TypeOK
    <3>2. since[j] \in Nat
      BY DEF IInv, TypeOK
    <3> QED BY <2>1, <2>2, <2>3, <2>4, <3>1, <3>2
  <2>6. CASE c # d
    <3>1. waits'[c] = waits[c]
      BY <1>2, <2>1, <2>6 DEF IInv, TypeOK
    <3>2. c \in Waiters /\ k \in Keys
      BY <1>2, <3>1 DEF Waiters, Tickets
    <3>3. k \in Jobs
      BY <3>2 DEF IInv, DemandExact
    <3>4. since'[k] = since[k] \/ since'[k] = 0
      BY <2>1, <2>3, <3>2, <3>3
    <3> QED BY <1>5, <3>1, <3>4
  <2> QED BY <2>5, <2>6
<1>7. ASSUME NEW t \in tickets, Consume(t)
      PROVE  since'[waits'[c].key] =< waits'[c].id
  <2>1. waits'[c] = waits[c]
    BY <1>2, <1>7 DEF Consume, IInv, TypeOK, Waiters
  <2>2. since'[k] = since[k] \/ since'[k] = 0
    BY <1>2, <1>7, <2>1 DEF Consume, Drop, Tickets
  <2> QED BY <1>5, <2>1, <2>2
<1>8. ASSUME NEW D, Drop(D), waits' = waits
      PROVE  since'[waits'[c].key] =< waits'[c].id
  <2>1. since'[k] = since[k] \/ since'[k] = 0
    BY <1>2, <1>8 DEF Drop, Tickets
  <2> QED BY <1>5, <1>8, <2>1
<1>9. ASSUME UNCHANGED <<since, waits>>
      PROVE  since'[waits'[c].key] =< waits'[c].id
  BY <1>5, <1>9
<1>10. CASE Close
  BY <1>10 DEF Close, Waiters
<1>11. ASSUME NEW w \in units, NEW success \in BOOLEAN, Complete(w, success)
       PROVE  since'[waits'[c].key] =< waits'[c].id
  BY <1>8, <1>9, <1>11 DEF Complete
<1>12. ASSUME NEW j \in Keys, Forget(j)
       PROVE  since'[waits'[c].key] =< waits'[c].id
  BY <1>8, <1>12 DEF Forget
<1>13. ASSUME BeginNext \/ UNCHANGED vars \/ \E t \in tickets : CloseLease(t)
       PROVE  since'[waits'[c].key] =< waits'[c].id
  BY <1>9, <1>13 DEF BeginNext, CloseLease, jobs, vars
<1> QED BY <1>6, <1>7, <1>10, <1>11, <1>12, <1>13 DEF Next, Cancel, OnWake

\* While a consumer waits, the job it waits for is the one it found or made.
THEOREM QueueWaitKept == Spec => []WaitKept
<1>1. Init => WaitKept
  BY DEF Init, WaitKept, Waiters
<1> QED BY <1>1, InitInv, StepInv, StepKept, PTL DEF Spec

\* A unit runs once per admission, and nobody's history is forgotten.
THEOREM QueueRunOnce == Spec => RunOnce
<1> DEFINE A == \A k \in Keys :
                  /\ state[k] = "running" => state'[k] = "running" \/ work' = None
                  /\ Terminal(k) => state'[k] = state[k] \/ state'[k] = "none"
                  /\ state[k] # "none" /\ state'[k] = "none" => demand'[k] = {}
<1>1. IInv /\ [Next]_vars => [A]_vars
  <2> SUFFICES ASSUME IInv, Next, NEW k \in Keys
               PROVE  /\ state[k] = "running" => state'[k] = "running" \/ work' = None
                      /\ Terminal(k) => state'[k] = state[k] \/ state'[k] = "none"
                      /\ state[k] # "none" /\ state'[k] = "none" => demand'[k] = {}
    OBVIOUS
  <2> USE DEF Terminal
  <2>d. state'[k] = "none" => demand'[k] = {}
    <3>1. IInv'
      BY StepInv
    <3> QED BY <3>1 DEF IInv, DemandExact, Jobs
  <2>1. ASSUME NEW c \in Consumers, NEW g \in Generations, NEW j \in Keys, OnWait(c, g, j)
        PROVE  \/ state'[k] = state[k]
               \/ state[k] = "none"
               \/ state'[k] = "none" /\ state[k] # "running"
    BY <2>1 DEF OnWait, Jobs, Evictions, First, Forgettable, Abandoned
  <2>2. ASSUME NEW t \in tickets, Consume(t)
        PROVE  state'[k] = state[k] \/ (state'[k] = "none" /\ state[k] = "queued")
    BY <2>2 DEF Consume, Drop, Abandons, Abandoned
  <2>3. ASSUME BeginNext
        PROVE  state'[k] = state[k] \/ (state'[k] = "running" /\ state[k] = "queued")
    BY <2>3 DEF BeginNext, First, IInv, TypeOK
  <2>4. ASSUME NEW w \in units, NEW success \in BOOLEAN, Complete(w, success)
        PROVE  work' = None /\ (state'[k] = state[k] \/ state'[k] = "none" \/ ~Terminal(k))
    <3>1. state[w.key] = "running"
      BY <2>4 DEF Complete, Issued, IInv, TypeOK, WorkExact, Units
    <3> QED BY <2>4, <3>1 DEF Complete, Drained, Drop, IInv, TypeOK
  <2>5. ASSUME NEW j \in Keys, Forget(j)
        PROVE  state'[k] = state[k] \/ (state'[k] = "none" /\ Terminal(k))
    BY <2>5 DEF Forget, Forgettable, Drop
  <2>6. ASSUME Close
        PROVE  state'[k] = state[k] \/ (state'[k] = "none" /\ state[k] # "running")
    BY <2>6 DEF Close, Drop, Kept
  <2>7. ASSUME NEW t \in tickets, CloseLease(t) PROVE state'[k] = state[k]
    BY <2>7 DEF CloseLease, jobs
  <2> QED BY <2>d, <2>1, <2>2, <2>3, <2>4, <2>5, <2>6, <2>7 DEF Next, Cancel, OnWake
<1> QED BY <1>1, Invariance, PTL DEF Spec, RunOnce
=============================================================================
