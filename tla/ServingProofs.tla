---------------------------- MODULE ServingProofs ----------------------------
(***************************************************************************)
(* What Serving guarantees for any requests, metadata, prompts and numbers *)
(* of layers, for both runners: adapter, runtime and runner agree between  *)
(* executions, and attention sees each row once, of one request's metadata.*)
(***************************************************************************)
EXTENDS Serving, SequenceTheorems, TLAPS

USE SizeAssumption, NoneAssumption

Steps == [id : Ids, args : Args, first : Positions, count : 1 .. MaxTokens, replay : BOOLEAN]

\* What each stage knows of the request that was scheduled.
Scheduled ==
    /\ engine[call.batch] # None
    /\ engine[call.batch].known =< MaxTokens
    /\ call.count \in 1 .. engine[call.batch].known - engine[call.batch].computed

Called ==
    /\ at = "idle" => call = NoCall
    /\ at = "add" =>
          /\ call.layer = 0
          /\ call.batch # None => Scheduled
          /\ call.new = None /\ call.batch # None => call.batch \in There
          /\ call.new # None => /\ call.batch = call.new /\ engine[call.new] # None
                                /\ ~v2 => call.new \notin There
    /\ at \in {"prepare", "run", "layers", "sample"} => call.batch \in There /\ Scheduled
    /\ at \in {"prepare", "run"} => call.layer = 0

\* The current step is of the scheduled rows and of the metadata in the snapshot;
\* a prefill is of a prompt or more, and anything else is one row after a prompt.
Stepping ==
    at \in {"run", "layers", "sample"} =>
        /\ context \in Steps
        /\ context.id = call.batch /\ context.count = call.count
        /\ context.first = engine[call.batch].computed
        /\ snapshots[call.batch] # None /\ snapshots[call.batch].args = context.args
        /\ IF IsPrefill THEN context.first = 0 /\ context.count >= Prompt
           ELSE context.first >= Prompt /\ context.count = 1

\* The rows that the runtime has counted, while it computes and afterwards.
Running ==
    at \in {"layers", "sample"} =>
        /\ Mine # None
        /\ Prompt + Mine.decoded = IF at = "layers" /\ ~IsPrefill THEN context.first
                                   ELSE context.first + context.count

\* What adapter and runtime keep is of requests that the runner has.
Kept ==
    \A q \in Ids :
        /\ snapshots[q] # None => q \in There
        /\ v2 /\ q \in There => snapshots[q] # None
        /\ requests[q] # None => snapshots[q] # None /\ requests[q].args = snapshots[q].args
        /\ q \in There /\ engine[q].computed >= Prompt =>
              /\ requests[q] # None
              /\ Prompt + requests[q].decoded - engine[q].computed \in {0, 1}

\* No step is current outside of a forward.
Scoped == at \in {"idle", "dummy", "add", "prepare"} => context = None

\* The rows of the first n positions, of one request's metadata.
History(n, x) == [i \in 1 .. n |-> <<i - 1, x>>]

\* With arenas, a layer has the rows of the first positions, unless a failed write
\* retired it; without, it has some.
Intact(rows, x) == IF Paged THEN rows # None => rows = History(Len(rows), x)
                   ELSE rows \in Seq(Positions \X Args)

\* With arenas, the layers that attended in this step have the rows up to its end.
Histories ==
    /\ \A q \in Ids : requests[q] # None =>
          \A l \in Numbers : Intact(requests[q].rows[l], requests[q].args)
    /\ Paged /\ at = "layers" =>
          \A l \in 0 .. call.layer - 1 :
              Mine.rows[l] = History(context.first + context.count, context.args)

Base == TypeOK /\ Called /\ Stepping /\ Running /\ Kept /\ Scoped
IInv == Base /\ Histories

-----------------------------------------------------------------------------
(* What is known of the request that runs                                   *)

\* What is known while a step is current.
LEMMA Current ==
    ASSUME Base, at \in {"run", "layers", "sample"}
    PROVE  /\ context \in Steps /\ context.id \in Ids /\ context.id = call.batch
           /\ context.id \in There
           /\ engine[context.id] \in Natives /\ engine[context.id].computed = context.first
           /\ context.first + context.count =< engine[context.id].known
           /\ context.first + context.count =< MaxTokens
           /\ context.count = call.count
           /\ snapshots[context.id] \in Snapshots /\ snapshots[context.id].args = context.args
           /\ IF IsPrefill THEN context.first = 0 /\ context.count >= Prompt
              ELSE context.first >= Prompt /\ context.count = 1
<1>1. /\ context \in Steps /\ context.id = call.batch /\ context.count = call.count
      /\ context.first = engine[call.batch].computed
      /\ snapshots[call.batch] # None /\ snapshots[call.batch].args = context.args
      /\ IF IsPrefill THEN context.first = 0 /\ context.count >= Prompt
         ELSE context.first >= Prompt /\ context.count = 1
  BY DEF Base, Stepping
<1>2. call.batch \in There /\ Scheduled
  BY DEF Base, Called
<1>3. context.id \in Ids /\ context.first \in Nat /\ context.count \in Nat
  BY <1>1 DEF Steps, Positions
<1>4. engine[context.id] \in Natives /\ snapshots[context.id] \in Snapshots
  BY <1>1, <1>2, <1>3 DEF Base, TypeOK, Scheduled
<1>5. engine[context.id].known \in Nat
  BY <1>4 DEF Natives
<1> QED BY <1>1, <1>2, <1>3, <1>4, <1>5 DEF Scheduled

\* What is known of the running request.
LEMMA CurrentState ==
    ASSUME Base, at \in {"layers", "sample"}
    PROVE  /\ Mine \in States /\ Mine = requests[context.id] /\ Mine.args = context.args
           /\ Mine.decoded \in Nat
           /\ Prompt + Mine.decoded = IF at = "layers" /\ ~IsPrefill THEN context.first
                                      ELSE context.first + context.count
<1>1. /\ Mine # None
      /\ Prompt + Mine.decoded = IF at = "layers" /\ ~IsPrefill THEN context.first
                                 ELSE context.first + context.count
  BY DEF Base, Running
<1>2. context.id \in Ids /\ snapshots[context.id].args = context.args
  BY Current
<1>3. requests[context.id] \in States
  BY <1>1, <1>2 DEF Base, TypeOK, Mine
<1>4. requests[context.id].args = context.args
  BY <1>1, <1>2 DEF Base, Kept, Mine
<1> QED BY <1>1, <1>3, <1>4 DEF Mine, States, Positions

\* The state of the running request changes, but not what it is of.
LEMMA StateChanged ==
    ASSUME Base, at = "layers", NEW s \in States,
           requests' = [requests EXCEPT ![context.id] = s], s.args = context.args,
           \/ Prompt + s.decoded = Prompt + Mine.decoded
           \/ Prompt + s.decoded = context.first + context.count,
           UNCHANGED <<v2, engine, snapshots>>
    PROVE  Kept' /\ requests' \in [Ids -> {None} \cup States]
<1>1. /\ context.id \in Ids /\ snapshots[context.id] # None
      /\ snapshots[context.id].args = context.args
      /\ engine[context.id].computed = context.first
      /\ context.first \in Nat /\ context.count \in Nat /\ s.decoded \in Nat
      /\ IF IsPrefill THEN context.first = 0 ELSE context.count = 1
  BY Current DEF Steps, States, Positions
<1>2. /\ Mine.decoded \in Nat
      /\ Prompt + Mine.decoded = IF ~IsPrefill THEN context.first ELSE context.first + context.count
  BY CurrentState
<1>3. requests \in [Ids -> {None} \cup States]
  BY DEF Base, TypeOK
<1>4. requests'[context.id] = s /\ \A q \in Ids \ {context.id} : requests'[q] = requests[q]
  BY <1>1, <1>3
<1>5. There' = There
  BY DEF There
<1> SUFFICES ASSUME NEW q \in Ids
             PROVE  /\ snapshots[q] # None => q \in There
                    /\ v2 /\ q \in There => snapshots[q] # None
                    /\ requests'[q] # None => /\ snapshots[q] # None
                                              /\ requests'[q].args = snapshots[q].args
                    /\ q \in There /\ engine[q].computed >= Prompt =>
                          /\ requests'[q] # None
                          /\ Prompt + requests'[q].decoded - engine[q].computed \in {0, 1}
  BY <1>1, <1>3, <1>5 DEF Kept
<1>6. CASE q = context.id
  <2>1. snapshots[q] # None => q \in There
    BY DEF Base, Kept
  <2>2. s # None
    OBVIOUS
  <2> QED BY <1>1, <1>2, <1>4, <1>6, <2>1, <2>2
<1>7. CASE q # context.id
  BY <1>4, <1>7 DEF Base, Kept
<1> QED BY <1>6, <1>7

\* A state of rows that the running request may have.
LEMMA RowsState ==
    ASSUME Base, at = "layers", NEW rows \in [Numbers -> {None} \cup Seq(Positions \X Args)]
    PROVE  /\ [Mine EXCEPT !.rows = rows] \in States
           /\ [Mine EXCEPT !.rows = rows].args = context.args
           /\ [Mine EXCEPT !.rows = rows].decoded = Mine.decoded
BY CurrentState DEF States

-----------------------------------------------------------------------------
(* One lemma for each action                                               *)

LEMMA SubmitBase == ASSUME Base, NEW q \in Ids, NEW x \in Args, Submit(q, x) PROVE Base'
<1> USE DEF Base, Submit, adapter
<1>1. TypeOK'
  BY DEF TypeOK, Natives, Positions
<1>2. Called'
  BY DEF TypeOK, Called, Scheduled, There, Natives
<1>3. Stepping'
  BY DEF TypeOK, Called, Stepping, Scheduled, There, Natives, IsPrefill
<1>4. Running'
  BY DEF TypeOK, Called, Stepping, Running, Scheduled, There, Natives, IsPrefill, Mine
<1>5. Kept'
  BY DEF TypeOK, Kept, There, Natives
<1>6. Scoped'
  BY DEF Scoped
<1> QED BY <1>1, <1>2, <1>3, <1>4, <1>5, <1>6

LEMMA MutateBase == ASSUME Base, NEW q \in Ids, NEW x \in Args, Mutate(q, x) PROVE Base'
<1> USE DEF Base, Mutate, adapter
<1>1. TypeOK'
  BY DEF TypeOK, Natives, Positions
<1>2. Called'
  BY DEF TypeOK, Called, Scheduled, There, Natives
<1>3. Stepping'
  BY DEF TypeOK, Called, Stepping, Scheduled, There, Natives, IsPrefill
<1>4. Running'
  BY DEF TypeOK, Called, Stepping, Running, Scheduled, There, Natives, IsPrefill, Mine
<1>5. Kept'
  BY DEF TypeOK, Kept, There, Natives
<1>6. Scoped'
  BY DEF Scoped
<1> QED BY <1>1, <1>2, <1>3, <1>4, <1>5, <1>6

\* An execution begins: a request may end, and at most one is scheduled.
LEMMA BeginBase ==
    ASSUME Base, NEW gone \in {None} \cup There, NEW new \in {None} \cup Ids,
           NEW batch \in {None} \cup Ids, NEW count \in Positions, Begin(gone, new, batch, count),
           new # None => /\ batch = new /\ new # gone /\ engine[new] # None
                         /\ ~v2 => new \notin There,
           batch # None => Schedulable(batch, count) /\ batch # gone,
           new = None /\ batch # None => batch \in There
    PROVE  Base'
<1>1. /\ at = "idle" /\ at' = "add" /\ v2' = v2 /\ context' = context
      /\ call' = [NoCall EXCEPT !.new = new, !.batch = batch, !.count = count]
  BY DEF Begin
<1>2. call' = [new |-> new, batch |-> batch, count |-> count, layer |-> 0, fallback |-> FALSE]
  BY <1>1 DEF NoCall
<1>3. /\ engine \in [Ids -> {None} \cup Natives] /\ snapshots \in [Ids -> {None} \cup Snapshots]
      /\ requests \in [Ids -> {None} \cup States]
  BY DEF Base, TypeOK
<1>4. IF gone = None THEN UNCHANGED <<engine, snapshots, requests>>
      ELSE /\ engine' = [engine EXCEPT ![gone] = None]
           /\ snapshots' = [snapshots EXCEPT ![gone] = None]
           /\ requests' = [requests EXCEPT ![gone] = None]
  BY DEF Begin, Removed, SnapshotGone
<1>5. gone # None => gone \in Ids
  BY DEF There
<1>6. TypeOK'
  <2>1. call' \in [new : {None} \cup Ids, batch : {None} \cup Ids, count : Positions,
                   layer : 0 .. Layers, fallback : BOOLEAN]
    BY <1>2
  <2>2. /\ engine' \in [Ids -> {None} \cup Natives]
        /\ snapshots' \in [Ids -> {None} \cup Snapshots]
        /\ requests' \in [Ids -> {None} \cup States]
    BY <1>3, <1>4, <1>5
  <2> QED BY <1>1, <2>1, <2>2 DEF Base, TypeOK
<1>7. /\ \A p \in Ids \ {gone} : /\ engine'[p] = engine[p] /\ snapshots'[p] = snapshots[p]
                                 /\ requests'[p] = requests[p]
      /\ gone # None => engine'[gone] = None /\ snapshots'[gone] = None /\ requests'[gone] = None
  BY <1>3, <1>4, <1>5
<1>8. There' = There \ {gone}
  BY <1>3, <1>4, <1>5, <1>7 DEF There
<1>9. Called'
  <2>1. batch # None => Scheduled'
    BY <1>2, <1>5, <1>7 DEF Schedulable, Scheduled
  <2>2. new # None => engine'[new] # None
    BY <1>7
  <2>3. call'.layer = 0 /\ call'.batch = batch /\ call'.new = new
    BY <1>2
  <2>4. new = None /\ batch # None => batch \in There'
    BY <1>8
  <2>5. ~v2' /\ new # None => new \notin There'
    BY <1>1, <1>8
  <2> QED BY <1>1, <2>1, <2>2, <2>3, <2>4, <2>5 DEF Called
<1>10. Kept'
  <2> SUFFICES ASSUME NEW p \in Ids
               PROVE  /\ snapshots'[p] # None => p \in There'
                      /\ v2 /\ p \in There' => snapshots'[p] # None
                      /\ requests'[p] # None => /\ snapshots'[p] # None
                                                /\ requests'[p].args = snapshots'[p].args
                      /\ p \in There' /\ engine'[p].computed >= Prompt =>
                            /\ requests'[p] # None
                            /\ Prompt + requests'[p].decoded - engine'[p].computed \in {0, 1}
    BY <1>1 DEF Kept
  <2>1. CASE p = gone
    BY <1>5, <1>7, <1>8, <2>1
  <2>2. CASE p # gone
    BY <1>7, <1>8, <2>2 DEF Base, Kept
  <2> QED BY <2>1, <2>2
<1> QED BY <1>1, <1>6, <1>9, <1>10 DEF Base, Stepping, Running, Scoped

LEMMA ExecuteBase == ASSUME Base, Execute PROVE Base'
<1>1. PICK gone \in {None} \cup There, new \in {None} \cup Ids :
        /\ new # None => /\ new # gone /\ engine[new] # None
                         /\ ~v2 => new \notin There
        /\ \/ new = None /\ Begin(gone, None, None, 0)
           \/ \E q \in IF new # None THEN {new} ELSE There \ {gone} :
                 \E count \in 1 .. MaxTokens :
                     Schedulable(q, count) /\ Begin(gone, new, q, count)
  BY DEF Execute
<1>2. CASE new = None /\ Begin(gone, None, None, 0)
  BY <1>2, BeginBase DEF Positions
<1>3. ASSUME NEW q \in IF new # None THEN {new} ELSE There \ {gone}, NEW count \in 1 .. MaxTokens,
             Schedulable(q, count), Begin(gone, new, q, count)
      PROVE  Base'
  <2>1. q \in Ids /\ q # gone /\ (new # None => q = new) /\ (new = None => q \in There)
    BY <1>1, <1>3 DEF There
  <2>2. count \in Positions
    BY DEF Positions
  <2> QED BY <1>1, <1>3, <2>1, <2>2, BeginBase
<1> QED BY <1>1, <1>2, <1>3

LEMMA PreemptBase == ASSUME Base, NEW q \in Ids, Preempt(q) PROVE Base'
<1>1. at = "idle" /\ at' = "idle" /\ call' = call /\ context' = context /\ v2' = v2
  BY DEF Preempt
<1>2. /\ q \in There /\ engine[q] \in Natives
      /\ engine' = [engine EXCEPT ![q] = [engine[q] EXCEPT !.computed = 0, !.there = ~v2]]
  BY DEF Preempt, Base, TypeOK, There
<1>3. IF v2 THEN /\ snapshots' = [snapshots EXCEPT ![q] = None]
                 /\ requests' = [requests EXCEPT ![q] = None]
      ELSE UNCHANGED <<snapshots, requests>>
  BY DEF Preempt, Removed, SnapshotGone
<1>4. /\ engine'[q] \in Natives /\ engine'[q].computed = 0
      /\ IF v2 THEN ~engine'[q].there ELSE engine'[q].there
  <2>1. v2 \in BOOLEAN /\ engine \in [Ids -> {None} \cup Natives]
    BY DEF Base, TypeOK
  <2>0. engine[q] \in Natives
    BY <1>2
  <2>2. CASE v2
    <3>1. engine'[q] = [args |-> engine[q].args, known |-> engine[q].known,
                        computed |-> 0, there |-> FALSE]
      BY <1>2, <2>1, <2>2 DEF Natives
    <3>2. engine'[q] \in Natives /\ engine'[q].computed = 0 /\ engine'[q].there = FALSE
      BY <2>0, <3>1 DEF Natives, Positions
    <3> QED BY <2>2, <3>2
  <2>3. CASE ~v2
    <3>1. engine'[q] = [args |-> engine[q].args, known |-> engine[q].known,
                        computed |-> 0, there |-> TRUE]
      BY <1>2, <2>1, <2>3 DEF Natives
    <3>2. engine'[q] \in Natives /\ engine'[q].computed = 0 /\ engine'[q].there = TRUE
      BY <2>0, <3>1 DEF Natives, Positions
    <3> QED BY <2>3, <3>2
  <2> QED BY <2>1, <2>2, <2>3
<1>8. engine'[q] # None
  BY <1>4
<1>5. TypeOK'
  BY <1>1, <1>2, <1>3, <1>4 DEF Base, TypeOK
<1>6. There' = IF v2 THEN There \ {q} ELSE There
  BY <1>2, <1>4, <1>8 DEF There, Base, TypeOK, Natives
<1>7. Kept'
  <2> SUFFICES ASSUME NEW p \in Ids
               PROVE  /\ snapshots'[p] # None => p \in There'
                      /\ v2 /\ p \in There' => snapshots'[p] # None
                      /\ requests'[p] # None => /\ snapshots'[p] # None
                                                /\ requests'[p].args = snapshots'[p].args
                      /\ p \in There' /\ engine'[p].computed >= Prompt =>
                            /\ requests'[p] # None
                            /\ Prompt + requests'[p].decoded - engine'[p].computed \in {0, 1}
    BY <1>1 DEF Kept
  <2>1. CASE p = q
    BY <1>2, <1>3, <1>4, <1>8, <1>6, <2>1 DEF Base, Kept, TypeOK
  <2>2. CASE p # q
    BY <1>2, <1>3, <1>6, <2>2 DEF Base, Kept, TypeOK
  <2> QED BY <2>1, <2>2
<1> QED BY <1>1, <1>5, <1>7 DEF Base, Called, Stepping, Running, Scoped

LEMMA DummyRunBase == ASSUME Base, DummyRun PROVE Base'
<1> USE DEF Base, DummyRun, adapter
<1>1. TypeOK'
  BY DEF TypeOK, Natives, Positions
<1>2. Called'
  BY DEF TypeOK, Called, Scheduled, There, Natives
<1>3. Stepping'
  BY DEF TypeOK, Called, Stepping, Scheduled, There, Natives, IsPrefill
<1>4. Running'
  BY DEF TypeOK, Called, Stepping, Running, Scheduled, There, Natives, IsPrefill, Mine
<1>5. Kept'
  BY DEF TypeOK, Kept, There, Natives
<1>6. Scoped'
  BY DEF Scoped
<1> QED BY <1>1, <1>2, <1>3, <1>4, <1>5, <1>6

LEMMA DummyDoneBase == ASSUME Base, DummyDone PROVE Base'
<1> USE DEF Base, DummyDone, Ends, NoCall, adapter
<1>1. TypeOK'
  BY DEF TypeOK, Natives, Positions
<1>2. Called'
  BY DEF TypeOK, Called, Scheduled, There, Natives
<1>3. Stepping'
  BY DEF TypeOK, Called, Stepping, Scheduled, There, Natives, IsPrefill
<1>4. Running'
  BY DEF TypeOK, Called, Stepping, Running, Scheduled, There, Natives, IsPrefill, Mine
<1>5. Kept'
  BY DEF TypeOK, Kept, There, Natives
<1>6. Scoped'
  BY DEF Scoped
<1> QED BY <1>1, <1>2, <1>3, <1>4, <1>5, <1>6

LEMMA AddBase == ASSUME Base, Add PROVE Base'
<1>1. at = "add" /\ at' \in {"idle", "prepare"} /\ context' = context /\ v2' = v2 /\ context = None
  BY DEF Add, Base, Scoped
<1>2. CASE call.new = None
  <2>1. UNCHANGED <<engine, snapshots, requests>>
    BY <1>2 DEF Add
  <2>2. CASE call.batch = None
    <3>1. at' = "idle" /\ call' = NoCall
      BY <2>2 DEF Add
    <3>2. TypeOK'
      BY <1>1, <2>1, <3>1 DEF Base, TypeOK, NoCall, Positions
    <3> QED BY <1>1, <2>1, <3>1, <3>2 DEF Base, Called, Kept, Stepping, Running, Scoped, There
  <2>3. CASE call.batch # None
    <3>1. at' = "prepare" /\ call' = call
      BY <2>3 DEF Add
    <3>2. TypeOK'
      BY <1>1, <2>1, <3>1 DEF Base, TypeOK
    <3>3. Called'
      BY <1>1, <1>2, <2>1, <2>3, <3>1 DEF Base, Called, Scheduled, There
    <3> QED BY <1>1, <2>1, <3>1, <3>2, <3>3 DEF Base, Kept, Stepping, Running, Scoped, There
  <2> QED BY <2>2, <2>3
<1>3. CASE call.new # None
  <2> DEFINE q == call.new
  <2>1. /\ q \in Ids /\ call.batch = q /\ engine[q] \in Natives /\ Scheduled
        /\ ~v2 => q \notin There
    BY <1>1, <1>3 DEF Base, TypeOK, Called
  <2>2. engine' = [engine EXCEPT ![q] = [engine[q] EXCEPT !.computed = 0, !.there = TRUE]]
    BY <1>3, <2>1 DEF Add, Installed, Base, TypeOK
  <2>3. /\ v2 => /\ snapshots' = [snapshots EXCEPT ![q] = [args |-> engine[q].args,
                                                           prefill |-> engine[q].known]]
                 /\ requests' = [requests EXCEPT ![q] = None]
        /\ ~v2 => UNCHANGED <<snapshots, requests>>
    BY <1>3 DEF Add, Published
  <2>4. at' = "prepare" /\ call' = call
    BY <1>3, <2>1, NoneAssumption DEF Add
  <2>5. [args |-> engine[q].args, prefill |-> engine[q].known] \in Snapshots
    BY <2>1 DEF Natives, Scheduled, Snapshots, Positions
  <2>6. /\ engine'[q] \in Natives /\ engine'[q] # None /\ engine'[q].computed = 0
        /\ engine'[q].known = engine[q].known /\ engine'[q].args = engine[q].args
        /\ engine'[q].there
    <3>1. engine'[q] = [args |-> engine[q].args, known |-> engine[q].known,
                        computed |-> 0, there |-> TRUE]
      BY <2>1, <2>2 DEF Base, TypeOK, Natives
    <3>2. /\ engine'[q] \in Natives /\ engine'[q].computed = 0
          /\ engine'[q].known = engine[q].known /\ engine'[q].args = engine[q].args
          /\ engine'[q].there = TRUE
      BY <2>1, <3>1 DEF Natives, Positions
    <3> QED BY <3>2
  <2> HIDE DEF q
  <2>7. TypeOK'
    BY <1>1, <2>1, <2>2, <2>3, <2>4, <2>5, <2>6 DEF Base, TypeOK
  <2>8. There' = There \cup {q}
    BY <2>1, <2>2, <2>6 DEF There, Base, TypeOK
  <2>9. engine[q].computed \in Nat /\ engine[q].known \in Nat
    BY <2>1 DEF Natives, Positions
  <2>10. call.layer = 0 /\ call.batch = q
    BY <1>1, <2>1 DEF Base, Called
  <2>11. Scheduled'
    BY <2>1, <2>4, <2>6, <2>9, <2>10 DEF Scheduled
  <2>12. Called'
    BY <2>4, <2>8, <2>10, <2>11 DEF Called
  <2>13. Kept'
    <3> SUFFICES ASSUME NEW p \in Ids
                 PROVE  /\ snapshots'[p] # None => p \in There'
                        /\ v2 /\ p \in There' => snapshots'[p] # None
                        /\ requests'[p] # None => /\ snapshots'[p] # None
                                                  /\ requests'[p].args = snapshots'[p].args
                        /\ p \in There' /\ engine'[p].computed >= Prompt =>
                              /\ requests'[p] # None
                              /\ Prompt + requests'[p].decoded - engine'[p].computed \in {0, 1}
      BY <1>1 DEF Kept
    <3>1. CASE p = q
      BY <2>1, <2>3, <2>5, <2>6, <2>8, <3>1 DEF Base, Kept, TypeOK
    <3>2. CASE p # q
      BY <2>1, <2>2, <2>3, <2>8, <3>2 DEF Base, Kept, TypeOK
    <3> QED BY <3>1, <3>2
  <2> QED BY <1>1, <2>4, <2>7, <2>12, <2>13 DEF Base, Stepping, Running, Scoped
<1> QED BY <1>2, <1>3

LEMMA AddFailsBase == ASSUME Base, AddFails PROVE Base'
<1> DEFINE q == call.new
<1>1. at = "add" /\ at' = "idle" /\ call' = NoCall /\ context' = None /\ v2' = v2 /\ q # None
  BY DEF AddFails, Ends
<1>2. q \in Ids /\ engine[q] \in Natives /\ (~v2 => q \notin There)
  BY <1>1 DEF Base, TypeOK, Called
<1>3. engine' = [engine EXCEPT ![q] = [engine[q] EXCEPT !.computed = 0, !.there = FALSE]]
  BY <1>2 DEF AddFails, Base, TypeOK
<1>4. IF v2 THEN /\ snapshots' = [snapshots EXCEPT ![q] = None]
                 /\ requests' = [requests EXCEPT ![q] = None]
      ELSE UNCHANGED <<snapshots, requests>>
  BY DEF AddFails, Removed, SnapshotGone
<1>5. engine'[q] \in Natives /\ ~engine'[q].there
  <2>1. engine'[q] = [args |-> engine[q].args, known |-> engine[q].known,
                      computed |-> 0, there |-> FALSE]
    BY <1>2, <1>3 DEF Base, TypeOK, Natives
  <2> QED BY <1>2, <2>1 DEF Natives, Positions
<1> HIDE DEF q
<1>6. TypeOK'
  BY <1>1, <1>2, <1>3, <1>4, <1>5 DEF Base, TypeOK, NoCall, Positions
<1>7. There' = There \ {q}
  BY <1>2, <1>3, <1>5 DEF There, Base, TypeOK
<1>8. Kept'
  <2> SUFFICES ASSUME NEW p \in Ids
               PROVE  /\ snapshots'[p] # None => p \in There'
                      /\ v2 /\ p \in There' => snapshots'[p] # None
                      /\ requests'[p] # None => /\ snapshots'[p] # None
                                                /\ requests'[p].args = snapshots'[p].args
                      /\ p \in There' /\ engine'[p].computed >= Prompt =>
                            /\ requests'[p] # None
                            /\ Prompt + requests'[p].decoded - engine'[p].computed \in {0, 1}
    BY <1>1 DEF Kept
  <2>1. CASE p = q
    BY <1>2, <1>4, <1>7, <2>1 DEF Base, Kept, TypeOK
  <2>2. CASE p # q
    BY <1>2, <1>3, <1>4, <1>7, <2>2 DEF Base, Kept, TypeOK
  <2> QED BY <2>1, <2>2
<1> QED BY <1>1, <1>6, <1>8 DEF Base, Called, Stepping, Running, Scoped

LEMMA PrepareBase == ASSUME Base, Prepare PROVE Base'
<1> DEFINE q == call.batch
<1>1. /\ at = "prepare" /\ at' = "run" /\ Accepts /\ v2' = v2 /\ v2 \in BOOLEAN
      /\ UNCHANGED <<engine, requests, call>>
  BY DEF Prepare, Base, TypeOK
<1>2. /\ q \in Ids /\ q \in There /\ engine[q] \in Natives /\ Scheduled /\ call.layer = 0
      /\ There' = There
  BY <1>1 DEF Base, TypeOK, Called, There
<1>3. /\ engine[q].computed \in Nat /\ engine[q].known \in Nat /\ call.count \in Nat
      /\ call.count >= 1 /\ engine[q].args \in Args /\ call.count =< MaxTokens
      /\ engine[q].computed =< MaxTokens
  BY <1>2 DEF Natives, Positions, Scheduled
<1>4. /\ context' \in Steps /\ context'.id = q /\ context'.count = call.count
      /\ context'.first = engine[q].computed
      /\ snapshots'[q] \in Snapshots /\ snapshots'[q].args = context'.args
      /\ snapshots' \in [Ids -> {None} \cup Snapshots]
      /\ \A p \in Ids \ {q} : snapshots'[p] = snapshots[p]
      /\ snapshots[q] # None => snapshots'[q] = snapshots[q]
      /\ context'.replay => context'.first = 0 /\ context'.count >= Prompt
      /\ Unchunked(context')
  <2>1. CASE v2
    <3>1. context' = StepOfSnapshot /\ UNCHANGED snapshots /\ AcceptsSnapshot
      BY <1>1, <2>1 DEF Prepare, Accepts
    <3>2. snapshots[q] \in Snapshots /\ snapshots[q].args \in Args /\ snapshots[q].prefill \in Nat
      BY <1>2, <3>1 DEF AcceptsSnapshot, Base, TypeOK, Snapshots, Positions
    <3>3. context' = [id |-> q, args |-> snapshots[q].args, first |-> engine[q].computed,
                      count |-> call.count,
                      replay |-> engine[q].computed = 0 /\ snapshots[q].prefill > Prompt]
      BY <3>1 DEF StepOfSnapshot, First
    <3>4. context' \in Steps
      BY <1>2, <1>3, <3>2, <3>3 DEF Steps, Positions
    <3>5. context'.replay => context'.first = 0 /\ context'.count >= Prompt
      <4>1. /\ context'.replay <=> engine[q].computed = 0 /\ snapshots[q].prefill > Prompt
            /\ context'.first = engine[q].computed /\ context'.count = call.count
        BY <3>3
      <4>2. engine[q].computed = 0 => call.count = snapshots[q].prefill
        BY <3>1 DEF AcceptsSnapshot, First
      <4> QED BY <1>3, <3>2, <4>1, <4>2
    <3> QED BY <3>1, <3>2, <3>3, <3>4, <3>5 DEF AcceptsSnapshot, Base, TypeOK
  <2>2. CASE ~v2
    <3>1. /\ context' = StepOfNative /\ AcceptsNative
          /\ snapshots' = [snapshots EXCEPT ![q] =
                IF @ = None THEN [args |-> StepOfNative.args, prefill |-> 0] ELSE @]
      BY <1>1, <2>2 DEF Prepare, Accepts
    <3>2. context' = [id |-> q, args |-> engine[q].args, first |-> engine[q].computed,
                      count |-> call.count,
                      replay |-> engine[q].computed = 0 /\ call.count > Prompt]
      BY <3>1 DEF StepOfNative, First
    <3>3. context' \in Steps /\ (context'.replay => context'.first = 0 /\ context'.count >= Prompt)
      <4>1. /\ context'.replay <=> engine[q].computed = 0 /\ call.count > Prompt
            /\ context'.first = engine[q].computed /\ context'.count = call.count
        BY <3>2
      <4>2. context' \in Steps
        BY <1>2, <1>3, <3>2 DEF Steps, Positions
      <4> QED BY <1>3, <4>1, <4>2
    <3>4. StepOfNative.args = engine[q].args
      BY DEF StepOfNative
    <3>5. snapshots \in [Ids -> {None} \cup Snapshots]
      BY DEF Base, TypeOK
    <3>6. [args |-> engine[q].args, prefill |-> 0] \in Snapshots
      BY <1>3 DEF Snapshots, Positions
    <3>7. /\ snapshots'[q] = IF snapshots[q] = None THEN [args |-> engine[q].args, prefill |-> 0]
                             ELSE snapshots[q]
          /\ \A p \in Ids \ {q} : snapshots'[p] = snapshots[p]
      BY <1>2, <3>1, <3>4, <3>5
    <3>8. snapshots'[q] \in Snapshots /\ snapshots' \in [Ids -> {None} \cup Snapshots]
      BY <1>2, <3>1, <3>4, <3>5, <3>6
    <3>9. snapshots'[q].args = engine[q].args
      BY <3>1, <3>7 DEF AcceptsNative, UnchangedInputs
    <3>10. Unchunked(context')
      BY <3>1 DEF AcceptsNative
    <3> QED BY <3>2, <3>3, <3>7, <3>8, <3>9, <3>10
  <2> QED BY <1>1, <2>1, <2>2
<1>5. TypeOK'
  BY <1>1, <1>4 DEF Base, TypeOK, Steps
<1>6. Called'
  BY <1>1, <1>2 DEF Called, Scheduled
<1>7. IF IsPrefill' THEN context'.first = 0 /\ context'.count >= Prompt
      ELSE context'.first >= Prompt /\ context'.count = 1
  <2>1. context'.first \in Nat /\ context'.count \in Nat /\ context'.replay \in BOOLEAN
    BY <1>4 DEF Steps, Positions
  <2> QED BY <1>4, <2>1 DEF IsPrefill, Unchunked
<1>8. Stepping'
  BY <1>1, <1>4, <1>7 DEF Stepping
<1>9. Kept'
  <2> SUFFICES ASSUME NEW p \in Ids
               PROVE  /\ snapshots'[p] # None => p \in There
                      /\ v2 /\ p \in There => snapshots'[p] # None
                      /\ requests[p] # None => /\ snapshots'[p] # None
                                               /\ requests[p].args = snapshots'[p].args
                      /\ p \in There /\ engine[p].computed >= Prompt =>
                            /\ requests[p] # None
                            /\ Prompt + requests[p].decoded - engine[p].computed \in {0, 1}
    BY <1>1, <1>2 DEF Kept
  <2>1. CASE p = q
    BY <1>2, <1>4, <2>1 DEF Base, Kept
  <2>2. CASE p # q
    BY <1>4, <2>2 DEF Base, Kept
  <2> QED BY <2>1, <2>2
<1> QED BY <1>1, <1>5, <1>6, <1>8, <1>9 DEF Base, Running, Scoped

LEMMA PrepareRefusedBase == ASSUME Base, PrepareRefused PROVE Base'
<1> USE DEF Base, PrepareRefused, Ends, NoCall, adapter
<1>1. TypeOK'
  BY DEF TypeOK, Natives, Positions
<1>2. Called'
  BY DEF TypeOK, Called, Scheduled, There, Natives
<1>3. Stepping'
  BY DEF TypeOK, Called, Stepping, Scheduled, There, Natives, IsPrefill
<1>4. Running'
  BY DEF TypeOK, Called, Stepping, Running, Scheduled, There, Natives, IsPrefill, Mine
<1>5. Kept'
  BY DEF TypeOK, Kept, There, Natives
<1>6. Scoped'
  BY DEF Scoped
<1> QED BY <1>1, <1>2, <1>3, <1>4, <1>5, <1>6

LEMMA RunPrefillBase == ASSUME Base, RunPrefill PROVE Base'
<1> DEFINE s == [args |-> context.args, decoded |-> Decoded(context.count), rows |-> NoRows]
<1>1. /\ at = "run" /\ at' = "layers" /\ IsPrefill
      /\ requests' = [requests EXCEPT ![context.id] = s]
      /\ UNCHANGED <<v2, engine, snapshots, context, call>>
  BY DEF RunPrefill, adapter
<1>2. /\ context \in Steps /\ context.id \in Ids /\ context.id \in There
      /\ engine[context.id].computed = context.first
      /\ context.first + context.count =< MaxTokens
      /\ snapshots[context.id] \in Snapshots /\ snapshots[context.id].args = context.args
      /\ context.first = 0 /\ context.count >= Prompt
  BY <1>1, Current
<1>3. context.count \in Nat /\ context.args \in Args
  BY <1>2 DEF Steps, Positions
<1>4. s \in States /\ Prompt + s.decoded = context.count
  BY <1>2, <1>3 DEF States, Decoded, NoRows, Positions
<1> HIDE DEF s
<1>5. /\ requests \in [Ids -> {None} \cup States]
      /\ requests' \in [Ids -> {None} \cup States]
      /\ requests'[context.id] = s /\ \A p \in Ids \ {context.id} : requests'[p] = requests[p]
  BY <1>1, <1>2, <1>4 DEF Base, TypeOK
<1>6. TypeOK'
  BY <1>1, <1>5 DEF Base, TypeOK
<1>7. There' = There /\ s.args = context.args
  BY <1>1 DEF There, s
<1>8. Called' /\ Stepping'
  BY <1>1, <1>7 DEF Base, Called, Stepping, Scheduled, IsPrefill
<1>9. Running'
  BY <1>1, <1>2, <1>3, <1>4, <1>5 DEF Running, Mine, IsPrefill
<1>10. Kept'
  <2> SUFFICES ASSUME NEW p \in Ids
               PROVE  /\ snapshots[p] # None => p \in There
                      /\ v2 /\ p \in There => snapshots[p] # None
                      /\ requests'[p] # None => /\ snapshots[p] # None
                                                /\ requests'[p].args = snapshots[p].args
                      /\ p \in There /\ engine[p].computed >= Prompt =>
                            /\ requests'[p] # None
                            /\ Prompt + requests'[p].decoded - engine[p].computed \in {0, 1}
    BY <1>1, <1>7 DEF Kept
  <2>1. CASE p = context.id
    BY <1>2, <1>5, <1>7, <2>1 DEF Base, Kept
  <2>2. CASE p # context.id
    BY <1>5, <2>2 DEF Base, Kept
  <2> QED BY <2>1, <2>2
<1> QED BY <1>1, <1>6, <1>8, <1>9, <1>10 DEF Base, Scoped

LEMMA PrefillRefusedBase == ASSUME Base, PrefillRefused PROVE Base'
<1>1. /\ at = "run" /\ at' = "idle" /\ context' = None /\ call' = NoCall /\ IsPrefill
      /\ requests' = requests \/ requests' = [requests EXCEPT ![context.id] = None]
      /\ UNCHANGED <<v2, engine, snapshots>>
  BY DEF PrefillRefused, Ends
<1>2. context.id \in Ids /\ engine[context.id].computed = 0 /\ There' = There
  BY <1>1, Current DEF There
<1>3. /\ requests \in [Ids -> {None} \cup States] /\ requests' \in [Ids -> {None} \cup States]
      /\ requests'[context.id] \in {requests[context.id], None}
      /\ \A p \in Ids \ {context.id} : requests'[p] = requests[p]
  BY <1>1, <1>2 DEF Base, TypeOK
<1>4. call' \in [new : {None} \cup Ids, batch : {None} \cup Ids, count : Positions,
                layer : 0 .. Layers, fallback : BOOLEAN]
  BY <1>1, SizeAssumption DEF NoCall, Positions
<1>5. TypeOK'
  BY <1>1, <1>3, <1>4 DEF Base, TypeOK
<1>6. Called' /\ Stepping' /\ Running' /\ Scoped'
  BY <1>1 DEF Called, Stepping, Running, Scoped, NoCall
<1>7. Kept'
  <2> SUFFICES ASSUME NEW p \in Ids
               PROVE  /\ snapshots[p] # None => p \in There
                      /\ v2 /\ p \in There => snapshots[p] # None
                      /\ requests'[p] # None => /\ snapshots[p] # None
                                                /\ requests'[p].args = snapshots[p].args
                      /\ p \in There /\ engine[p].computed >= Prompt =>
                            /\ requests'[p] # None
                            /\ Prompt + requests'[p].decoded - engine[p].computed \in {0, 1}
    BY <1>1, <1>2 DEF Kept
  <2>1. CASE p = context.id
    BY <1>2, <1>3, <2>1, SizeAssumption DEF Base, Kept
  <2>2. CASE p # context.id
    BY <1>3, <2>2 DEF Base, Kept
  <2> QED BY <2>1, <2>2
<1> QED BY <1>5, <1>6, <1>7 DEF Base

LEMMA RunDecodeBase == ASSUME Base, RunDecode PROVE Base'
<1>1. /\ at = "run" /\ at' = "layers" /\ ~IsPrefill /\ Decodable
      /\ UNCHANGED <<v2, engine, snapshots, context, requests, call>>
  BY DEF RunDecode, adapter
<1>2. context.id \in Ids /\ There' = There
  BY <1>1, Current DEF There
<1>3. Mine # None /\ context.first = Prompt + Mine.decoded
  BY <1>1 DEF Decodable, Consecutive
<1>4. Running'
  BY <1>1, <1>3 DEF Running, Mine, IsPrefill
<1>5. Called' /\ Stepping'
  BY <1>1, <1>2 DEF Base, Called, Stepping, Scheduled, IsPrefill
<1>6. TypeOK' /\ Kept'
  BY <1>1, <1>2 DEF Base, TypeOK, Kept
<1> QED BY <1>1, <1>4, <1>5, <1>6 DEF Base, Scoped

LEMMA RunRefusedBase == ASSUME Base, RunRefused PROVE Base'
<1> USE DEF Base, RunRefused, Ends, NoCall, adapter
<1>1. TypeOK'
  BY DEF TypeOK, Natives, Positions
<1>2. Called'
  BY DEF TypeOK, Called, Scheduled, There, Natives
<1>3. Stepping'
  BY DEF TypeOK, Called, Stepping, Scheduled, There, Natives, IsPrefill
<1>4. Running'
  BY DEF TypeOK, Called, Stepping, Running, Scheduled, There, Natives, IsPrefill, Mine
<1>5. Kept'
  BY DEF TypeOK, Kept, There, Natives
<1>6. Scoped'
  BY DEF Scoped
<1> QED BY <1>1, <1>2, <1>3, <1>4, <1>5, <1>6

\* The rows that a layer may write.
LEMMA AttendedRows ==
    ASSUME IInv, at = "layers", call.layer \in Numbers,
           IsPrefill \/ Appendable(Mine.rows[call.layer])
    PROVE  Attended(Mine.rows[call.layer]) \in Seq(Positions \X Args)
<1>1. /\ context.first \in Nat /\ context.count \in Nat /\ context.args \in Args
      /\ context.first + context.count =< MaxTokens
      /\ IF IsPrefill THEN context.first = 0 ELSE context.count = 1
  BY Current DEF IInv, Steps, Positions
<1>2. CASE IsPrefill
  <2>1. Prefilled \in [1 .. context.count -> Positions \X Args]
    BY <1>1, <1>2 DEF Prefilled, Row, Positions
  <2> QED BY <1>1, <1>2, <2>1 DEF Attended
<1>3. CASE ~IsPrefill
  <2>1. Mine \in States /\ Mine = requests[context.id] /\ context.id \in Ids
    BY CurrentState, Current DEF IInv
  <2>2. Mine.rows[call.layer] \in {None} \cup Seq(Positions \X Args)
    BY <2>1 DEF States
  <2>3. Mine.rows[call.layer] \in Seq(Positions \X Args)
    <3>1. CASE Paged
      BY <1>3, <2>2, <3>1 DEF Appendable
    <3>2. CASE ~Paged
      <4>1. requests[context.id] # None
        BY <2>1
      <4> QED BY <2>1, <3>2, <4>1 DEF IInv, Histories, Intact
    <3> QED BY <3>1, <3>2
  <2>4. Row(context.first) \in Positions \X Args
    BY <1>1, <1>3 DEF Row, Positions
  <2> QED BY <1>3, <2>3, <2>4 DEF Attended
<1> QED BY <1>2, <1>3

\* A layer of the running request changes.
LEMMA KeepBase ==
    ASSUME Base, at = "layers", call.layer \in Numbers,
           NEW rows \in {None} \cup Seq(Positions \X Args),
           Keep(rows), UNCHANGED <<v2, engine, snapshots>>
    PROVE  /\ Kept' /\ requests' \in [Ids -> {None} \cup States]
           /\ requests'[context.id] \in States
           /\ requests'[context.id].decoded = Mine.decoded
<1> DEFINE s == [Mine EXCEPT !.rows = [Mine.rows EXCEPT ![call.layer] = rows]]
<1>1. /\ Mine \in States /\ Mine = requests[context.id] /\ context.id \in Ids
      /\ Mine.args = context.args
  BY CurrentState, Current
<1>2. [Mine.rows EXCEPT ![call.layer] = rows] \in [Numbers -> {None} \cup Seq(Positions \X Args)]
  BY <1>1 DEF States
<1>3. s \in States /\ s.args = context.args /\ s.decoded = Mine.decoded
  BY <1>2, RowsState
<1>4. requests' = [requests EXCEPT ![context.id] = s]
  BY <1>1 DEF Keep, Base, TypeOK
<1> HIDE DEF s
<1>5. Kept' /\ requests' \in [Ids -> {None} \cup States]
  BY <1>3, <1>4, StateChanged
<1> QED BY <1>1, <1>3, <1>4, <1>5 DEF Base, TypeOK

LEMMA AttendBase == ASSUME IInv, Attend PROVE Base'
<1>1. /\ at = "layers" /\ at' = "layers" /\ call.layer < Layers
      /\ IsPrefill \/ Appendable(Mine.rows[call.layer])
      /\ Keep(Attended(Mine.rows[call.layer]))
      /\ call' = [call EXCEPT !.layer = call.layer + 1]
      /\ UNCHANGED <<v2, engine, snapshots, context>>
  BY DEF Attend, adapter
<1>2. Base /\ call.layer \in Numbers
  BY <1>1 DEF IInv, Base, TypeOK, Numbers
<1>3. Attended(Mine.rows[call.layer]) \in Seq(Positions \X Args)
  BY <1>1, <1>2, AttendedRows
<1>4. /\ Kept' /\ requests' \in [Ids -> {None} \cup States]
      /\ requests'[context.id] \in States
      /\ requests'[context.id].decoded = Mine.decoded
  BY <1>1, <1>2, <1>3, KeepBase
<1>5. /\ call' \in [new : {None} \cup Ids, batch : {None} \cup Ids, count : Positions,
                    layer : 0 .. Layers, fallback : BOOLEAN]
      /\ call'.batch = call.batch /\ call'.count = call.count
  BY <1>1, <1>2 DEF Base, TypeOK, Numbers
<1>6. TypeOK'
  BY <1>1, <1>2, <1>4, <1>5 DEF Base, TypeOK
<1>7. Called' /\ Stepping'
  BY <1>1, <1>2, <1>5 DEF Base, Called, Stepping, Scheduled, IsPrefill, There
<1>8. Running'
  BY <1>1, <1>2, <1>4 DEF Base, Running, Mine, IsPrefill
<1> QED BY <1>1, <1>4, <1>6, <1>7, <1>8 DEF Base, Scoped

LEMMA LayerFailsBase == ASSUME IInv, LayerFails PROVE Base'
<1>1. /\ at = "layers" /\ at' = "idle" /\ call' = NoCall /\ context' = None
      /\ UNCHANGED <<v2, engine, snapshots>>
  BY DEF LayerFails, Ends
<1>2. Base /\ call.layer \in Numbers
  BY DEF LayerFails, IInv, Base, TypeOK, Numbers
<1>3. Kept' /\ requests' \in [Ids -> {None} \cup States]
  <2>1. CASE UNCHANGED requests
    BY <1>1, <1>2, <2>1 DEF Base, Kept, TypeOK, There
  <2>2. CASE Keep(None)
    BY <1>1, <1>2, <2>2, KeepBase
  <2>3. CASE /\ IsPrefill \/ Appendable(Mine.rows[call.layer])
             /\ Keep(Attended(Mine.rows[call.layer]))
    <3>1. Attended(Mine.rows[call.layer]) \in Seq(Positions \X Args)
      BY <1>1, <1>2, <2>3, AttendedRows
    <3> QED BY <1>1, <1>2, <2>3, <3>1, KeepBase
  <2> QED BY <2>1, <2>2, <2>3 DEF LayerFails
<1>4. TypeOK'
  BY <1>1, <1>2, <1>3 DEF Base, TypeOK, NoCall, Positions
<1> QED BY <1>1, <1>3, <1>4 DEF Base, Called, Stepping, Running, Scoped

LEMMA FallbackBase == ASSUME Base, Fallback PROVE Base'
<1> DEFINE s == [Mine EXCEPT !.rows = NoRows]
<1>1. /\ at = "layers" /\ at' = "layers" /\ IsPrefill
      /\ call' = [call EXCEPT !.layer = 0, !.fallback = TRUE]
      /\ UNCHANGED <<v2, engine, snapshots, context>>
  BY DEF Fallback, adapter
<1>2. Mine \in States /\ Mine = requests[context.id] /\ context.id \in Ids
  BY <1>1, CurrentState, Current
<1>3. requests' = [requests EXCEPT ![context.id] = s]
  BY <1>2 DEF Fallback, Base, TypeOK
<1>4. NoRows \in [Numbers -> {None} \cup Seq(Positions \X Args)]
  BY DEF NoRows
<1>5. s \in States /\ s.args = context.args /\ s.decoded = Mine.decoded
  BY <1>1, <1>4, RowsState
<1> HIDE DEF s
<1>6. Kept' /\ requests' \in [Ids -> {None} \cup States]
  BY <1>1, <1>3, <1>5, StateChanged
<1>7. requests'[context.id] = s
  BY <1>2, <1>3 DEF Base, TypeOK
<1>8. call' \in [new : {None} \cup Ids, batch : {None} \cup Ids, count : Positions,
                layer : 0 .. Layers, fallback : BOOLEAN]
  <2>1. call \in [new : {None} \cup Ids, batch : {None} \cup Ids, count : Positions,
                  layer : 0 .. Layers, fallback : BOOLEAN]
    BY DEF Base, TypeOK
  <2>2. call' = [new |-> call.new, batch |-> call.batch, count |-> call.count,
                 layer |-> 0, fallback |-> TRUE]
    BY <1>1, <2>1
  <2> QED BY <2>1, <2>2
<1>9. call'.batch = call.batch /\ call'.count = call.count
  BY <1>1 DEF Base, TypeOK
<1>12. TypeOK'
  BY <1>1, <1>6, <1>8 DEF Base, TypeOK
<1>10. Called' /\ Stepping'
  BY <1>1, <1>9 DEF Base, Called, Stepping, Scheduled, IsPrefill, There
<1>11. Running'
  BY <1>1, <1>5, <1>7 DEF Base, Running, Mine, IsPrefill
<1> QED BY <1>1, <1>6, <1>10, <1>11, <1>12 DEF Base, Scoped

LEMMA ModelDoneBase == ASSUME Base, ModelDone PROVE Base'
<1>1. at = "layers" /\ at' = "sample" /\ UNCHANGED <<v2, engine, snapshots, context, call>>
  BY DEF ModelDone, adapter
<1>2. /\ Mine \in States /\ Mine = requests[context.id] /\ context.id \in Ids
      /\ Mine.args = context.args /\ Mine.decoded \in Nat
      /\ Prompt + Mine.decoded = IF ~IsPrefill THEN context.first ELSE context.first + context.count
      /\ context.first \in Nat /\ context.count \in Nat
      /\ context.first + context.count =< MaxTokens
      /\ ~IsPrefill => context.count = 1
  BY <1>1, CurrentState, Current DEF Steps, Positions
<1>3. CASE IsPrefill
  <2>1. UNCHANGED requests
    BY <1>3 DEF ModelDone
  <2>2. Running'
    BY <1>1, <1>2, <1>3, <2>1 DEF Running, Mine
  <2>3. Called' /\ Stepping'
    BY <1>1 DEF Base, Called, Stepping, Scheduled, IsPrefill, There
  <2> QED BY <1>1, <2>1, <2>2, <2>3 DEF Base, TypeOK, Kept, Scoped, There
<1>4. CASE ~IsPrefill
  <2> DEFINE s == [Mine EXCEPT !.decoded = Mine.decoded + 1]
  <2>1. requests' = [requests EXCEPT ![context.id] = s]
    BY <1>2, <1>4 DEF ModelDone, Base, TypeOK
  <2>2. Mine.decoded + 1 \in Positions
    BY <1>2, <1>4 DEF Positions
  <2>3. s \in States /\ s.args = context.args /\ s.decoded = Mine.decoded + 1
    BY <1>2, <2>2 DEF States
  <2> HIDE DEF s
  <2>4. Prompt + s.decoded = context.first + context.count
    BY <1>2, <1>4, <2>3
  <2>5. Kept' /\ requests' \in [Ids -> {None} \cup States]
    BY <1>1, <2>1, <2>3, <2>4, StateChanged
  <2>6. requests'[context.id] = s
    BY <1>2, <2>1 DEF Base, TypeOK
  <2>7. TypeOK'
    BY <1>1, <2>5 DEF Base, TypeOK
  <2>8. Called' /\ Stepping'
    BY <1>1 DEF Base, Called, Stepping, Scheduled, IsPrefill, There
  <2>9. Running'
    BY <1>1, <2>3, <2>4, <2>6 DEF Running, Mine
  <2> QED BY <1>1, <2>5, <2>7, <2>8, <2>9 DEF Base, Scoped
<1> QED BY <1>3, <1>4

LEMMA SampledBase == ASSUME Base, Sampled PROVE Base'
<1> DEFINE q == context.id
           rows == context.first + context.count
<1>1. at = "sample" /\ at' = "idle" /\ call' = NoCall /\ context' = None
      /\ UNCHANGED <<v2, snapshots, requests>>
  BY DEF Sampled, Ends
<1>2. /\ q \in Ids /\ q = call.batch /\ q \in There /\ engine[q] \in Natives
      /\ engine[q].computed = context.first /\ context.count = call.count
      /\ rows =< engine[q].known /\ rows =< MaxTokens
  BY <1>1, Current
<1>3. context.first \in Nat /\ context.count \in Nat /\ engine[q].known \in Nat
  BY <1>1, <1>2, Current DEF Steps, Positions, Natives
<1>4. rows \in Positions /\ Mine = requests[q] /\ Mine # None /\ Prompt + Mine.decoded = rows
      /\ Mine.decoded \in Nat
  BY <1>1, <1>2, <1>3, CurrentState DEF Positions
<1> HIDE DEF rows
<1>5. engine'[q] = [args |-> engine[q].args,
                    known |-> IF rows = engine[q].known THEN engine[q].known + 1
                              ELSE engine[q].known,
                    computed |-> rows, there |-> engine[q].there]
  BY <1>2, <1>3 DEF Sampled, Base, TypeOK, Natives, rows
<1>6. engine'[q] \in Natives /\ engine'[q].computed = rows
  BY <1>2, <1>3, <1>4, <1>5 DEF Natives, Positions
<1>7. engine'[q] # None /\ (engine'[q].there <=> engine[q].there)
  BY <1>5, <1>6
<1>8. engine' \in [Ids -> {None} \cup Natives] /\ \A p \in Ids \ {q} : engine'[p] = engine[p]
  BY <1>2, <1>6 DEF Sampled, Base, TypeOK
<1> HIDE DEF q
<1>9. There' = There
  BY <1>2, <1>7, <1>8 DEF There
<1>10. TypeOK'
  BY <1>1, <1>8 DEF Base, TypeOK, NoCall, Positions
<1>11. Kept'
  <2> SUFFICES ASSUME NEW p \in Ids
               PROVE  /\ snapshots[p] # None => p \in There
                      /\ v2 /\ p \in There => snapshots[p] # None
                      /\ requests[p] # None => /\ snapshots[p] # None
                                               /\ requests[p].args = snapshots[p].args
                      /\ p \in There /\ engine'[p].computed >= Prompt =>
                            /\ requests[p] # None
                            /\ Prompt + requests[p].decoded - engine'[p].computed \in {0, 1}
    BY <1>1, <1>9 DEF Kept
  <2>1. CASE p = q
    <3>1. requests[p] # None /\ Prompt + requests[p].decoded - engine'[p].computed = 0
      BY <1>4, <1>6, <2>1 DEF Positions
    <3> QED BY <2>1, <3>1 DEF Base, Kept
  <2>2. CASE p # q
    BY <1>8, <2>2 DEF Base, Kept
  <2> QED BY <2>1, <2>2
<1> QED BY <1>1, <1>10, <1>11 DEF Base, Called, Stepping, Running, Scoped

LEMMA SamplingFailsBase == ASSUME Base, SamplingFails PROVE Base'
<1> USE DEF Base, SamplingFails, Ends, NoCall, adapter
<1>1. TypeOK'
  BY DEF TypeOK, Natives, Positions
<1>2. Called'
  BY DEF TypeOK, Called, Scheduled, There, Natives
<1>3. Stepping'
  BY DEF TypeOK, Called, Stepping, Scheduled, There, Natives, IsPrefill
<1>4. Running'
  BY DEF TypeOK, Called, Stepping, Running, Scheduled, There, Natives, IsPrefill, Mine
<1>5. Kept'
  BY DEF TypeOK, Kept, There, Natives
<1>6. Scoped'
  BY DEF Scoped
<1> QED BY <1>1, <1>2, <1>3, <1>4, <1>5, <1>6

LEMMA StepBase == ASSUME IInv, [Next]_vars PROVE Base'
<1>1. Base
  BY DEF IInv
<1>2. ASSUME NEW q \in Ids, NEW x \in Args, Submit(q, x) \/ Mutate(q, x) PROVE Base'
  BY <1>1, <1>2, SubmitBase, MutateBase
<1>3. ASSUME NEW q \in Ids, Preempt(q) PROVE Base'
  BY <1>1, <1>3, PreemptBase
<1>4. CASE Execute \/ DummyRun \/ DummyDone \/ Add \/ AddFails
  BY <1>1, <1>4, ExecuteBase, DummyRunBase, DummyDoneBase, AddBase, AddFailsBase
<1>5. CASE \/ Prepare \/ PrepareRefused
           \/ RunPrefill \/ PrefillRefused \/ RunDecode \/ RunRefused
  BY <1>1, <1>5, PrepareBase, PrepareRefusedBase, RunPrefillBase, PrefillRefusedBase,
     RunDecodeBase, RunRefusedBase
<1>6. CASE Attend \/ LayerFails \/ Fallback \/ ModelDone \/ Sampled \/ SamplingFails
  BY <1>1, <1>6, AttendBase, LayerFailsBase, FallbackBase, ModelDoneBase, SampledBase,
     SamplingFailsBase
<1>7. CASE UNCHANGED vars
  BY <1>1, <1>7 DEF vars, adapter, Base, TypeOK, Called, Scheduled, Stepping, Running, Kept, Scoped,
     There, Mine, IsPrefill
<1> QED BY <1>2, <1>3, <1>4, <1>5, <1>6, <1>7 DEF Next

-----------------------------------------------------------------------------
(* The rows                                                                 *)

\* A history of no rows, and one row more.
LEMMA Histories0 == ASSUME NEW x PROVE History(0, x) = <<>>
BY DEF History

LEMMA HistoryLen == ASSUME NEW n \in Nat, NEW x PROVE Len(History(n, x)) = n
BY DEF History

LEMMA HistoryNext ==
    ASSUME NEW n \in Nat, NEW x \in Args
    PROVE  Append(History(n, x), <<n, x>>) = History(n + 1, x)
BY DEF History

\* No layer is attending: each state has the rows that it had.
LEMMA HistoriesSame ==
    ASSUME Histories, at' # "layers",
           \A q \in Ids : requests'[q] # None => /\ requests[q] # None
                                                 /\ requests'[q].rows = requests[q].rows
                                                 /\ requests'[q].args = requests[q].args
    PROVE  Histories'
BY DEF Histories, Intact

\* The rows of the running request change to ones that are intact.
LEMMA HistoriesChanged ==
    ASSUME IInv, context.id \in Ids,
           \A q \in Ids \ {context.id} : requests'[q] = requests[q],
           \A l \in Numbers : Intact(requests'[context.id].rows[l], requests'[context.id].args),
           at' = "layers" => /\ context' = context
                             /\ \A l \in 0 .. call'.layer - 1 :
                                   Paged => requests'[context.id].rows[l] =
                                            History(context.first + context.count, context.args)
    PROVE  Histories'
BY DEF IInv, Histories, Mine, Intact

\* A layer that attends has each row up to the step's end, and the others are the same.
LEMMA AttendedIntact ==
    ASSUME IInv, at = "layers", call.layer \in Numbers,
           IsPrefill \/ Appendable(Mine.rows[call.layer]),
           Keep(Attended(Mine.rows[call.layer]))
    PROVE  /\ context.id \in Ids
           /\ \A q \in Ids \ {context.id} : requests'[q] = requests[q]
           /\ \A l \in Numbers : Intact(requests'[context.id].rows[l], requests'[context.id].args)
           /\ \A l \in Numbers \ {call.layer} : requests'[context.id].rows[l] = Mine.rows[l]
           /\ Paged => requests'[context.id].rows[call.layer] =
                       History(context.first + context.count, context.args)
<1> DEFINE new == Attended(Mine.rows[call.layer])
<1>1. /\ context.id \in Ids /\ Mine \in States /\ Mine = requests[context.id]
      /\ Mine.args = context.args /\ requests \in [Ids -> {None} \cup States]
      /\ context.first \in Nat /\ context.count \in Nat /\ context.args \in Args
      /\ IF IsPrefill THEN context.first = 0 ELSE context.count = 1
  BY Current, CurrentState DEF IInv, Base, TypeOK, Steps, Positions
<1>2. new \in Seq(Positions \X Args)
  BY AttendedRows
<1>3. requests[context.id] # None
  BY <1>1
<1>4. \A l \in Numbers : Intact(Mine.rows[l], context.args)
  BY <1>1, <1>3 DEF IInv, Histories
<1>5. Paged => new = History(context.first + context.count, context.args)
  <2> SUFFICES ASSUME Paged PROVE new = History(context.first + context.count, context.args)
    OBVIOUS
  <2>1. CASE IsPrefill
    BY <1>1, <2>1 DEF Attended, Prefilled, History, Row
  <2>2. CASE ~IsPrefill
    <3>1. Mine.rows[call.layer] # None /\ Len(Mine.rows[call.layer]) = context.first
      BY <2>2 DEF Appendable
    <3>2. Mine.rows[call.layer] = History(context.first, context.args)
      BY <1>4, <3>1 DEF Intact
    <3>3. new = Append(History(context.first, context.args), <<context.first, context.args>>)
      BY <2>2, <3>2 DEF Attended, Row
    <3>4. Append(History(context.first, context.args), <<context.first, context.args>>)
            = History(context.first + 1, context.args)
      BY <1>1, HistoryNext
    <3> QED BY <1>1, <2>2, <3>3, <3>4
  <2> QED BY <2>1, <2>2
<1> HIDE DEF new
<1>6. Intact(new, context.args)
  <2>1. CASE Paged
    <3>1. Len(History(context.first + context.count, context.args)) = context.first + context.count
      BY <1>1, HistoryLen
    <3> QED BY <1>5, <2>1, <3>1 DEF Intact
  <2>2. CASE ~Paged
    BY <1>2, <2>2 DEF Intact
  <2> QED BY <2>1, <2>2
<1>7. Keep(new)
  BY DEF new
<1>8. /\ \A q \in Ids \ {context.id} : requests'[q] = requests[q]
      /\ requests'[context.id].args = context.args
      /\ \A l \in Numbers : requests'[context.id].rows[l] =
                            IF l = call.layer THEN new ELSE Mine.rows[l]
  BY <1>1, <1>7 DEF Keep, States
<1>9. \A l \in Numbers : Intact(requests'[context.id].rows[l], requests'[context.id].args)
  BY <1>4, <1>6, <1>8
<1> QED BY <1>1, <1>5, <1>8, <1>9

LEMMA StepHistories == ASSUME IInv, [Next]_vars PROVE Histories'
<1>0. Base /\ Histories
  BY DEF IInv
<1>1. CASE UNCHANGED vars
  BY <1>0, <1>1 DEF vars, adapter, Histories, Intact, Mine
<1>2. ASSUME NEW q \in Ids, NEW x \in Args, Submit(q, x) \/ Mutate(q, x) PROVE Histories'
  <2>1. UNCHANGED <<context, requests, at, call>>
    BY <1>2 DEF Submit, Mutate, adapter
  <2> QED BY <1>0, <2>1 DEF Histories, Intact, Mine
<1>3. CASE UNCHANGED requests /\ at' # "layers"
  BY <1>0, <1>3, HistoriesSame
<1>4. CASE /\ at' # "layers"
           /\ \E q \in Ids : requests' = [requests EXCEPT ![q] = None]
  <2>1. requests \in [Ids -> {None} \cup States]
    BY <1>0 DEF Base, TypeOK
  <2>2. \A q \in Ids : requests'[q] # None => requests'[q] = requests[q]
    BY <1>4, <2>1
  <2> QED BY <1>0, <1>4, <2>2, HistoriesSame
<1>5. CASE \/ Execute \/ Add \/ AddFails \/ \E q \in Ids : Preempt(q)
  <2>1. at' # "layers"
    BY <1>5 DEF Execute, Begin, Add, AddFails, Preempt, Ends, Base, Called
  <2>2. UNCHANGED requests \/ \E q \in Ids : requests' = [requests EXCEPT ![q] = None]
    <3>1. CASE Execute
      <4>1. PICK gone \in {None} \cup There :
               IF gone = None THEN UNCHANGED requests ELSE Removed(gone)
        BY <3>1 DEF Execute, Begin
      <4> QED BY <4>1 DEF Removed, There
    <3>2. CASE Add \/ AddFails
      <4>1. call.new \in {None} \cup Ids
        BY <1>0 DEF Base, TypeOK
      <4> QED BY <3>2, <4>1 DEF Add, AddFails, Removed
    <3>3. CASE \E q \in Ids : Preempt(q)
      BY <3>3 DEF Preempt, Removed
    <3> QED BY <1>5, <3>1, <3>2, <3>3
  <2> QED BY <1>3, <1>4, <2>1, <2>2
<1>6. CASE \/ DummyRun \/ DummyDone \/ Prepare \/ PrepareRefused \/ RunRefused \/ Sampled
           \/ SamplingFails
  <2>1. UNCHANGED requests /\ at' # "layers"
    BY <1>6 DEF DummyRun, DummyDone, Prepare, PrepareRefused, RunRefused, Sampled,
       SamplingFails, Ends
  <2> QED BY <1>3, <2>1
<1>7. CASE RunPrefill
  <2>1. /\ at = "run" /\ at' = "layers" /\ call' = call /\ context' = context
        /\ requests' = [requests EXCEPT ![context.id] =
              [args |-> context.args, decoded |-> Decoded(context.count), rows |-> NoRows]]
    BY <1>7 DEF RunPrefill, adapter
  <2>2. context.id \in Ids /\ call.layer = 0
    BY <1>0, <2>1, Current DEF Base, Called
  <2>3. /\ requests'[context.id].rows = NoRows
        /\ \A q \in Ids \ {context.id} : requests'[q] = requests[q]
    BY <1>0, <2>1, <2>2 DEF Base, TypeOK
  <2>4. ASSUME NEW l \in Numbers
        PROVE  Intact(requests'[context.id].rows[l], requests'[context.id].args)
    <3>1. requests'[context.id].rows[l] = <<>>
      BY <2>3 DEF NoRows
    <3> QED BY <3>1, Histories0 DEF Intact
  <2>5. \A l \in 0 .. call'.layer - 1 : FALSE
    BY <2>1, <2>2
  <2> QED BY <2>1, <2>2, <2>3, <2>4, <2>5, HistoriesChanged
<1>8. CASE RunDecode
  <2>1. at = "run" /\ UNCHANGED <<context, requests, call>>
    BY <1>8 DEF RunDecode, adapter
  <2>2. call'.layer = 0
    BY <1>0, <2>1 DEF Base, Called
  <2>3. \A l \in 0 .. call'.layer - 1 : FALSE
    BY <2>2
  <2> QED BY <1>0, <2>1, <2>3 DEF Histories, Intact
<1>9. CASE Fallback
  <2>1. /\ at = "layers" /\ call'.layer = 0 /\ context' = context
        /\ requests' = [requests EXCEPT ![context.id].rows = NoRows]
    BY <1>0, <1>9 DEF Fallback, adapter, Base, TypeOK
  <2>2. context.id \in Ids /\ requests[context.id] \in States
    BY <1>0, <2>1, Current, CurrentState
  <2>3. /\ requests'[context.id].rows = NoRows
        /\ \A q \in Ids \ {context.id} : requests'[q] = requests[q]
    BY <1>0, <2>1, <2>2 DEF Base, TypeOK, States
  <2>4. ASSUME NEW l \in Numbers
        PROVE  Intact(requests'[context.id].rows[l], requests'[context.id].args)
    <3>1. requests'[context.id].rows[l] = <<>>
      BY <2>3 DEF NoRows
    <3> QED BY <3>1, Histories0 DEF Intact
  <2>5. \A l \in 0 .. call'.layer - 1 : FALSE
    BY <2>1
  <2> QED BY <2>1, <2>2, <2>3, <2>4, <2>5, HistoriesChanged
<1>10. CASE ModelDone
  <2>1. at = "layers" /\ at' # "layers"
    BY <1>10 DEF ModelDone
  <2>2. CASE IsPrefill
    BY <1>3, <1>10, <2>1, <2>2 DEF ModelDone
  <2>3. CASE ~IsPrefill
    <3>1. requests' = [requests EXCEPT ![context.id].decoded = @ + 1]
      BY <1>10, <2>3 DEF ModelDone
    <3>2. context.id \in Ids /\ requests[context.id] \in States
      BY <1>0, <2>1, Current, CurrentState
    <3>3. /\ requests'[context.id].rows = requests[context.id].rows
          /\ requests'[context.id].args = requests[context.id].args
          /\ \A q \in Ids \ {context.id} : requests'[q] = requests[q]
      BY <1>0, <3>1, <3>2 DEF Base, TypeOK, States
    <3>4. \A q \in Ids : requests'[q] # None => /\ requests[q] # None
                                                /\ requests'[q].rows = requests[q].rows
                                                /\ requests'[q].args = requests[q].args
      BY <3>2, <3>3
    <3> QED BY <1>0, <2>1, <3>4, HistoriesSame
  <2> QED BY <2>2, <2>3
<1>11. CASE Attend
  <2>1. /\ at = "layers" /\ call.layer \in Numbers /\ context' = context
        /\ IsPrefill \/ Appendable(Mine.rows[call.layer])
        /\ Keep(Attended(Mine.rows[call.layer]))
        /\ call'.layer = call.layer + 1
    BY <1>0, <1>11 DEF Attend, adapter, Base, TypeOK, Numbers
  <2>2. /\ context.id \in Ids
        /\ \A q \in Ids \ {context.id} : requests'[q] = requests[q]
        /\ \A l \in Numbers : Intact(requests'[context.id].rows[l], requests'[context.id].args)
        /\ \A l \in Numbers \ {call.layer} :
              requests'[context.id].rows[l] = Mine.rows[l]
        /\ Paged => requests'[context.id].rows[call.layer] =
                    History(context.first + context.count, context.args)
    BY <2>1, AttendedIntact
  <2>3. ASSUME NEW l \in 0 .. call'.layer - 1, Paged
        PROVE  requests'[context.id].rows[l] = History(context.first + context.count, context.args)
    <3>1. CASE l = call.layer
      BY <2>2, <2>3, <3>1
    <3>2. CASE l # call.layer
      <4>1. l \in 0 .. call.layer - 1 /\ l \in Numbers
        BY <2>1, <3>2 DEF Numbers
      <4> QED BY <1>0, <2>1, <2>2, <2>3, <3>2, <4>1 DEF Histories
    <3> QED BY <3>1, <3>2
  <2> QED BY <2>1, <2>2, <2>3, HistoriesChanged
<1>12. CASE LayerFails
  <2>1. at = "layers" /\ at' # "layers" /\ call.layer \in Numbers
    BY <1>0, <1>12 DEF LayerFails, Ends, Base, TypeOK, Numbers
  <2>2. CASE UNCHANGED requests
    BY <1>3, <2>1, <2>2
  <2>3. CASE Paged /\ Keep(None)
    <3>1. /\ context.id \in Ids /\ Mine \in States /\ Mine = requests[context.id]
          /\ requests \in [Ids -> {None} \cup States]
      BY <1>0, <2>1, Current, CurrentState DEF Base, TypeOK
    <3>2. /\ \A q \in Ids \ {context.id} : requests'[q] = requests[q]
          /\ requests'[context.id].args = Mine.args
          /\ \A l \in Numbers : requests'[context.id].rows[l] =
                                IF l = call.layer THEN None ELSE Mine.rows[l]
      BY <2>1, <2>3, <3>1 DEF Keep, States
    <3>3. \A l \in Numbers : Intact(Mine.rows[l], Mine.args)
      BY <1>0, <3>1 DEF Histories
    <3>4. \A l \in Numbers : Intact(requests'[context.id].rows[l], requests'[context.id].args)
      BY <2>3, <3>2, <3>3 DEF Intact
    <3> QED BY <2>1, <3>1, <3>2, <3>4, HistoriesChanged
  <2>4. CASE /\ IsPrefill \/ Appendable(Mine.rows[call.layer])
             /\ Keep(Attended(Mine.rows[call.layer]))
    BY <2>1, <2>4, AttendedIntact, HistoriesChanged
  <2> QED BY <1>12, <2>2, <2>3, <2>4 DEF LayerFails
<1>13. CASE PrefillRefused
  <2>1. /\ at = "run" /\ at' # "layers"
        /\ requests' = requests \/ requests' = [requests EXCEPT ![context.id] = None]
    BY <1>13 DEF PrefillRefused, Ends
  <2>2. context.id \in Ids
    BY <1>0, <2>1, Current
  <2> QED BY <1>3, <1>4, <2>1, <2>2
<1> QED
  BY <1>1, <1>2, <1>5, <1>6, <1>7, <1>8, <1>9, <1>10, <1>11, <1>12, <1>13 DEF Next

-----------------------------------------------------------------------------
(* The theorems                                                             *)

LEMMA InitInv == Init => IInv
<1> SUFFICES ASSUME Init PROVE IInv
  OBVIOUS
<1>1. \A q \in Ids : engine[q] = None /\ snapshots[q] = None /\ requests[q] = None
  BY DEF Init
<1>2. TypeOK
  BY DEF Init, TypeOK, NoCall, Positions
<1>3. Called /\ Stepping /\ Running /\ Scoped
  BY DEF Init, Called, Stepping, Running, Scoped
<1>4. Kept
  BY <1>1 DEF Kept, There
<1>5. Histories
  BY <1>1 DEF Histories, Init
<1> QED BY <1>2, <1>3, <1>4, <1>5 DEF IInv, Base

\* What each stage of an execution knows of the request, of its snapshot and of the
\* runtime's state holds in every reachable state, for both runners, and with arenas
\* each layer has the rows of the first positions (integration.py:attach_runner,
\* runtime.py:run, attention).
THEOREM ServingInvariant == Spec => []IInv
<1>1. IInv /\ [Next]_vars => IInv'
  BY StepBase, StepHistories DEF IInv
<1> QED BY <1>1, InitInv, PTL DEF Spec

\* Every variable of the engine process stays in its type (runtime.py:requests,
\* integration.py:snapshots): no sequence of calls loses or invents a kind of state.
THEOREM ServingTypeOK == Spec => []TypeOK
<1>1. IInv => TypeOK
  BY DEF IInv, Base
<1> QED BY <1>1, ServingInvariant, PTL

\* Between executions the adapter, the runtime and the runner agree on the requests
\* that there are, on their metadata and on their rows, whatever was preempted,
\* replayed, retried, changed or replaced (integration.py:forward, cleanup, add,
\* remove, prepare; runtime.py:run).
THEOREM ServingSidesAgree == Spec => []SidesAgree
<1>1. IInv => SidesAgree
  BY DEF IInv, Base, Scoped, Kept, SidesAgree
<1> QED BY <1>1, ServingInvariant, PTL

\* In an engine, whose runtime has arenas, attention sees each row once, in order and
\* of the metadata that the adapter first saw, for any requests, prompts and layers
\* (runtime.py:attention, integration.py:forward, prepare).
THEOREM ServingHistoryExact == Spec => [](Paged => HistoryExact)
<1>1. IInv => (Paged => HistoryExact)
  <2> SUFFICES ASSUME IInv, Paged, at = "layers", NEW l \in 0 .. call.layer - 1
               PROVE  /\ snapshots[context.id] # None
                      /\ Mine.rows[l] = [i \in 1 .. context.first + context.count |->
                                           <<i - 1, snapshots[context.id].args>>]
    BY DEF HistoryExact
  <2>1. snapshots[context.id] \in Snapshots /\ snapshots[context.id].args = context.args
    BY Current DEF IInv
  <2>2. Mine.rows[l] = History(context.first + context.count, context.args)
    BY DEF IInv, Histories
  <2> QED BY <2>1, <2>2 DEF History
<1> QED BY <1>1, ServingInvariant, PTL
=============================================================================
