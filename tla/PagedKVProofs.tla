---------------------------- MODULE PagedKVProofs ----------------------------
(***************************************************************************)
(* What a SlotMap guarantees for any tokens, slots, readers and calls, and *)
(* what an arena makes of it for any prompt, block table and sidecar.      *)
(*                                                                         *)
(* The map: every count is the number of its holders, so that a slot       *)
(* without guards is in no call; hence a call that begins to write has its *)
(* slots to itself, until it has published them or given them up.          *)
(*                                                                         *)
(* The arena, from `The invariant of an arena' on: its steps are steps of  *)
(* the map; no two of its tokens share a slot, promotions write where      *)
(* nothing is mapped, and the one other call that writes touches the rows  *)
(* of its own tokens only, so that whoever displaces a row leaves it where *)
(* its token is mapped.                                                    *)
(***************************************************************************)
EXTENDS PagedKV, TLAPS, FiniteSetTheorems

\* The pairs of a call's target: one slot for each of its tokens.
TargetOK(c) ==
    /\ \A p \in c.target : p[1] \in c.tokens /\ p[2] \in c.writing
    /\ \A t \in c.tokens : \E p \in c.target : p[1] = t
    /\ \A p, q \in c.target : p[1] = q[1] => p = q

\* What a promotion writes: fresh slots, each for one token, and the sources that
\* it rewrites in place.
PromotionOK(c) ==
    /\ TargetOK(c)
    /\ \A s \in c.writing : \E p \in c.target : p[2] = s
    /\ c.fresh \subseteq c.writing
    /\ \A p \in c.target : p[2] \in c.fresh \/ p \in c.source
    /\ \A p, q \in c.target : p[2] = q[2] /\ p[2] \in c.fresh => p = q
    /\ \A s \in c.fresh : s >= Floor
    /\ \A t \in c.tokens : \E p \in c.source : p[1] = t

Promoting(j) == task[j].at = "writing" /\ task[j].kind = "promote"
Decoding(j) == task[j].at = "writing" /\ task[j].kind = "decode"

CallsOK ==
    \A j \in Tasks :
        /\ task[j].at = "idle" => task[j] = Idle
        /\ task[j].at # "idle" => task[j].kind # "none"
        /\ task[j].writing \subseteq task[j].guarded
        /\ task[j].writing \cap Shared = {}
        /\ Promoting(j) => PromotionOK(task[j])
        /\ Decoding(j) => TargetOK(task[j]) /\ \A t, u \in task[j].tokens : t = u

\* Where no call has reserved a slot it is mapped, a hole, unused, or lost.
ArenaOK ==
    /\ vacated \cap Valid = {} /\ unused \cap (Valid \cup vacated) = {}
    /\ \A s \in Valid \cup vacated \cup unused : s < nextSlot
    /\ \A t, u \in Mapped : t # u /\ map[t] = map[u] =>
           {t, u} \subseteq DOMAIN Initial /\ map[t] = Initial[t] /\ map[u] = Initial[u]
    /\ vacated \cap Shared = {} /\ \A s \in unused : s >= Floor

\* What a call that writes has to itself.
OwnOK ==
    /\ \A i, j \in Tasks :
          i # j /\ task[i].at = "writing" /\ task[j].at = "writing" =>
              task[i].writing \cap task[j].writing = {}
    /\ \A j \in Tasks : task[j].at = "writing" =>
          /\ task[j].writing \cap unused = {}
          /\ \A s \in task[j].writing : s < nextSlot
    /\ \A j \in Tasks : Promoting(j) =>
          /\ task[j].fresh \cap (Valid \cup vacated) = {}
          /\ \A u \in Mapped : map[u] \in task[j].writing => <<u, map[u]>> \in task[j].target
    /\ \A j \in Tasks : Decoding(j) =>
          /\ task[j].writing \cap Valid = {}
          /\ \A p \in task[j].target : p[2] \notin vacated

\* What the slots hold, for the readers and for the mapping.
HoldsOK ==
    /\ \A r \in Readers : \A s \in reader[r] :
          /\ \A j \in Tasks : s \notin task[j].writing
          /\ holds[s] # {} /\ s \notin unused /\ s < nextSlot
    /\ ~closed => \A t \in Mapped :
          \/ t \in holds[map[t]]
          \/ \E j \in Tasks : task[j].at = "writing" /\ map[t] \in task[j].writing

IInv == TypeOK /\ CountsExact /\ CallsOK /\ ArenaOK /\ OwnOK /\ HoldsOK

-----------------------------------------------------------------------------
(* Counting                                                                 *)

\* A set of numbers that has all numbers below its members is an interval.
LEMMA InitialSegment ==
    ASSUME NEW M \in Nat, NEW A \in SUBSET (0 .. M - 1),
           \A x \in A, y \in 0 .. M - 1 : y < x => y \in A
    PROVE  /\ Cardinality(A) \in 0 .. M
           /\ \A y \in 0 .. M - 1 : y \in A <=> y < Cardinality(A)
<1>1. /\ IsFiniteSet(0 .. M - 1) /\ Cardinality(0 .. M - 1) = M
  BY FS_Interval
<1>2. IsFiniteSet(A) /\ Cardinality(A) =< M
  BY <1>1, FS_Subset
<1>3. Cardinality(A) \in Nat
  BY <1>2, FS_CardinalityType
<1>4. ASSUME NEW y \in 0 .. M - 1 PROVE y \in A <=> y < Cardinality(A)
  <2>1. CASE y \in A
    <3>1. 0 .. y \in SUBSET A
      BY <2>1
    <3>2. Cardinality(0 .. y) = y + 1
      BY FS_Interval
    <3>3. Cardinality(0 .. y) =< Cardinality(A)
      BY <1>2, <3>1, FS_Subset
    <3> QED BY <1>3, <2>1, <3>2, <3>3
  <2>2. CASE y \notin A
    <3>1. A \in SUBSET (0 .. y - 1)
      <4> SUFFICES ASSUME NEW x \in A PROVE x \in 0 .. y - 1
        OBVIOUS
      <4>1. x \in 0 .. M - 1 /\ ~(y < x) /\ x # y
        BY <2>2
      <4> QED BY <4>1
    <3>2. IsFiniteSet(0 .. y - 1) /\ Cardinality(0 .. y - 1) = y
      BY FS_Interval
    <3>3. Cardinality(A) =< Cardinality(0 .. y - 1)
      BY <3>1, <3>2, FS_Subset
    <3> QED BY <1>3, <2>2, <3>2, <3>3
  <2> QED BY <2>1, <2>2
<1> QED BY <1>2, <1>3, <1>4

\* The number of those in T, or of the calls, that hold s.
Among(f, T, s) == Cardinality({i \in T : s \in f[i]})
Writers(f, s) == Cardinality({i \in Tasks : s \in f[i].writing})
Guards(f, s) == Cardinality({i \in Tasks : s \in f[i].guarded})
One(s, S) == IF s \in S THEN 1 ELSE 0

\* One holder more: it held nothing.
LEMMA HolderGains ==
    ASSUME NEW T, IsFiniteSet(T), NEW j \in T, NEW f, NEW g,
           f[j] = {}, \A i \in T : i # j => g[i] = f[i], NEW s
    PROVE  Among(f, T, s) \in Nat /\ Among(g, T, s) = Among(f, T, s) + One(s, g[j])
<1> DEFINE A == {i \in T : s \in f[i]}
           B == {i \in T : s \in g[i]}
<1>1. IsFiniteSet(A) /\ j \notin A
  <2>1. A \in SUBSET T
    OBVIOUS
  <2> QED BY <2>1, FS_Subset
<1>2. Cardinality(A) \in Nat
  BY <1>1, FS_CardinalityType
<1>3. Cardinality(B) = Cardinality(A) + One(s, g[j])
  <2>1. CASE s \in g[j]
    <3>1. B = A \cup {j}
      BY <2>1
    <3>2. Cardinality(A \cup {j}) = Cardinality(A) + 1
      BY <1>1, FS_AddElement
    <3> QED BY <2>1, <3>1, <3>2 DEF One
  <2>2. CASE s \notin g[j]
    <3>1. B = A
      BY <2>2
    <3> HIDE DEF A, B
    <3>2. Cardinality(B) = Cardinality(A) + 0
      BY <1>2, <3>1
    <3> QED BY <2>2, <3>2 DEF One
  <2> QED BY <2>1, <2>2
<1> QED BY <1>2, <1>3 DEF Among

\* Nobody holds what is counted as zero.
LEMMA NoHolder ==
    ASSUME NEW T, IsFiniteSet(T), NEW f, NEW s
    PROVE  Among(f, T, s) \in Nat /\ (Among(f, T, s) = 0 => \A i \in T : s \notin f[i])
<1>1. {i \in T : s \in f[i]} \in SUBSET T
  OBVIOUS
<1>2. IsFiniteSet({i \in T : s \in f[i]})
  BY <1>1, FS_Subset
<1>3. Cardinality({i \in T : s \in f[i]}) \in Nat
  BY <1>2, FS_CardinalityType
<1>4. Cardinality({i \in T : s \in f[i]}) = 0 => {i \in T : s \in f[i]} = {}
  BY <1>2, FS_EmptySet
<1> QED BY <1>3, <1>4 DEF Among

\* The counts of a state.
LEMMA CountsAt ==
    ASSUME IInv, NEW s \in Slots
    PROVE  /\ pins[s] = Among(reader, Readers, s)
           /\ writes[s] = Writers(task, s)
           /\ inflight[s] = Guards(task, s) + Among(hooks, Tasks, s)
BY DEF IInv, CountsExact, Among, Writers, Guards

\* The same of the next state.
LEMMA CountsThen ==
    ASSUME \A s \in Slots : /\ pins'[s] = Among(reader', Readers, s)
                            /\ writes'[s] = Writers(task', s)
                            /\ inflight'[s] = Guards(task', s) + Among(hooks', Tasks, s)
    PROVE  CountsExact'
BY DEF CountsExact, Among, Writers, Guards

\* The calls, by what they write and guard.
LEMMA CallCounts ==
    ASSUME NEW f, NEW s
    PROVE  /\ Writers(f, s) = Among([j \in Tasks |-> f[j].writing], Tasks, s)
           /\ Guards(f, s) = Among([j \in Tasks |-> f[j].guarded], Tasks, s)
<1>1. /\ {j \in Tasks : s \in f[j].writing} =
           {j \in Tasks : s \in [i \in Tasks |-> f[i].writing][j]}
      /\ {j \in Tasks : s \in f[j].guarded} =
           {j \in Tasks : s \in [i \in Tasks |-> f[i].guarded][j]}
  OBVIOUS
<1> QED BY <1>1 DEF Among, Writers, Guards

\* A slot without pins and guards is in no call, and nobody reads it.
LEMMA Unguarded ==
    ASSUME IInv, NEW s \in Slots
    PROVE  /\ ~Guarded(s) => /\ \A r \in Readers : s \notin reader[r]
                             /\ \A j \in Tasks : s \notin task[j].guarded /\ s \notin hooks[j]
           /\ writes[s] = 0 => \A j \in Tasks : s \notin task[j].writing
<1> DEFINE guarding == [j \in Tasks |-> task[j].guarded]
           writers == [j \in Tasks |-> task[j].writing]
<1>1. /\ pins[s] = Among(reader, Readers, s)
      /\ writes[s] = Among(writers, Tasks, s)
      /\ inflight[s] = Among(guarding, Tasks, s) + Among(hooks, Tasks, s)
  BY CountsAt, CallCounts
<1>2. ASSUME ~Guarded(s) PROVE \A r \in Readers : s \notin reader[r]
  BY <1>1, <1>2, NoHolder, FiniteAssumption DEF Guarded
<1>3. ASSUME ~Guarded(s)
      PROVE  \A j \in Tasks : s \notin task[j].guarded /\ s \notin hooks[j]
  <2>1. Among(guarding, Tasks, s) \in Nat /\ Among(hooks, Tasks, s) \in Nat
    BY NoHolder, FiniteAssumption
  <2>2. inflight[s] = 0
    BY <1>3 DEF Guarded
  <2> HIDE DEF guarding
  <2>3. Among(guarding, Tasks, s) = 0 /\ Among(hooks, Tasks, s) = 0
    BY <1>1, <2>1, <2>2
  <2>4. \A j \in Tasks : s \notin guarding[j] /\ s \notin hooks[j]
    BY <2>3, NoHolder, FiniteAssumption
  <2> QED BY <2>4 DEF guarding
<1>4. ASSUME writes[s] = 0 PROVE \A j \in Tasks : s \notin task[j].writing
  <2>1. \A j \in Tasks : s \notin writers[j]
    BY <1>1, <1>4, NoHolder, FiniteAssumption
  <2> QED BY <2>1
<1> QED BY <1>2, <1>3, <1>4

\* The counts are of the calls that there are, whatever else changes.
LEMMA CountsKeep ==
    ASSUME IInv, UNCHANGED <<pins, inflight, writes, reader, hooks>>,
           \A j \in Tasks : /\ task'[j].writing = task[j].writing
                            /\ task'[j].guarded = task[j].guarded
    PROVE  CountsExact'
<1>1. \A s \in Slots : Writers(task', s) = Writers(task, s) /\ Guards(task', s) = Guards(task, s)
  BY DEF Writers, Guards
<1> QED BY <1>1, CountsAt, CountsThen

\* The calls of g are those of f and that of j, which did nothing.
Joins(f, g, j) == /\ f[j].writing = {} /\ f[j].guarded = {}
                  /\ \A i \in Tasks : i # j => g[i] = f[i]

\* A call more that writes and guards.
LEMMA CallGains ==
    ASSUME NEW f, NEW g, NEW j \in Tasks, Joins(f, g, j), NEW s
    PROVE  /\ Writers(f, s) \in Nat /\ Writers(g, s) = Writers(f, s) + One(s, g[j].writing)
           /\ Guards(f, s) \in Nat /\ Guards(g, s) = Guards(f, s) + One(s, g[j].guarded)
<1> DEFINE fw == [i \in Tasks |-> f[i].writing]
           gw == [i \in Tasks |-> g[i].writing]
           fg == [i \in Tasks |-> f[i].guarded]
           gg == [i \in Tasks |-> g[i].guarded]
<1>1. /\ fw[j] = {} /\ gw[j] = g[j].writing /\ \A i \in Tasks : i # j => gw[i] = fw[i]
      /\ fg[j] = {} /\ gg[j] = g[j].guarded /\ \A i \in Tasks : i # j => gg[i] = fg[i]
  BY DEF Joins
<1>2. /\ Writers(f, s) = Among(fw, Tasks, s) /\ Writers(g, s) = Among(gw, Tasks, s)
      /\ Guards(f, s) = Among(fg, Tasks, s) /\ Guards(g, s) = Among(gg, Tasks, s)
  BY CallCounts
<1> HIDE DEF fw, gw, fg, gg
<1>3. Among(fw, Tasks, s) \in Nat /\ Among(gw, Tasks, s) = Among(fw, Tasks, s) + One(s, gw[j])
  BY <1>1, HolderGains, FiniteAssumption
<1>4. Among(fg, Tasks, s) \in Nat /\ Among(gg, Tasks, s) = Among(fg, Tasks, s) + One(s, gg[j])
  BY <1>1, HolderGains, FiniteAssumption
<1> QED BY <1>1, <1>2, <1>3, <1>4

\* One more, or none.
LEMMA OneIsNat == ASSUME NEW s, NEW S PROVE One(s, S) \in {0, 1}
BY DEF One

\* Counts that are added to, or taken from.
LEMMA PlusMinus ==
    ASSUME NEW count \in [Slots -> Nat], NEW S, NEW s \in Slots
    PROVE  /\ Plus(count, S)[s] = count[s] + One(s, S)
           /\ Minus(count, S)[s] = count[s] - One(s, S)
BY DEF Plus, Minus, One

CountsTyped == pins \in [Slots -> Nat] /\ inflight \in [Slots -> Nat] /\ writes \in [Slots -> Nat]

\* A call reserves slots: each count grows by what the call and its hooks hold.
LEMMA CountsGain ==
    ASSUME IInv, NEW j \in Tasks, task[j] = Idle, NEW call \in TaskType,
           task' = [task EXCEPT ![j] = call],
           UNCHANGED <<pins, reader>>, writes' = Plus(writes, call.writing),
           NEW more \in [Slots -> Nat],
           inflight' = [s \in Slots |-> inflight[s] + One(s, call.guarded) + more[s]],
           \A s \in Slots : Among(hooks', Tasks, s) = Among(hooks, Tasks, s) + more[s]
    PROVE  CountsExact' /\ CountsTyped'
<1>1. /\ task[j].writing = {} /\ task[j].guarded = {} /\ task'[j] = call
      /\ \A i \in Tasks : i # j => task'[i] = task[i]
  BY DEF IInv, TypeOK, Idle
<1>2. ASSUME NEW s \in Slots
      PROVE  /\ pins'[s] = Among(reader', Readers, s)
             /\ writes'[s] = Writers(task', s)
             /\ inflight'[s] = Guards(task', s) + Among(hooks', Tasks, s)
             /\ writes'[s] \in Nat /\ inflight'[s] \in Nat
  <2>1. /\ Writers(task, s) \in Nat /\ Writers(task', s) = Writers(task, s) + One(s, call.writing)
        /\ Guards(task, s) \in Nat /\ Guards(task', s) = Guards(task, s) + One(s, call.guarded)
    <3>1. ASSUME NEW g, \A i \in Tasks : i # j => g[i] = task[i]
          PROVE  /\ Writers(task, s) \in Nat /\ Writers(g, s) = Writers(task, s) + One(s, g[j].writing)
                 /\ Guards(task, s) \in Nat /\ Guards(g, s) = Guards(task, s) + One(s, g[j].guarded)
      <4>1. Joins(task, g, j)
        BY <1>1, <3>1 DEF Joins
      <4> QED BY <4>1, CallGains
    <3> QED BY <1>1, <3>1
  <2>2. /\ pins[s] = Among(reader, Readers, s)
        /\ writes[s] = Writers(task, s)
        /\ inflight[s] = Guards(task, s) + Among(hooks, Tasks, s)
    BY CountsAt
  <2>3. writes'[s] = writes[s] + One(s, call.writing)
    BY PlusMinus DEF IInv, TypeOK
  <2>4. inflight'[s] = inflight[s] + One(s, call.guarded) + more[s]
    OBVIOUS
  <2>5. /\ Among(hooks, Tasks, s) \in Nat /\ more[s] \in Nat
        /\ Among(hooks', Tasks, s) = Among(hooks, Tasks, s) + more[s]
    BY NoHolder, FiniteAssumption
  <2>6. One(s, call.writing) \in {0, 1} /\ One(s, call.guarded) \in {0, 1}
    BY OneIsNat
  <2>7. pins'[s] = Among(reader', Readers, s)
    BY <2>2
  <2> QED BY <2>1, <2>2, <2>3, <2>4, <2>5, <2>6, <2>7
<1>3. CountsExact'
  BY <1>2, CountsThen
<1>4. CountsTyped'
  <2>1. pins' \in [Slots -> Nat]
    BY DEF IInv, TypeOK
  <2>2. writes' \in [Slots -> Nat]
    BY <1>2 DEF Plus
  <2>3. inflight' \in [Slots -> Nat]
    BY <1>2
  <2> QED BY <2>1, <2>2, <2>3 DEF CountsTyped
<1> QED BY <1>3, <1>4

\* A call less.
LEMMA CountsLose ==
    ASSUME IInv, NEW j \in Tasks, task' = [task EXCEPT ![j] = Idle],
           UNCHANGED <<pins, reader, hooks>>,
           writes' = Minus(writes, task[j].writing),
           inflight' = Minus(inflight, task[j].guarded)
    PROVE  CountsExact' /\ CountsTyped'
<1>1. /\ task'[j].writing = {} /\ task'[j].guarded = {}
      /\ \A i \in Tasks : i # j => task[i] = task'[i]
  BY DEF IInv, TypeOK, Idle
<1>2. ASSUME NEW s \in Slots
      PROVE  /\ pins'[s] = Among(reader', Readers, s)
             /\ writes'[s] = Writers(task', s)
             /\ inflight'[s] = Guards(task', s) + Among(hooks', Tasks, s)
             /\ writes'[s] \in Nat /\ inflight'[s] \in Nat
  <2>1. /\ Writers(task', s) \in Nat
        /\ Writers(task, s) = Writers(task', s) + One(s, task[j].writing)
        /\ Guards(task', s) \in Nat
        /\ Guards(task, s) = Guards(task', s) + One(s, task[j].guarded)
    <3>1. Joins(task', task, j)
      BY <1>1 DEF Joins
    <3> QED BY <3>1, CallGains
  <2>2. /\ pins[s] = Among(reader, Readers, s)
        /\ writes[s] = Writers(task, s)
        /\ inflight[s] = Guards(task, s) + Among(hooks, Tasks, s)
    BY CountsAt
  <2>3. /\ writes'[s] = writes[s] - One(s, task[j].writing)
        /\ inflight'[s] = inflight[s] - One(s, task[j].guarded)
    BY PlusMinus DEF IInv, TypeOK
  <2>4. /\ Among(hooks, Tasks, s) \in Nat
        /\ One(s, task[j].writing) \in {0, 1} /\ One(s, task[j].guarded) \in {0, 1}
    BY NoHolder, OneIsNat, FiniteAssumption
  <2>5. pins'[s] = Among(reader', Readers, s) /\ hooks' = hooks
    BY <2>2
  <2> QED BY <2>1, <2>2, <2>3, <2>4, <2>5
<1>3. CountsExact'
  BY <1>2, CountsThen
<1>4. CountsTyped'
  <2>1. pins' \in [Slots -> Nat]
    BY DEF IInv, TypeOK
  <2>2. writes' \in [Slots -> Nat] /\ inflight' \in [Slots -> Nat]
    BY <1>2 DEF Minus
  <2> QED BY <2>1, <2>2 DEF CountsTyped
<1> QED BY <1>3, <1>4

\* A reader pins, or unpins, and the hooks of a call run.
LEMMA CountsPin ==
    ASSUME IInv, NEW r \in Readers, NEW S, reader[r] = {}, pins' = Plus(pins, S),
           reader' = [reader EXCEPT ![r] = S], UNCHANGED <<inflight, writes, task, hooks>>
    PROVE  CountsExact' /\ CountsTyped'
<1>1. reader'[r] = S /\ \A q \in Readers : q # r => reader'[q] = reader[q]
  BY DEF IInv, TypeOK
<1>2. ASSUME NEW s \in Slots
      PROVE  pins'[s] = Among(reader', Readers, s) /\ pins'[s] \in Nat
  <2>1. /\ Among(reader, Readers, s) \in Nat
        /\ Among(reader', Readers, s) = Among(reader, Readers, s) + One(s, S)
    <3>1. ASSUME NEW g, \A q \in Readers : q # r => g[q] = reader[q]
          PROVE  /\ Among(reader, Readers, s) \in Nat
                 /\ Among(g, Readers, s) = Among(reader, Readers, s) + One(s, g[r])
      BY <3>1, HolderGains, FiniteAssumption
    <3> QED BY <1>1, <3>1
  <2>2. pins[s] = Among(reader, Readers, s)
    BY CountsAt
  <2>3. pins'[s] = pins[s] + One(s, S) /\ One(s, S) \in {0, 1}
    BY PlusMinus, OneIsNat DEF IInv, TypeOK
  <2> QED BY <2>1, <2>2, <2>3
<1>3. CountsExact'
  BY <1>2, CountsAt, CountsThen
<1>4. CountsTyped'
  BY <1>2 DEF IInv, TypeOK, CountsTyped, Plus
<1> QED BY <1>3, <1>4

\* A reader unpins.
LEMMA CountsUnpin ==
    ASSUME IInv, NEW r \in Readers, pins' = Minus(pins, reader[r]),
           reader' = [reader EXCEPT ![r] = {}], UNCHANGED <<inflight, writes, task, hooks>>
    PROVE  CountsExact' /\ CountsTyped'
<1>1. reader'[r] = {} /\ \A q \in Readers : q # r => reader[q] = reader'[q]
  BY DEF IInv, TypeOK
<1>2. ASSUME NEW s \in Slots
      PROVE  pins'[s] = Among(reader', Readers, s) /\ pins'[s] \in Nat
  <2>1. /\ Among(reader', Readers, s) \in Nat
        /\ Among(reader, Readers, s) = Among(reader', Readers, s) + One(s, reader[r])
    <3>1. ASSUME NEW f, f[r] = {}, \A q \in Readers : q # r => reader[q] = f[q]
          PROVE  /\ Among(f, Readers, s) \in Nat
                 /\ Among(reader, Readers, s) = Among(f, Readers, s) + One(s, reader[r])
      BY <3>1, HolderGains, FiniteAssumption
    <3> QED BY <1>1, <3>1
  <2>2. pins[s] = Among(reader, Readers, s)
    BY CountsAt
  <2>3. pins'[s] = pins[s] - One(s, reader[r]) /\ One(s, reader[r]) \in {0, 1}
    BY PlusMinus, OneIsNat DEF IInv, TypeOK
  <2> QED BY <2>1, <2>2, <2>3
<1>3. CountsExact'
  BY <1>2, CountsAt, CountsThen
<1>4. CountsTyped'
  BY <1>2 DEF IInv, TypeOK, CountsTyped, Minus
<1> QED BY <1>3, <1>4

\* The load of a call has finished.
LEMMA CountsUnhook ==
    ASSUME IInv, NEW j \in Tasks, inflight' = Minus(inflight, hooks[j]),
           hooks' = [hooks EXCEPT ![j] = {}], UNCHANGED <<pins, writes, task, reader>>
    PROVE  CountsExact' /\ CountsTyped'
<1>1. hooks'[j] = {} /\ \A i \in Tasks : i # j => hooks[i] = hooks'[i]
  BY DEF IInv, TypeOK
<1>2. ASSUME NEW s \in Slots
      PROVE  inflight'[s] = Guards(task, s) + Among(hooks', Tasks, s) /\ inflight'[s] \in Nat
  <2>1. /\ Among(hooks', Tasks, s) \in Nat
        /\ Among(hooks, Tasks, s) = Among(hooks', Tasks, s) + One(s, hooks[j])
    <3>1. ASSUME NEW f, f[j] = {}, \A i \in Tasks : i # j => hooks[i] = f[i]
          PROVE  /\ Among(f, Tasks, s) \in Nat
                 /\ Among(hooks, Tasks, s) = Among(f, Tasks, s) + One(s, hooks[j])
      BY <3>1, HolderGains, FiniteAssumption
    <3> QED BY <1>1, <3>1
  <2>2. inflight[s] = Guards(task, s) + Among(hooks, Tasks, s)
    BY CountsAt
  <2>3. Guards(task, s) \in Nat
    BY CallCounts, NoHolder, FiniteAssumption
  <2>4. inflight'[s] = inflight[s] - One(s, hooks[j]) /\ One(s, hooks[j]) \in {0, 1}
    BY PlusMinus, OneIsNat DEF IInv, TypeOK
  <2> QED BY <2>1, <2>2, <2>3, <2>4
<1>3. CountsExact'
  BY <1>2, CountsAt, CountsThen
<1>4. CountsTyped'
  BY <1>2 DEF IInv, TypeOK, CountsTyped, Minus
<1> QED BY <1>3, <1>4

-----------------------------------------------------------------------------
(* One lemma for each operation: it keeps IInv.                             *)

\* A pinned slot is mapped, complete, and in nobody's hands.
LEMMA PinKeeps ==
    ASSUME IInv, NEW r \in Readers, NEW S \in SUBSET Valid, Pin(r, S)
    PROVE  IInv'
<1>1. Valid \subseteq Slots
  BY DEF IInv, TypeOK, Valid, Mapped
<1>2. CountsExact' /\ CountsTyped'
  BY CountsPin DEF Pin
<1>3. TypeOK'
  <2>1. reader' \in [Readers -> SUBSET Slots]
    BY <1>1 DEF Pin, IInv, TypeOK
  <2> QED BY <1>2, <2>1 DEF Pin, IInv, TypeOK, CountsTyped, free
<1>4. CallsOK'
  BY DEF Pin, IInv, CallsOK, Promoting, Decoding
<1>5. ArenaOK' /\ OwnOK'
  BY DEF Pin, IInv, ArenaOK, OwnOK, Promoting, Decoding, free, Valid, Mapped
<1>6. HoldsOK'
  <2>1. ASSUME NEW s \in S
        PROVE  /\ \A j \in Tasks : s \notin task[j].writing
               /\ holds[s] # {} /\ s \notin unused /\ s < nextSlot
    <3>1. s \in Slots /\ s \in Valid /\ writes[s] = 0
      BY <1>1 DEF Pin, Pinnable
    <3>2. \A j \in Tasks : s \notin task[j].writing
      BY <3>1, Unguarded
    <3>3. PICK t \in Mapped : map[t] = s
      BY <3>1 DEF Valid
    <3>4. t \in holds[s]
      BY <3>2, <3>3 DEF IInv, HoldsOK, Pin
    <3>5. s \notin unused /\ s < nextSlot
      BY <3>1 DEF IInv, ArenaOK
    <3> QED BY <3>2, <3>4, <3>5
  <2>2. \A q \in Readers : \A s \in reader'[q] : s \in S \/ s \in reader[q]
    BY DEF Pin, IInv, TypeOK
  <2>3. UNCHANGED <<map, task, holds, unused, nextSlot, closed>>
    BY DEF Pin, free
  <2> QED BY <2>1, <2>2, <2>3 DEF IInv, HoldsOK, Mapped
<1> QED BY <1>2, <1>3, <1>4, <1>5, <1>6 DEF IInv

\* Unpinning takes nothing from the others.
LEMMA UnpinKeeps ==
    ASSUME IInv, NEW r \in Readers, Unpin(r)
    PROVE  IInv'
<1>2. CountsExact' /\ CountsTyped'
  BY CountsUnpin DEF Unpin
<1>3. TypeOK'
  <2>1. reader' \in [Readers -> SUBSET Slots]
    BY DEF Unpin, IInv, TypeOK
  <2> QED BY <1>2, <2>1 DEF Unpin, IInv, TypeOK, CountsTyped, free
<1>4. CallsOK'
  BY DEF Unpin, IInv, CallsOK, Promoting, Decoding
<1>5. ArenaOK' /\ OwnOK'
  BY DEF Unpin, IInv, ArenaOK, OwnOK, Promoting, Decoding, free, Valid, Mapped
<1>6. HoldsOK'
  <2>1. \A q \in Readers : \A s \in reader'[q] : s \in reader[q]
    BY DEF Unpin, IInv, TypeOK
  <2>2. UNCHANGED <<map, task, holds, unused, nextSlot, closed>>
    BY DEF Unpin, free
  <2> QED BY <2>1, <2>2 DEF IInv, HoldsOK, Mapped
<1> QED BY <1>2, <1>3, <1>4, <1>5, <1>6 DEF IInv

\* A call reserves slots that nobody reads or writes, from what was allocated.
LEMMA ReserveKeeps ==
    ASSUME IInv, NEW j \in Tasks, task[j] = Idle, NEW call, call.at = "writing",
           Reserve(j, call), UNCHANGED <<map, closed, reader>>,
           unused' \subseteq unused, nextSlot \in Nat, nextSlot' \in Nat, nextSlot =< nextSlot',
           call.writing \subseteq Slots,
           \A s \in call.writing : /\ \A r \in Readers : s \notin reader[r]
                                   /\ \A i \in Tasks : task[i].at = "writing" => s \notin task[i].writing
                                   /\ s \notin unused' /\ s < nextSlot'
    PROVE  /\ HoldsOK'
           /\ \A i, k \in Tasks :
                i # k /\ task'[i].at = "writing" /\ task'[k].at = "writing" =>
                    task'[i].writing \cap task'[k].writing = {}
           /\ \A i \in Tasks : task'[i].at = "writing" =>
                /\ task'[i].writing \cap unused' = {}
                /\ \A s \in task'[i].writing : s < nextSlot'
<1>1. task'[j] = call /\ \A i \in Tasks : i # j => task'[i] = task[i]
  BY DEF Reserve, IInv, TypeOK
<1>2. \A s \in Slots : s \notin call.writing => holds'[s] = holds[s]
  BY DEF Reserve
<1>3. task[j].writing = {}
  BY DEF Idle
<1>4. ASSUME NEW r \in Readers, NEW s \in reader'[r]
      PROVE  /\ \A i \in Tasks : s \notin task'[i].writing
             /\ holds'[s] # {} /\ s \notin unused' /\ s < nextSlot'
  <2>1. s \in Slots /\ s \in reader[r]
    BY DEF IInv, TypeOK
  <2>2. s \notin call.writing
    BY <2>1
  <2>3. /\ \A i \in Tasks : s \notin task[i].writing
        /\ holds[s] # {} /\ s \notin unused /\ s < nextSlot
    BY <2>1 DEF IInv, HoldsOK
  <2>4. \A i \in Tasks : s \notin task'[i].writing
    BY <1>1, <2>2, <2>3
  <2>5. s < nextSlot'
    BY <2>1, <2>3 DEF Slots
  <2> QED BY <1>2, <2>1, <2>2, <2>3, <2>4, <2>5
<1>5. ASSUME ~closed', NEW t \in Mapped'
      PROVE  \/ t \in holds'[map'[t]]
             \/ \E i \in Tasks : task'[i].at = "writing" /\ map'[t] \in task'[i].writing
  <2>1. ~closed /\ t \in Mapped /\ map'[t] = map[t]
    BY <1>5 DEF Mapped
  <2>2. map[t] \in Slots
    BY <2>1 DEF IInv, TypeOK, Mapped
  <2>3. CASE map[t] \in call.writing
    BY <1>1, <2>1, <2>3
  <2>4. CASE map[t] \notin call.writing
    <3>1. \/ t \in holds[map[t]]
          \/ \E i \in Tasks : task[i].at = "writing" /\ map[t] \in task[i].writing
      BY <2>1 DEF IInv, HoldsOK
    <3>2. CASE t \in holds[map[t]]
      BY <1>2, <2>1, <2>2, <2>4, <3>2
    <3>3. ASSUME NEW i \in Tasks, task[i].at = "writing", map[t] \in task[i].writing
          PROVE  task'[i].at = "writing" /\ map'[t] \in task'[i].writing
      BY <1>1, <1>3, <2>1, <3>3
    <3> QED BY <3>1, <3>2, <3>3
  <2> QED BY <2>3, <2>4
<1>6. HoldsOK'
  BY <1>4, <1>5 DEF HoldsOK
<1>7. ASSUME NEW i \in Tasks, task'[i].at = "writing"
      PROVE  /\ task'[i].writing \cap unused' = {}
             /\ \A s \in task'[i].writing : s < nextSlot'
  <2>1. CASE i = j
    BY <1>1, <2>1
  <2>2. CASE i # j
    <3>1. task'[i] = task[i] /\ task[i].at = "writing"
      BY <1>1, <1>7, <2>2
    <3>2. /\ task[i].writing \cap unused = {}
          /\ \A s \in task[i].writing : s < nextSlot
      BY <3>1 DEF IInv, OwnOK
    <3>3. task[i].writing \subseteq Slots
      BY DEF IInv, TypeOK, TaskType
    <3>4. ASSUME NEW s \in task[i].writing PROVE s < nextSlot'
      BY <3>2, <3>3 DEF Slots
    <3> QED BY <3>1, <3>2, <3>4
  <2> QED BY <2>1, <2>2
<1>8. ASSUME NEW i \in Tasks, NEW k \in Tasks, i # k,
             task'[i].at = "writing", task'[k].at = "writing"
      PROVE  task'[i].writing \cap task'[k].writing = {}
  <2>1. CASE i = j
    <3>1. task'[k] = task[k] /\ task[k].at = "writing"
      BY <1>1, <1>8, <2>1
    <3> QED BY <1>1, <2>1, <3>1
  <2>2. CASE k = j
    <3>1. task'[i] = task[i] /\ task[i].at = "writing"
      BY <1>1, <1>8, <2>2
    <3> QED BY <1>1, <2>2, <3>1
  <2>3. CASE i # j /\ k # j
    BY <1>1, <1>8, <2>3 DEF IInv, OwnOK
  <2> QED BY <2>1, <2>2, <2>3
<1> QED BY <1>6, <1>7, <1>8

\* A write guard takes slots that nobody reads or writes.
LEMMA WriteGuardKeeps ==
    ASSUME IInv, NEW j \in Tasks, NEW R \in SUBSET (Valid \cup vacated),
           NEW O \in SUBSET (Valid \cup vacated), WriteGuard(j, R, O)
    PROVE  IInv'
<1> DEFINE S == R \cup {s \in O : ~Rejects(s)}
           call == [Idle EXCEPT !.at = "writing", !.kind = "write", !.guarded = S, !.writing = S]
<1>1. /\ call.at = "writing" /\ call.kind = "write" /\ call.writing = S /\ call.guarded = S
      /\ task[j] = Idle /\ Reserve(j, call) /\ inflight' = Plus(inflight, S)
      /\ UNCHANGED <<map, pins, pendingTokens, free, closed, reader, load, hooks>>
  BY DEF WriteGuard, Idle
<1>2. S \subseteq Slots /\ S \subseteq Valid \cup vacated
  BY DEF IInv, TypeOK, Valid, Mapped
<1>3. ASSUME NEW s \in S
      PROVE  s \notin Shared /\ ~Guarded(s)
  BY DEF WriteGuard, Rejects
<1>4. call \in TaskType
  BY <1>2 DEF TaskType, Idle
<1> HIDE DEF call, S
<1>5. ASSUME NEW s \in S
      PROVE  /\ \A r \in Readers : s \notin reader[r]
             /\ \A i \in Tasks : task[i].at = "writing" => s \notin task[i].writing
             /\ s \notin unused /\ s < nextSlot
  <2>1. /\ \A r \in Readers : s \notin reader[r]
        /\ \A i \in Tasks : s \notin task[i].guarded
    BY <1>2, <1>3, Unguarded
  <2>2. s \notin unused /\ s < nextSlot
    BY <1>2 DEF IInv, ArenaOK
  <2> QED BY <2>1, <2>2 DEF IInv, CallsOK
<1>6. task'[j] = call /\ \A i \in Tasks : i # j => task'[i] = task[i]
  BY <1>1 DEF Reserve, IInv, TypeOK
<1>7. CountsExact' /\ CountsTyped'
  <2> DEFINE more == [s \in Slots |-> 0]
  <2>1. more \in [Slots -> Nat]
    OBVIOUS
  <2>2. inflight' = [s \in Slots |-> inflight[s] + One(s, call.guarded) + more[s]]
    <3>1. ASSUME NEW s \in Slots
          PROVE  (IF s \in S THEN inflight[s] + 1 ELSE inflight[s])
                 = inflight[s] + One(s, call.guarded) + more[s]
      BY <1>1 DEF One, IInv, TypeOK
    <3> QED BY <1>1, <3>1 DEF Plus
  <2>3. \A s \in Slots : Among(hooks', Tasks, s) = Among(hooks, Tasks, s) + more[s]
    BY <1>1, NoHolder, FiniteAssumption
  <2>4. task' = [task EXCEPT ![j] = call] /\ writes' = Plus(writes, call.writing)
    BY <1>1 DEF Reserve
  <2> HIDE DEF more
  <2> QED BY <1>1, <1>4, <2>1, <2>2, <2>3, <2>4, CountsGain
<1>8. TypeOK'
  <2>1. task' \in [Tasks -> TaskType] /\ holds' \in [Slots -> SUBSET Tokens]
    BY <1>1, <1>4 DEF Reserve, IInv, TypeOK
  <2> QED BY <1>1, <1>7, <2>1 DEF IInv, TypeOK, CountsTyped, free
<1>9. CallsOK'
  <2>1. ASSUME NEW i \in Tasks, i # j
        PROVE  task'[i] = task[i] /\ Promoting(i)' = Promoting(i) /\ Decoding(i)' = Decoding(i)
    BY <1>6, <2>1 DEF Promoting, Decoding
  <2>2. ~Promoting(j)' /\ ~Decoding(j)'
    BY <1>1, <1>6 DEF Promoting, Decoding
  <2> QED BY <1>1, <1>3, <1>6, <2>1, <2>2 DEF IInv, CallsOK
<1>10. /\ HoldsOK'
       /\ \A i, k \in Tasks :
            i # k /\ task'[i].at = "writing" /\ task'[k].at = "writing" =>
                task'[i].writing \cap task'[k].writing = {}
       /\ \A i \in Tasks : task'[i].at = "writing" =>
            /\ task'[i].writing \cap unused' = {}
            /\ \A s \in task'[i].writing : s < nextSlot'
  <2>1. /\ UNCHANGED <<map, closed, reader>> /\ unused' = unused /\ nextSlot' = nextSlot
        /\ nextSlot \in Nat
    BY <1>1, SlotAssumption DEF free, IInv, TypeOK
  <2> QED BY <1>1, <1>2, <1>5, <2>1, ReserveKeeps
<1>11. ArenaOK'
  BY <1>1 DEF IInv, ArenaOK, free, Valid, Mapped
<1>12. OwnOK'
  <2>1. ASSUME NEW i \in Tasks, Promoting(i)' \/ Decoding(i)'
        PROVE  i # j /\ task'[i] = task[i]
    BY <1>1, <1>6, <2>1 DEF Promoting, Decoding
  <2>2. UNCHANGED <<Valid, vacated, Mapped, map>>
    BY <1>1 DEF free, Valid, Mapped
  <2>3. ASSUME NEW i \in Tasks, Promoting(i)'
        PROVE  /\ (task[i].fresh \cap (Valid \cup vacated) = {})'
               /\ (\A u \in Mapped : map[u] \in task[i].writing => <<u, map[u]>> \in task[i].target)'
    <3>1. task'[i] = task[i] /\ Promoting(i)
      BY <2>1, <2>3 DEF Promoting
    <3> QED BY <2>2, <3>1 DEF IInv, OwnOK
  <2>4. ASSUME NEW i \in Tasks, Decoding(i)'
        PROVE  /\ (task[i].writing \cap Valid = {})'
               /\ (\A p \in task[i].target : p[2] \notin vacated)'
    <3>1. task'[i] = task[i] /\ Decoding(i)
      BY <2>1, <2>4 DEF Decoding
    <3> QED BY <2>2, <3>1 DEF IInv, OwnOK
  <2> QED BY <1>10, <2>3, <2>4 DEF OwnOK
<1> QED BY <1>7, <1>8, <1>9, <1>10, <1>11, <1>12 DEF IInv

\* A call that wrote has only its guards left.
LEMMA LeaveCalls ==
    ASSUME IInv, NEW j \in Tasks, task[j].at = "writing",
           task' = [task EXCEPT ![j].at = "releasing"]
    PROVE  /\ task' \in [Tasks -> TaskType]
           /\ task'[j].at = "releasing" /\ task'[j].writing = task[j].writing
           /\ task'[j].guarded = task[j].guarded
           /\ \A i \in Tasks : i # j => task'[i] = task[i]
           /\ CallsOK'
<1>1. /\ \A i \in Tasks : i # j => task'[i] = task[i]
      /\ task'[j] = [task[j] EXCEPT !.at = "releasing"]
  BY DEF IInv, TypeOK
<1>2. task[j] \in TaskType
  BY DEF IInv, TypeOK
<1>3. /\ task'[j].at = "releasing" /\ task'[j].writing = task[j].writing
      /\ task'[j].guarded = task[j].guarded /\ task'[j].kind = task[j].kind
      /\ task'[j] \in TaskType
  BY <1>1, <1>2 DEF TaskType
<1>4. task' \in [Tasks -> TaskType]
  <2>1. \A i \in Tasks : task'[i] \in TaskType
    BY <1>1, <1>3 DEF IInv, TypeOK
  <2> QED BY <2>1 DEF IInv, TypeOK
<1>5. CallsOK'
  <2>1. ASSUME NEW i \in Tasks, i # j
        PROVE  task'[i] = task[i] /\ Promoting(i)' = Promoting(i) /\ Decoding(i)' = Decoding(i)
    BY <1>1, <2>1 DEF Promoting, Decoding
  <2>2. ~Promoting(j)' /\ ~Decoding(j)'
    BY <1>3 DEF Promoting, Decoding
  <2>3. /\ task[j].kind # "none" /\ task[j].writing \subseteq task[j].guarded
        /\ task[j].writing \cap Shared = {}
    BY DEF IInv, CallsOK
  <2> QED BY <1>3, <2>1, <2>2, <2>3 DEF IInv, CallsOK
<1> QED BY <1>1, <1>3, <1>4, <1>5

\* The other calls keep what they own when the map and its free slots do not change.
LEMMA LeaveOwn ==
    ASSUME IInv, NEW j \in Tasks, task'[j].at # "writing",
           \A i \in Tasks : i # j => task'[i] = task[i],
           UNCHANGED <<map, vacated, unused, nextSlot>>
    PROVE  OwnOK'
<1>1. UNCHANGED <<Valid, Mapped>>
  BY DEF Valid, Mapped
<1>2. ASSUME NEW i \in Tasks, task'[i].at = "writing"
      PROVE  i # j /\ task'[i] = task[i]
  BY <1>2
<1>3. \A i, k \in Tasks :
          i # k /\ task'[i].at = "writing" /\ task'[k].at = "writing" =>
              task'[i].writing \cap task'[k].writing = {}
  BY <1>2 DEF IInv, OwnOK
<1>4. \A i \in Tasks : task'[i].at = "writing" =>
          /\ task'[i].writing \cap unused' = {}
          /\ \A s \in task'[i].writing : s < nextSlot'
  BY <1>2 DEF IInv, OwnOK
<1>5. ASSUME NEW i \in Tasks, Promoting(i)'
      PROVE  /\ (task[i].fresh \cap (Valid \cup vacated) = {})'
             /\ (\A u \in Mapped : map[u] \in task[i].writing => <<u, map[u]>> \in task[i].target)'
  <2>1. task'[i] = task[i] /\ Promoting(i)
    BY <1>2, <1>5 DEF Promoting
  <2> QED BY <1>1, <2>1 DEF IInv, OwnOK
<1>6. ASSUME NEW i \in Tasks, Decoding(i)'
      PROVE  /\ (task[i].writing \cap Valid = {})'
             /\ (\A p \in task[i].target : p[2] \notin vacated)'
  <2>1. task'[i] = task[i] /\ Decoding(i)
    BY <1>2, <1>6 DEF Decoding
  <2> QED BY <1>1, <2>1 DEF IInv, OwnOK
<1> QED BY <1>3, <1>4, <1>5, <1>6 DEF OwnOK

\* The body of a write guard leaves complete records, or a retired map.
LEMMA WriteGuardBodyKeeps ==
    ASSUME IInv, NEW j \in Tasks, WriteGuardBody(j)
    PROVE  IInv'
<1>1. /\ task[j].at = "writing" /\ task' = [task EXCEPT ![j].at = "releasing"]
      /\ UNCHANGED <<map, counts, pendingTokens, free, reader, load, hooks>>
      /\ \/ Rewritten(task[j].writing) /\ UNCHANGED closed
         \/ UNCHANGED holds /\ closed' = TRUE
  BY DEF WriteGuardBody
<1>2. /\ task' \in [Tasks -> TaskType]
      /\ task'[j].at = "releasing" /\ task'[j].writing = task[j].writing
      /\ task'[j].guarded = task[j].guarded
      /\ \A i \in Tasks : i # j => task'[i] = task[i]
      /\ CallsOK'
  BY <1>1, LeaveCalls
<1>3. CountsExact'
  <2>1. /\ UNCHANGED <<pins, inflight, writes, reader, hooks>>
        /\ \A i \in Tasks : /\ task'[i].writing = task[i].writing
                            /\ task'[i].guarded = task[i].guarded
    BY <1>1, <1>2 DEF counts
  <2> QED BY <2>1, CountsKeep
<1>4. TypeOK'
  <2>1. holds' \in [Slots -> SUBSET Tokens] /\ closed' \in BOOLEAN
    BY <1>1 DEF IInv, TypeOK, Rewritten, TokensAt, Mapped
  <2> QED BY <1>1, <1>2, <2>1 DEF IInv, TypeOK, counts, free
<1>5. ArenaOK'
  BY <1>1 DEF IInv, ArenaOK, free, Valid, Mapped
<1>6. OwnOK'
  <2>1. task'[j].at # "writing" /\ UNCHANGED <<map, vacated, unused, nextSlot>>
    BY <1>1, <1>2 DEF free
  <2> QED BY <1>2, <2>1, LeaveOwn
<1>7. HoldsOK'
  <2>1. ASSUME NEW r \in Readers, NEW s \in reader'[r]
        PROVE  /\ \A i \in Tasks : s \notin task'[i].writing
               /\ holds'[s] # {} /\ s \notin unused' /\ s < nextSlot'
    <3>1. s \in reader[r] /\ s \in Slots
      BY <1>1 DEF IInv, TypeOK
    <3>2. /\ \A i \in Tasks : s \notin task[i].writing
          /\ holds[s] # {} /\ s \notin unused /\ s < nextSlot
      BY <3>1 DEF IInv, HoldsOK
    <3>3. holds'[s] = holds[s]
      BY <1>1, <3>1, <3>2 DEF Rewritten
    <3>4. \A i \in Tasks : s \notin task'[i].writing
      BY <1>2, <3>2
    <3> QED BY <1>1, <3>2, <3>3, <3>4 DEF free
  <2>2. ASSUME ~closed', NEW t \in Mapped'
        PROVE  \/ t \in holds'[map'[t]]
               \/ \E i \in Tasks : task'[i].at = "writing" /\ map'[t] \in task'[i].writing
    <3>1. ~closed /\ Rewritten(task[j].writing) /\ t \in Mapped /\ map'[t] = map[t]
      BY <1>1, <2>2 DEF Mapped
    <3>2. map[t] \in Slots
      BY <3>1 DEF IInv, TypeOK, Mapped
    <3>3. CASE map[t] \in task[j].writing
      <4>1. t \in TokensAt(map[t])
        BY <3>1 DEF TokensAt
      <4> QED BY <3>1, <3>2, <3>3, <4>1 DEF Rewritten
    <3>4. CASE map[t] \notin task[j].writing
      <4>1. holds'[map[t]] = holds[map[t]]
        BY <3>1, <3>2, <3>4 DEF Rewritten
      <4>2. \/ t \in holds[map[t]]
            \/ \E i \in Tasks : task[i].at = "writing" /\ map[t] \in task[i].writing
        BY <3>1 DEF IInv, HoldsOK
      <4>3. ASSUME NEW i \in Tasks, task[i].at = "writing", map[t] \in task[i].writing
            PROVE  task'[i].at = "writing" /\ map'[t] \in task'[i].writing
        BY <1>2, <3>1, <3>4, <4>3
      <4> QED BY <3>1, <4>1, <4>2, <4>3
    <3> QED BY <3>3, <3>4
  <2> QED BY <2>1, <2>2 DEF HoldsOK
<1> QED BY <1>2, <1>3, <1>4, <1>5, <1>6, <1>7 DEF IInv

\* A failed decode write retires the map.
LEMMA DecodeFailedKeeps ==
    ASSUME IInv, NEW j \in Tasks, DecodeFailed(j)
    PROVE  IInv'
<1>1. /\ task[j].at = "writing" /\ task' = [task EXCEPT ![j].at = "releasing"] /\ closed' = TRUE
      /\ UNCHANGED <<map, counts, pendingTokens, free, reader, load, hooks, holds>>
  BY DEF DecodeFailed
<1>2. /\ task' \in [Tasks -> TaskType]
      /\ task'[j].at = "releasing" /\ task'[j].writing = task[j].writing
      /\ task'[j].guarded = task[j].guarded
      /\ \A i \in Tasks : i # j => task'[i] = task[i]
      /\ CallsOK'
  BY <1>1, LeaveCalls
<1>3. CountsExact'
  <2>1. /\ UNCHANGED <<pins, inflight, writes, reader, hooks>>
        /\ \A i \in Tasks : /\ task'[i].writing = task[i].writing
                            /\ task'[i].guarded = task[i].guarded
    BY <1>1, <1>2 DEF counts
  <2> QED BY <2>1, CountsKeep
<1>4. TypeOK'
  BY <1>1, <1>2 DEF IInv, TypeOK, counts, free
<1>5. ArenaOK'
  BY <1>1 DEF IInv, ArenaOK, free, Valid, Mapped
<1>6. OwnOK'
  <2>1. task'[j].at # "writing" /\ UNCHANGED <<map, vacated, unused, nextSlot>>
    BY <1>1, <1>2 DEF free
  <2> QED BY <1>2, <2>1, LeaveOwn
<1>7. HoldsOK'
  <2>1. \A i \in Tasks : task'[i].writing = task[i].writing
    BY <1>2
  <2> QED BY <1>1, <2>1 DEF IInv, HoldsOK, free
<1> QED BY <1>2, <1>3, <1>4, <1>5, <1>6, <1>7 DEF IInv

\* Releasing takes nothing from the others.
LEMMA ReleaseKeeps ==
    ASSUME IInv, NEW j \in Tasks, Release(j)
    PROVE  IInv'
<1>1. /\ task[j].at = "releasing" /\ task' = [task EXCEPT ![j] = Idle]
      /\ writes' = Minus(writes, task[j].writing) /\ inflight' = Minus(inflight, task[j].guarded)
      /\ pendingTokens' = pendingTokens \ task[j].tokens
      /\ UNCHANGED <<map, pins, free, closed, reader, load, hooks, holds>>
  BY DEF Release
<1>2. /\ task'[j] = Idle /\ \A i \in Tasks : i # j => task'[i] = task[i]
      /\ Idle \in TaskType /\ task' \in [Tasks -> TaskType]
  <2>1. Idle \in TaskType
    BY DEF Idle, TaskType
  <2> QED BY <1>1, <2>1 DEF IInv, TypeOK
<1>3. CountsExact' /\ CountsTyped'
  BY <1>1, CountsLose
<1>4. TypeOK'
  BY <1>1, <1>2, <1>3 DEF IInv, TypeOK, CountsTyped, free
<1>5. CallsOK'
  <2>1. ASSUME NEW i \in Tasks, i # j
        PROVE  task'[i] = task[i] /\ Promoting(i)' = Promoting(i) /\ Decoding(i)' = Decoding(i)
    BY <1>2, <2>1 DEF Promoting, Decoding
  <2>2. ~Promoting(j)' /\ ~Decoding(j)'
    BY <1>2 DEF Promoting, Decoding, Idle
  <2>3. Idle.at = "idle" /\ Idle.writing = {} /\ Idle.guarded = {}
    BY DEF Idle
  <2> QED BY <1>2, <2>1, <2>2, <2>3 DEF IInv, CallsOK
<1>6. ArenaOK'
  BY <1>1 DEF IInv, ArenaOK, free, Valid, Mapped
<1>7. OwnOK'
  <2>1. task'[j].at # "writing" /\ UNCHANGED <<map, vacated, unused, nextSlot>>
    BY <1>1, <1>2 DEF free, Idle
  <2> QED BY <1>2, <2>1, LeaveOwn
<1>8. HoldsOK'
  <2>1. /\ \A i \in Tasks : task'[i].writing \subseteq task[i].writing
        /\ \A i \in Tasks : task[i].at = "writing" => task'[i] = task[i]
    BY <1>1, <1>2 DEF Idle
  <2>2. UNCHANGED <<map, unused, nextSlot, closed, reader, holds, Mapped>>
    BY <1>1 DEF free, Mapped
  <2> QED BY <2>1, <2>2 DEF IInv, HoldsOK
<1> QED BY <1>3, <1>4, <1>5, <1>6, <1>7, <1>8 DEF IInv

\* A finished load gives back what it guarded.
LEMMA LoadFinishedKeeps ==
    ASSUME IInv, NEW j \in Tasks, LoadFinished(j)
    PROVE  IInv'
<1>1. /\ inflight' = Minus(inflight, hooks[j]) /\ hooks' = [hooks EXCEPT ![j] = {}]
      /\ UNCHANGED <<map, pins, writes, pendingTokens, free, closed, task, reader, load, holds>>
  BY DEF LoadFinished, Hooked
<1>2. CountsExact' /\ CountsTyped'
  BY <1>1, CountsUnhook
<1>3. TypeOK'
  <2>1. hooks' \in [Tasks -> SUBSET Slots]
    BY <1>1 DEF IInv, TypeOK
  <2> QED BY <1>1, <1>2, <2>1 DEF IInv, TypeOK, CountsTyped, free
<1>4. CallsOK' /\ ArenaOK' /\ OwnOK' /\ HoldsOK'
  BY <1>1 DEF IInv, CallsOK, ArenaOK, OwnOK, HoldsOK, Promoting, Decoding, free, Valid, Mapped
<1> QED BY <1>2, <1>3, <1>4 DEF IInv

\* The load completes before its callbacks run.
LEMMA LoadDoneKeeps == ASSUME IInv, LoadDone PROVE IInv'
<1>1. /\ load' = "done"
      /\ UNCHANGED <<map, counts, pendingTokens, free, closed, task, reader, hooks, holds>>
  BY DEF LoadDone
<1>2. TypeOK'
  BY <1>1 DEF IInv, TypeOK, counts, free
<1>3. CountsExact'
  <2>1. /\ UNCHANGED <<pins, inflight, writes, reader, hooks>>
        /\ \A j \in Tasks : /\ task'[j].writing = task[j].writing
                            /\ task'[j].guarded = task[j].guarded
    BY <1>1 DEF counts
  <2> QED BY <2>1, CountsKeep
<1>4. CallsOK' /\ ArenaOK' /\ OwnOK' /\ HoldsOK'
  BY <1>1 DEF IInv, CallsOK, ArenaOK, OwnOK, HoldsOK, Promoting, Decoding, free, Valid, Mapped
<1> QED BY <1>2, <1>3, <1>4 DEF IInv

\* A retired map has no more to show.
LEMMA InvalidateKeeps == ASSUME IInv, Invalidate PROVE IInv'
<1>1. /\ closed' = TRUE
      /\ UNCHANGED <<map, counts, pendingTokens, free, task, reader, load, hooks, holds>>
  BY DEF Invalidate
<1>2. TypeOK'
  BY <1>1 DEF IInv, TypeOK, counts, free
<1>3. CountsExact'
  <2>1. /\ UNCHANGED <<pins, inflight, writes, reader, hooks>>
        /\ \A j \in Tasks : /\ task'[j].writing = task[j].writing
                            /\ task'[j].guarded = task[j].guarded
    BY <1>1 DEF counts
  <2> QED BY <2>1, CountsKeep
<1>4. CallsOK' /\ ArenaOK' /\ OwnOK' /\ HoldsOK'
  BY <1>1 DEF IInv, CallsOK, ArenaOK, OwnOK, HoldsOK, Promoting, Decoding, free, Valid, Mapped
<1> QED BY <1>2, <1>3, <1>4 DEF IInv

\* The slots that can still be given are in no part of the arena and in no call.
LEMMA AvailableApart ==
    ASSUME IInv, NEW s \in Available
    PROVE  /\ s \in Slots /\ s >= Floor /\ s \notin Shared /\ s \notin Valid /\ s \notin vacated
           /\ \A r \in Readers : s \notin reader[r]
           /\ \A i \in Tasks : task[i].at = "writing" => s \notin task[i].writing
<1>1. Floor \in Nat /\ MaxSlots \in Nat /\ nextSlot \in Floor .. MaxSlots
  BY SlotAssumption DEF IInv, TypeOK
<1>2. s \in unused \/ s \in nextSlot .. MaxSlots - 1
  BY DEF Available
<1>3. s \in Slots
  <2>1. unused \subseteq Slots
    BY DEF IInv, TypeOK
  <2>2. nextSlot .. MaxSlots - 1 \subseteq Slots
    BY <1>1 DEF Slots
  <2> QED BY <1>2, <2>1, <2>2
<1>4. s >= Floor
  <2>1. CASE s \in unused
    BY <2>1 DEF IInv, ArenaOK
  <2>2. CASE s \in nextSlot .. MaxSlots - 1
    BY <1>1, <2>2
  <2> QED BY <1>2, <2>1, <2>2
<1>5. s \notin Shared
  <2>1. \A x \in Shared : x \in 0 .. Floor - 1
    BY SlotAssumption
  <2> QED BY <1>1, <1>3, <1>4, <2>1 DEF Slots
<1>6. ASSUME NEW x \in Slots, x \notin unused, x < nextSlot PROVE x # s
  BY <1>1, <1>2, <1>6 DEF Slots
<1>7. s \notin Valid /\ s \notin vacated
  <2>1. \A x \in Valid \cup vacated : x \in Slots /\ x \notin unused /\ x < nextSlot
    BY DEF IInv, TypeOK, ArenaOK, Valid, Mapped
  <2> QED BY <1>6, <2>1
<1>8. \A r \in Readers : s \notin reader[r]
  <2>1. \A r \in Readers : \A x \in reader[r] : x \in Slots /\ x \notin unused /\ x < nextSlot
    BY DEF IInv, TypeOK, HoldsOK
  <2> QED BY <1>6, <2>1
<1>9. ASSUME NEW i \in Tasks, task[i].at = "writing" PROVE s \notin task[i].writing
  <2>1. task[i].writing \subseteq Slots
    BY DEF IInv, TypeOK, TaskType
  <2>2. \A x \in task[i].writing : x \in Slots /\ x \notin unused /\ x < nextSlot
    BY <1>9, <2>1 DEF IInv, OwnOK
  <2> QED BY <1>6, <2>2
<1> QED BY <1>3, <1>4, <1>5, <1>7, <1>8, <1>9

\* A promotion that does not fit leaves all slots unused.
LEMMA PromoteDeniedKeeps ==
    ASSUME IInv, NEW j \in Tasks, NEW T, NEW inplace, NEW pending,
           PromoteDenied(j, T, inplace, pending)
    PROVE  IInv'
<1>1. /\ unused' = Available /\ nextSlot' = MaxSlots
      /\ UNCHANGED <<map, counts, pendingTokens, vacated, closed, task, reader, load, hooks, holds>>
  BY DEF PromoteDenied
<1>2. Floor \in Nat /\ MaxSlots \in Nat /\ Floor =< MaxSlots
  BY SlotAssumption
<1>3. \A s \in Available :
           /\ s \in Slots /\ s >= Floor /\ s \notin Valid /\ s \notin vacated
           /\ \A r \in Readers : s \notin reader[r]
           /\ \A i \in Tasks : task[i].at = "writing" => s \notin task[i].writing
  BY AvailableApart
<1>4. \A s \in Slots : s < nextSlot'
  BY <1>1, <1>2 DEF Slots
<1>5. TypeOK'
  <2>1. unused' \subseteq Slots /\ nextSlot' \in Floor .. MaxSlots
    BY <1>1, <1>2, <1>3
  <2> QED BY <1>1, <2>1 DEF IInv, TypeOK, counts
<1>6. CountsExact'
  <2>1. /\ UNCHANGED <<pins, inflight, writes, reader, hooks>>
        /\ \A i \in Tasks : /\ task'[i].writing = task[i].writing
                            /\ task'[i].guarded = task[i].guarded
    BY <1>1 DEF counts
  <2> QED BY <2>1, CountsKeep
<1>7. CallsOK'
  BY <1>1 DEF IInv, CallsOK, Promoting, Decoding
<1>8. UNCHANGED <<Valid, Mapped, map, vacated, task, reader, holds, closed>>
  BY <1>1 DEF Valid, Mapped
<1>9. ArenaOK'
  <2>1. Valid \cup vacated \subseteq Slots
    BY DEF IInv, TypeOK, Valid, Mapped
  <2> QED BY <1>1, <1>3, <1>4, <1>8, <2>1 DEF IInv, ArenaOK
<1>10. OwnOK'
  <2>1. \A i \in Tasks : task[i].writing \subseteq Slots
    BY DEF IInv, TypeOK, TaskType
  <2> QED BY <1>1, <1>3, <1>4, <1>8, <2>1 DEF IInv, OwnOK, Promoting, Decoding
<1>11. HoldsOK'
  <2>1. \A r \in Readers : reader[r] \subseteq Slots
    BY DEF IInv, TypeOK
  <2> QED BY <1>1, <1>3, <1>4, <1>8, <2>1 DEF IInv, HoldsOK
<1> QED BY <1>5, <1>6, <1>7, <1>9, <1>10, <1>11 DEF IInv

\* A new token is bound to a slot that nobody maps, reads or writes.
LEMMA BindKeeps ==
    ASSUME IInv, NEW t \in Tokens, t \notin Mapped, NEW s \in Slots, BindTo(t, s),
           s \notin Valid, s \notin unused', s < nextSlot',
           \A r \in Readers : s \notin reader[r],
           \A i \in Tasks : task[i].at = "writing" => s \notin task[i].writing,
           unused' \subseteq unused, nextSlot' \in Floor .. MaxSlots, nextSlot =< nextSlot'
    PROVE  IInv'
<1>1. /\ map' = [map EXCEPT ![t] = s] /\ vacated' = vacated \ {s}
      /\ holds' = [holds EXCEPT ![s] = {t}]
      /\ UNCHANGED <<counts, pendingTokens, closed, task, reader, load, hooks>>
  BY DEF BindTo
<1>2. Floor \in Nat /\ MaxSlots \in Nat /\ nextSlot \in Floor .. MaxSlots /\ s # None
  BY SlotAssumption, NoneAssumption DEF IInv, TypeOK, Slots
<1>3. map'[t] = s /\ \A u \in Tokens : u # t => map'[u] = map[u]
  BY <1>1 DEF IInv, TypeOK
<1>4. Mapped' = Mapped \cup {t}
  BY <1>2, <1>3 DEF Mapped
<1>5. Valid' = Valid \cup {s}
  <2>1. Valid' = {map'[u] : u \in Mapped \cup {t}}
    BY <1>4 DEF Valid
  <2>2. \A u \in Mapped : u \in Tokens /\ map'[u] = map[u]
    BY <1>3 DEF Mapped
  <2> QED BY <1>3, <2>1, <2>2 DEF Valid
<1>6. holds'[s] = {t} /\ \A x \in Slots : x # s => holds'[x] = holds[x]
  BY <1>1 DEF IInv, TypeOK
<1>7. TypeOK'
  <2>1. map' \in [Tokens -> Slots \cup {None}] /\ holds' \in [Slots -> SUBSET Tokens]
    BY <1>1 DEF IInv, TypeOK
  <2>2. vacated' \subseteq Slots /\ unused' \subseteq Slots
    BY <1>1 DEF IInv, TypeOK
  <2> QED BY <1>1, <2>1, <2>2 DEF IInv, TypeOK, counts
<1>8. CountsExact'
  <2>1. /\ UNCHANGED <<pins, inflight, writes, reader, hooks>>
        /\ \A i \in Tasks : /\ task'[i].writing = task[i].writing
                            /\ task'[i].guarded = task[i].guarded
    BY <1>1 DEF counts
  <2> QED BY <2>1, CountsKeep
<1>9. CallsOK'
  BY <1>1 DEF IInv, CallsOK, Promoting, Decoding
<1>10. ASSUME NEW x \in Slots, x < nextSlot PROVE x < nextSlot'
  BY <1>2, <1>10 DEF Slots
<1>11. ArenaOK'
  <2>1. vacated' \cap Valid' = {} /\ unused' \cap (Valid' \cup vacated') = {}
    BY <1>1, <1>5 DEF IInv, ArenaOK
  <2>2. \A x \in Valid' \cup vacated' \cup unused' : x < nextSlot'
    <3>1. Valid \cup vacated \cup unused \subseteq Slots
      BY DEF IInv, TypeOK, Valid, Mapped
    <3>2. \A x \in Valid \cup vacated \cup unused : x < nextSlot
      BY DEF IInv, ArenaOK
    <3> QED BY <1>1, <1>5, <1>10, <3>1, <3>2
  <2>3. ASSUME NEW u \in Mapped', NEW v \in Mapped', u # v, map'[u] = map'[v]
        PROVE  {u, v} \subseteq DOMAIN Initial /\ map'[u] = Initial[u] /\ map'[v] = Initial[v]
    <3>1. \A x \in Mapped : x \in Tokens /\ map[x] # s
      BY DEF Valid, Mapped
    <3>2. u # t /\ v # t
      BY <1>3, <1>4, <2>3, <3>1
    <3>3. u \in Mapped /\ v \in Mapped /\ map'[u] = map[u] /\ map'[v] = map[v]
      BY <1>3, <1>4, <3>1, <3>2
    <3> QED BY <2>3, <3>3 DEF IInv, ArenaOK
  <2>4. vacated' \cap Shared = {} /\ \A x \in unused' : x >= Floor
    BY <1>1 DEF IInv, ArenaOK
  <2> QED BY <2>1, <2>2, <2>3, <2>4 DEF ArenaOK
<1>12. OwnOK'
  <2>1. \A i, k \in Tasks :
          i # k /\ task'[i].at = "writing" /\ task'[k].at = "writing" =>
              task'[i].writing \cap task'[k].writing = {}
    BY <1>1 DEF IInv, OwnOK
  <2>2. ASSUME NEW i \in Tasks, task'[i].at = "writing"
        PROVE  /\ task'[i].writing \cap unused' = {}
               /\ \A x \in task'[i].writing : x < nextSlot'
    <3>1. /\ task[i].writing \cap unused = {} /\ \A x \in task[i].writing : x < nextSlot
      BY <1>1, <2>2 DEF IInv, OwnOK
    <3>2. task[i].writing \subseteq Slots
      BY DEF IInv, TypeOK, TaskType
    <3> QED BY <1>1, <1>10, <3>1, <3>2
  <2>3. ASSUME NEW i \in Tasks, Promoting(i)'
        PROVE  /\ (task[i].fresh \cap (Valid \cup vacated) = {})'
               /\ (\A u \in Mapped : map[u] \in task[i].writing => <<u, map[u]>> \in task[i].target)'
    <3>1. task'[i] = task[i] /\ Promoting(i) /\ task[i].at = "writing"
      BY <1>1, <2>3 DEF Promoting
    <3>2. /\ task[i].fresh \cap (Valid \cup vacated) = {} /\ task[i].fresh \subseteq task[i].writing
          /\ s \notin task[i].writing
          /\ \A u \in Mapped : map[u] \in task[i].writing => <<u, map[u]>> \in task[i].target
      BY <3>1 DEF IInv, OwnOK, CallsOK, PromotionOK
    <3>3. \A u \in Mapped : u \in Tokens /\ u # t
      BY DEF Mapped
    <3> QED BY <1>1, <1>3, <1>4, <1>5, <3>1, <3>2, <3>3
  <2>4. ASSUME NEW i \in Tasks, Decoding(i)'
        PROVE  /\ (task[i].writing \cap Valid = {})'
               /\ (\A p \in task[i].target : p[2] \notin vacated)'
    <3>1. task'[i] = task[i] /\ Decoding(i) /\ task[i].at = "writing"
      BY <1>1, <2>4 DEF Decoding
    <3>2. /\ task[i].writing \cap Valid = {} /\ s \notin task[i].writing
          /\ \A p \in task[i].target : p[2] \notin vacated
      BY <3>1 DEF IInv, OwnOK
    <3> QED BY <1>1, <1>5, <3>1, <3>2
  <2> QED BY <2>1, <2>2, <2>3, <2>4 DEF OwnOK
<1>13. HoldsOK'
  <2>1. ASSUME NEW r \in Readers, NEW x \in reader'[r]
        PROVE  /\ \A i \in Tasks : x \notin task'[i].writing
               /\ holds'[x] # {} /\ x \notin unused' /\ x < nextSlot'
    <3>1. x \in reader[r] /\ x \in Slots /\ x # s
      BY <1>1 DEF IInv, TypeOK
    <3>2. /\ \A i \in Tasks : x \notin task[i].writing
          /\ holds[x] # {} /\ x \notin unused /\ x < nextSlot
      BY <3>1 DEF IInv, HoldsOK
    <3> QED BY <1>1, <1>6, <1>10, <3>1, <3>2
  <2>2. ASSUME ~closed', NEW u \in Mapped'
        PROVE  \/ u \in holds'[map'[u]]
               \/ \E i \in Tasks : task'[i].at = "writing" /\ map'[u] \in task'[i].writing
    <3>1. CASE u = t
      BY <1>3, <1>6, <3>1
    <3>2. CASE u # t
      <4>1. u \in Mapped /\ map'[u] = map[u] /\ map[u] # s /\ map[u] \in Slots /\ ~closed
        BY <1>1, <1>3, <1>4, <2>2, <3>2 DEF Mapped, Valid, IInv, TypeOK
      <4>2. \/ u \in holds[map[u]]
            \/ \E i \in Tasks : task[i].at = "writing" /\ map[u] \in task[i].writing
        BY <4>1 DEF IInv, HoldsOK
      <4> QED BY <1>1, <1>6, <4>1, <4>2
    <3> QED BY <3>1, <3>2
  <2> QED BY <2>1, <2>2 DEF HoldsOK
<1> QED BY <1>7, <1>8, <1>9, <1>11, <1>12, <1>13 DEF IInv

\* A hole, or a physical slot that decode may take.
LEMMA HoleApart ==
    ASSUME IInv, NEW s \in Slots, ~Guarded(s)
    PROVE  /\ \A r \in Readers : s \notin reader[r]
           /\ \A i \in Tasks : s \notin task[i].writing
BY Unguarded DEF IInv, CallsOK

\* A token is decoded into a hole, or into a new slot.
LEMMA AllocateDecodeKeeps ==
    ASSUME IInv, NEW t \in Tokens, AllocateDecode(t)
    PROVE  IInv'
<1>1. t \notin Mapped
  BY DEF AllocateDecode, NewToken
<1>2. Floor \in Nat /\ MaxSlots \in Nat /\ nextSlot \in Floor .. MaxSlots
  BY SlotAssumption DEF IInv, TypeOK
<1>3. CASE Holes # {}
  <2>1. PICK s \in Holes : BindTo(t, s) /\ unused' = unused /\ nextSlot' = nextSlot
    BY <1>3 DEF AllocateDecode, Least
  <2>2. s \in vacated /\ s \in Slots /\ s \notin Valid /\ ~Guarded(s)
    BY DEF Holes, IInv, TypeOK
  <2>3. s \notin unused' /\ s < nextSlot'
    BY <2>1, <2>2 DEF IInv, ArenaOK
  <2>4. unused' \subseteq unused /\ nextSlot' \in Floor .. MaxSlots /\ nextSlot =< nextSlot'
    BY <1>2, <2>1
  <2>5. /\ \A r \in Readers : s \notin reader[r]
        /\ \A i \in Tasks : task[i].at = "writing" => s \notin task[i].writing
    BY <2>2, HoleApart
  <2>6. BindTo(t, s)
    BY <2>1
  <2> QED BY <1>1, <2>2, <2>3, <2>4, <2>5, <2>6, BindKeeps
<1>4. CASE Holes = {}
  <2>1. PICK s \in Available : /\ \A x \in Available : s =< x
                               /\ BindTo(t, s) /\ unused' = unused \ {s}
                               /\ nextSlot' = IF s = nextSlot THEN s + 1 ELSE nextSlot
    BY <1>4 DEF AllocateDecode, Least
  <2>2. /\ s \in Slots /\ s \notin Valid
        /\ \A r \in Readers : s \notin reader[r]
        /\ \A i \in Tasks : task[i].at = "writing" => s \notin task[i].writing
    BY AvailableApart
  <2>3. s =< nextSlot
    <3>1. CASE s \in unused
      <4>1. s < nextSlot
        BY <3>1 DEF IInv, ArenaOK
      <4> QED BY <1>2, <2>2, <4>1 DEF Slots
    <3>2. CASE s \in nextSlot .. MaxSlots - 1
      <4>1. nextSlot \in Available
        BY <1>2, <3>2 DEF Available
      <4> QED BY <2>1, <4>1
    <3> QED BY <3>1, <3>2 DEF Available
  <2>4. s < MaxSlots /\ s \in Nat
    BY <1>2, <2>2 DEF Slots
  <2>5. s \notin unused' /\ s < nextSlot' /\ unused' \subseteq unused
    BY <1>2, <2>1, <2>3, <2>4
  <2>6. nextSlot' \in Floor .. MaxSlots /\ nextSlot =< nextSlot'
    BY <1>2, <2>1, <2>3, <2>4
  <2>7. BindTo(t, s)
    BY <2>1
  <2> QED BY <1>1, <2>2, <2>5, <2>6, <2>7, BindKeeps
<1> QED BY <1>3, <1>4

\* Where _decode_destination may put a token.
LEMMA DestinationApart ==
    ASSUME IInv, NEW t \in Tokens, NEW p \in Slots, NEW reuse \in BOOLEAN,
           NEW s \in Destination(t, p, reuse)
    PROVE  /\ t \notin Mapped
           /\ \A x \in {s, p} :
                /\ x \in Slots /\ x < Floor /\ x \notin Valid /\ x \notin Shared
                /\ x \notin unused /\ x < nextSlot
                /\ \A r \in Readers : x \notin reader[r]
                /\ \A i \in Tasks : x \notin task[i].writing
<1>1. NewToken(t) /\ ~(p >= Floor) /\ p \notin Valid /\ p \notin Shared /\ ~Guarded(p)
  BY DEF Destination
<1>2. Floor \in Nat /\ MaxSlots \in Nat /\ nextSlot \in Floor .. MaxSlots
  BY SlotAssumption DEF IInv, TypeOK
<1>3. s = p \/ (s \in Holes /\ s < Floor)
  <2> DEFINE native == {x \in Holes : x < Floor}
  <2>1. Destination(t, p, reuse) = IF reuse /\ native # {} THEN Least(native) ELSE {p}
    BY <1>1 DEF Destination
  <2>2. \A x \in Least(native) : x \in Holes /\ x < Floor
    BY DEF Least
  <2> HIDE DEF native
  <2>3. CASE reuse /\ native # {}
    BY <2>1, <2>2, <2>3
  <2>4. CASE ~(reuse /\ native # {})
    <3>1. Destination(t, p, reuse) = {p}
      BY <2>1, <2>4
    <3>2. s \in {p}
      BY <3>1
    <3> QED BY <3>2
  <2> QED BY <2>3, <2>4
<1>4. ASSUME NEW x \in {s, p}
      PROVE  x \in Slots /\ x < Floor /\ x \notin Valid /\ x \notin Shared /\ ~Guarded(x)
  <2>1. p < Floor
    <3>1. ~(p >= Floor)
      BY <1>1
    <3>2. p \in Int /\ Floor \in Int
      BY <1>2 DEF Slots
    <3> QED BY <3>1, <3>2
  <2>2. vacated \subseteq Slots
    BY DEF IInv, TypeOK
  <2>3. CASE x = p
    BY <1>1, <2>1, <2>3
  <2>4. CASE x = s /\ s \in Holes /\ s < Floor
    BY <2>2, <2>4 DEF Holes
  <2> QED BY <1>3, <2>3, <2>4
<1>5. ASSUME NEW x \in {s, p} PROVE x \notin unused /\ x < nextSlot
  <2>1. x \in Slots /\ x < Floor
    BY <1>4
  <2>2. ~(x >= Floor) /\ x < nextSlot
    BY <1>2, <2>1 DEF Slots
  <2> QED BY <2>2 DEF IInv, ArenaOK
<1> QED BY <1>1, <1>4, <1>5, HoleApart DEF NewToken

\* A token is bound to its physical slot, or to a hole.
LEMMA BindDecodeKeeps ==
    ASSUME IInv, NEW t \in Tokens, NEW p \in Slots, NEW reuse \in BOOLEAN, BindDecode(t, p, reuse)
    PROVE  IInv'
<1>1. PICK s \in Destination(t, p, reuse) : BindTo(t, s)
  BY DEF BindDecode
<1>2. unused' = unused /\ nextSlot' = nextSlot /\ nextSlot \in Floor .. MaxSlots
      /\ Floor \in Nat /\ MaxSlots \in Nat
  BY SlotAssumption DEF BindDecode, IInv, TypeOK
<1>3. /\ t \notin Mapped /\ s \in Slots /\ s \notin Valid /\ s \notin unused /\ s < nextSlot
      /\ \A r \in Readers : s \notin reader[r]
      /\ \A i \in Tasks : s \notin task[i].writing
  BY DestinationApart
<1>4. /\ unused' \subseteq unused /\ nextSlot' \in Floor .. MaxSlots /\ nextSlot =< nextSlot'
      /\ s \notin unused' /\ s < nextSlot'
  BY <1>2, <1>3
<1> QED BY <1>1, <1>3, <1>4, BindKeeps

\* Fewer holes and fewer unused slots, and more of the arena in use.
LEMMA ArenaShrinks ==
    ASSUME IInv, UNCHANGED map, vacated' \subseteq vacated, unused' \subseteq unused,
           nextSlot \in Nat, nextSlot' \in Nat, nextSlot =< nextSlot'
    PROVE  ArenaOK'
<1>1. UNCHANGED <<Valid, Mapped>>
  BY DEF Valid, Mapped
<1>2. ASSUME NEW s \in Valid' \cup vacated' \cup unused' PROVE s < nextSlot'
  <2>1. s \in Slots /\ s < nextSlot
    BY <1>1 DEF IInv, TypeOK, ArenaOK, Valid, Mapped
  <2> QED BY <2>1 DEF Slots
<1>3. vacated' \cap Valid' = {} /\ unused' \cap (Valid' \cup vacated') = {}
  BY <1>1 DEF IInv, ArenaOK
<1>4. vacated' \cap Shared = {} /\ \A s \in unused' : s >= Floor
  BY DEF IInv, ArenaOK
<1>5. \A t, u \in Mapped' : t # u /\ map'[t] = map'[u] =>
          {t, u} \subseteq DOMAIN Initial /\ map'[t] = Initial[t] /\ map'[u] = Initial[u]
  BY <1>1 DEF IInv, ArenaOK
<1> QED BY <1>2, <1>3, <1>4, <1>5 DEF ArenaOK

\* The other calls keep what is theirs while one begins.
LEMMA OthersOwn ==
    ASSUME IInv, NEW j \in Tasks, \A i \in Tasks : i # j => task'[i] = task[i],
           UNCHANGED map, vacated' \subseteq vacated
    PROVE  /\ \A i \in Tasks : i # j /\ Promoting(i)' =>
                /\ (task[i].fresh \cap (Valid \cup vacated) = {})'
                /\ (\A u \in Mapped : map[u] \in task[i].writing => <<u, map[u]>> \in task[i].target)'
           /\ \A i \in Tasks : i # j /\ Decoding(i)' =>
                /\ (task[i].writing \cap Valid = {})'
                /\ (\A p \in task[i].target : p[2] \notin vacated)'
<1>1. UNCHANGED <<Valid, Mapped>>
  BY DEF Valid, Mapped
<1>2. ASSUME NEW i \in Tasks, i # j, Promoting(i)'
      PROVE  /\ (task[i].fresh \cap (Valid \cup vacated) = {})'
             /\ (\A u \in Mapped : map[u] \in task[i].writing => <<u, map[u]>> \in task[i].target)'
  <2>1. task'[i] = task[i] /\ Promoting(i)
    BY <1>2 DEF Promoting
  <2> QED BY <1>1, <2>1 DEF IInv, OwnOK
<1>3. ASSUME NEW i \in Tasks, i # j, Decoding(i)'
      PROVE  /\ (task[i].writing \cap Valid = {})'
             /\ (\A p \in task[i].target : p[2] \notin vacated)'
  <2>1. task'[i] = task[i] /\ Decoding(i)
    BY <1>3 DEF Decoding
  <2> QED BY <1>1, <2>1 DEF IInv, OwnOK
<1> QED BY <1>2, <1>3

\* A decode write reserves its slot and the physical one.
LEMMA DecodeGuardKeeps ==
    ASSUME IInv, NEW j \in Tasks, NEW t \in Tokens, NEW p \in Slots, DecodeGuard(j, t, p)
    PROVE  IInv'
<1>1. PICK s \in Destination(t, p, TRUE) :
          /\ Reserve(j, [Idle EXCEPT !.at = "writing", !.kind = "decode", !.tokens = {t},
                                     !.target = {<<t, s>>}, !.guarded = {s, p},
                                     !.writing = {s, p}])
          /\ inflight' = Plus(inflight, {s, p})
          /\ vacated' = vacated \ {s}
  BY DEF DecodeGuard
<1>2. \A x \in {s, p} :
          /\ x \in Slots /\ x < Floor /\ x \notin Valid /\ x \notin Shared
          /\ x \notin unused /\ x < nextSlot
          /\ \A r \in Readers : x \notin reader[r]
          /\ \A i \in Tasks : x \notin task[i].writing
  BY DestinationApart
<1>3. PICK call : call = [Idle EXCEPT !.at = "writing", !.kind = "decode", !.tokens = {t},
                                      !.target = {<<t, s>>}, !.guarded = {s, p},
                                      !.writing = {s, p}]
  OBVIOUS
<1>4. /\ call.at = "writing" /\ call.kind = "decode" /\ call.writing = {s, p}
      /\ call.guarded = {s, p} /\ call.tokens = {t} /\ call.target = {<<t, s>>}
      /\ call \in TaskType
  <2>1. call = [at |-> "writing", kind |-> "decode", tokens |-> {t}, source |-> {},
                target |-> {<<t, s>>}, guarded |-> {s, p}, writing |-> {s, p}, fresh |-> {}]
    BY <1>3 DEF Idle
  <2>2. {s, p} \subseteq Slots /\ {<<t, s>>} \subseteq Tokens \X Slots
    BY <1>2
  <2>3. call \in TaskType
    BY <2>1, <2>2 DEF TaskType
  <2> QED BY <2>1, <2>3
<1>5. /\ task[j] = Idle /\ Reserve(j, call)
      /\ pendingTokens' = pendingTokens \cup {t}
      /\ UNCHANGED <<map, pins, unused, nextSlot, closed, reader, load, hooks>>
  BY <1>1, <1>3 DEF DecodeGuard
<1>6. task'[j] = call /\ \A i \in Tasks : i # j => task'[i] = task[i]
  BY <1>5 DEF Reserve, IInv, TypeOK
<1>7. CountsExact' /\ CountsTyped'
  <2> DEFINE more == [x \in Slots |-> 0]
  <2>1. more \in [Slots -> Nat]
    OBVIOUS
  <2>2. inflight' = [x \in Slots |-> inflight[x] + One(x, call.guarded) + more[x]]
    <3>1. ASSUME NEW x \in Slots
          PROVE  (IF x \in {s, p} THEN inflight[x] + 1 ELSE inflight[x])
                 = inflight[x] + One(x, call.guarded) + more[x]
      BY <1>4 DEF One, IInv, TypeOK
    <3> QED BY <1>1, <3>1 DEF Plus
  <2>3. \A x \in Slots : Among(hooks', Tasks, x) = Among(hooks, Tasks, x) + more[x]
    BY <1>5, NoHolder, FiniteAssumption
  <2>4. task' = [task EXCEPT ![j] = call] /\ writes' = Plus(writes, call.writing)
    BY <1>5 DEF Reserve
  <2> HIDE DEF more
  <2> QED BY <1>4, <1>5, <2>1, <2>2, <2>3, <2>4, CountsGain
<1>8. TypeOK'
  <2>1. task' \in [Tasks -> TaskType] /\ holds' \in [Slots -> SUBSET Tokens]
    BY <1>4, <1>5 DEF Reserve, IInv, TypeOK
  <2>2. vacated' \subseteq Slots /\ pendingTokens' \subseteq Tokens
    BY <1>1, <1>5 DEF IInv, TypeOK
  <2> QED BY <1>5, <1>7, <2>1, <2>2 DEF IInv, TypeOK, CountsTyped
<1>9. CallsOK'
  <2>1. ASSUME NEW i \in Tasks, i # j
        PROVE  task'[i] = task[i] /\ Promoting(i)' = Promoting(i) /\ Decoding(i)' = Decoding(i)
    BY <1>6, <2>1 DEF Promoting, Decoding
  <2>2. ~Promoting(j)'
    BY <1>4, <1>6 DEF Promoting
  <2>3. TargetOK(call) /\ \A u, v \in call.tokens : u = v
    BY <1>4 DEF TargetOK
  <2>4. call.writing \cap Shared = {}
    BY <1>2, <1>4
  <2> QED BY <1>4, <1>6, <2>1, <2>2, <2>3, <2>4 DEF IInv, CallsOK
<1>10. /\ HoldsOK'
       /\ \A i, k \in Tasks :
            i # k /\ task'[i].at = "writing" /\ task'[k].at = "writing" =>
                task'[i].writing \cap task'[k].writing = {}
       /\ \A i \in Tasks : task'[i].at = "writing" =>
            /\ task'[i].writing \cap unused' = {}
            /\ \A x \in task'[i].writing : x < nextSlot'
  <2>1. /\ UNCHANGED <<map, closed, reader>> /\ unused' = unused /\ nextSlot' = nextSlot
        /\ nextSlot \in Nat
    BY <1>5, SlotAssumption DEF IInv, TypeOK
  <2>2. /\ call.writing \subseteq Slots
        /\ \A x \in call.writing : /\ \A r \in Readers : x \notin reader[r]
                                   /\ \A i \in Tasks : task[i].at = "writing" => x \notin task[i].writing
                                   /\ x \notin unused' /\ x < nextSlot'
    BY <1>2, <1>4, <2>1
  <2> QED BY <1>4, <1>5, <2>1, <2>2, ReserveKeeps
<1>11. ArenaOK'
  <2>1. /\ UNCHANGED map /\ vacated' \subseteq vacated /\ unused' \subseteq unused
        /\ nextSlot \in Nat /\ nextSlot' \in Nat /\ nextSlot =< nextSlot'
    BY <1>1, <1>5, SlotAssumption DEF IInv, TypeOK
  <2> QED BY <2>1, ArenaShrinks
<1>12. OwnOK'
  <2>1. UNCHANGED map /\ vacated' \subseteq vacated /\ UNCHANGED Valid
    BY <1>1, <1>5 DEF Valid, Mapped
  <2>2. /\ \A i \in Tasks : i # j /\ Promoting(i)' =>
                /\ (task[i].fresh \cap (Valid \cup vacated) = {})'
                /\ (\A u \in Mapped : map[u] \in task[i].writing => <<u, map[u]>> \in task[i].target)'
        /\ \A i \in Tasks : i # j /\ Decoding(i)' =>
                /\ (task[i].writing \cap Valid = {})'
                /\ (\A q \in task[i].target : q[2] \notin vacated)'
    BY <1>6, <2>1, OthersOwn
  <2>3. ~Promoting(j)'
    BY <1>4, <1>6 DEF Promoting
  <2>4. /\ (task[j].writing \cap Valid = {})'
        /\ (\A q \in task[j].target : q[2] \notin vacated)'
    BY <1>1, <1>2, <1>4, <1>6, <2>1
  <2> QED BY <1>10, <2>2, <2>3, <2>4 DEF OwnOK
<1> QED BY <1>7, <1>8, <1>9, <1>10, <1>11, <1>12 DEF IInv

\* _fresh_slot gives the lowest numbers, so that the next number is a bound.
LEMMA FreshBound ==
    ASSUME IInv, NEW S \in SUBSET Available,
           \A s \in S, x \in Available \ S : s < x,
           NEW m, m = Cardinality({s \in Slots : s < nextSlot \/ s \in S})
    PROVE  m \in Floor .. MaxSlots /\ nextSlot =< m /\ \A s \in S : s < m
<1> DEFINE A == {s \in Slots : s < nextSlot \/ s \in S}
<1>1. Floor \in Nat /\ MaxSlots \in Nat /\ nextSlot \in Floor .. MaxSlots
  BY SlotAssumption DEF IInv, TypeOK
<1>2. S \subseteq Slots
  BY AvailableApart
<1>3. A \in SUBSET (0 .. MaxSlots - 1)
  BY DEF Slots
<1>4. ASSUME NEW x \in A, NEW y \in 0 .. MaxSlots - 1, y < x PROVE y \in A
  <2>1. x \in 0 .. MaxSlots - 1 /\ y \in Slots
    BY DEF Slots
  <2>2. CASE y < nextSlot
    BY <2>1, <2>2
  <2>3. CASE ~(y < nextSlot)
    <3>1. ~(x < nextSlot) /\ y \in nextSlot .. MaxSlots - 1
      BY <1>1, <1>4, <2>1, <2>3
    <3>2. x \in S /\ y \in Available
      BY <3>1 DEF Available
    <3>3. y \in S
      BY <1>4, <2>1, <3>2
    <3> QED BY <2>1, <3>3
  <2> QED BY <2>2, <2>3
<1> HIDE DEF A
<1>5. /\ Cardinality(A) \in 0 .. MaxSlots
      /\ \A y \in 0 .. MaxSlots - 1 : y \in A <=> y < Cardinality(A)
  BY <1>1, <1>3, <1>4, InitialSegment
<1>6. m = Cardinality(A)
  BY DEF A
<1>7. \A s \in S : s < m
  <2>1. \A s \in S : s \in A /\ s \in 0 .. MaxSlots - 1
    BY <1>2 DEF A, Slots
  <2> QED BY <1>5, <1>6, <2>1
<1>8. nextSlot =< m
  <2>1. CASE nextSlot = 0
    BY <1>5, <1>6, <2>1
  <2>2. CASE nextSlot # 0
    <3>1. nextSlot - 1 \in 0 .. MaxSlots - 1 /\ nextSlot - 1 < nextSlot
      BY <1>1, <2>2
    <3>2. nextSlot - 1 \in A
      BY <3>1 DEF A, Slots
    <3>3. nextSlot - 1 < Cardinality(A)
      BY <1>5, <3>1, <3>2
    <3> QED BY <1>1, <1>5, <1>6, <3>3
  <2> QED BY <2>1, <2>2
<1> QED BY <1>1, <1>5, <1>6, <1>7, <1>8

\* The copies take every slot that was allocated for them.
LEMMA CopiesFill ==
    ASSUME NEW C, NEW S \in SUBSET Slots, Cardinality(S) = Cardinality(C),
           NEW f \in Bijections(C, S)
    PROVE  \A s \in S : \E t \in C : f[t] = s
<1>1. f \in Injection(C, S)
  BY DEF Bijections, Injection, IsInjective
<1>2. IsFiniteSet(S)
  <2>1. IsFiniteSet(Slots)
    BY SlotAssumption, FS_Interval DEF Slots
  <2> QED BY <2>1, FS_Subset
<1>3. f \in Surjection(C, S)
  BY <1>1, <1>2, FS_Injection
<1> QED BY <1>3 DEF Surjection

\* Where each token will be.
Destined(T, copied, f) == [t \in T |-> IF t \in copied THEN f[t] ELSE map[t]]

\* The tokens that are copied, and the slots chosen for them.
Chosen(T, copied, S) ==
    /\ \A t \in T \ copied : /\ map[t] \notin Shared /\ ~Guarded(map[t])
                             /\ \A u \in Mapped \ {t} : map[u] # map[t]
    /\ \A s \in S, x \in Available \ S : s < x
    /\ Cardinality(S) = Cardinality(copied)

\* The promotion begins.
Begins(j, T, pending, S, dest, call) ==
    /\ call = [at |-> "writing", kind |-> "promote", tokens |-> T,
               source |-> {<<t, map[t]>> : t \in T},
               target |-> {<<t, dest[t]>> : t \in T},
               guarded |-> {map[t] : t \in T} \cup {dest[t] : t \in T},
               writing |-> {dest[t] : t \in T}, fresh |-> S]
    /\ Reserve(j, call)
    /\ inflight' = IF pending THEN Plus(Plus(inflight, call.guarded), {map[t] : t \in T})
                   ELSE Plus(inflight, call.guarded)
    /\ hooks' = [hooks EXCEPT ![j] = IF pending THEN {map[t] : t \in T} ELSE @]
    /\ unused' = unused \ S
    /\ nextSlot' = Cardinality({s \in Slots : s < nextSlot \/ s \in S})

\* Promote, with its choices named.
LEMMA PromoteShape ==
    ASSUME NEW j \in Tasks, NEW T \in SUBSET Tokens, NEW inplace \in BOOLEAN,
           NEW pending \in BOOLEAN, Promote(j, T, inplace, pending)
    PROVE  \E copied \in SUBSET T : \E S \in SUBSET Available :
               /\ (inplace \/ copied = T) /\ Chosen(T, copied, S)
               /\ \E f \in Bijections(copied, S) : \E dest, call :
                     dest = Destined(T, copied, f) /\ Begins(j, T, pending, S, dest, call)
<1> DEFINE copied == {t \in T : MustCopy(t, inplace, pending)}
           source == {map[t] : t \in T}
<1>1. PICK S \in Fresh(Cardinality(copied)) : \E f \in Bijections(copied, S) :
         LET dest(t) == IF t \in copied THEN f[t] ELSE map[t]
             target == {<<t, dest(t)>> : t \in T}
             writing == {dest(t) : t \in T}
         IN /\ Reserve(j, [at |-> "writing", kind |-> "promote", tokens |-> T,
                           source |-> {<<t, map[t]>> : t \in T}, target |-> target,
                           guarded |-> source \cup writing, writing |-> writing,
                           fresh |-> S])
            /\ inflight' = IF pending THEN Plus(Plus(inflight, source \cup writing), source)
                           ELSE Plus(inflight, source \cup writing)
            /\ hooks' = [hooks EXCEPT ![j] = IF pending THEN source ELSE @]
            /\ unused' = unused \ S
            /\ nextSlot' = Cardinality({s \in Slots : s < nextSlot \/ s \in S})
  BY Zenon DEF Promote
<1>2. PICK f \in Bijections(copied, S) :
         LET dest(t) == IF t \in copied THEN f[t] ELSE map[t]
             target == {<<t, dest(t)>> : t \in T}
             writing == {dest(t) : t \in T}
         IN /\ Reserve(j, [at |-> "writing", kind |-> "promote", tokens |-> T,
                           source |-> {<<t, map[t]>> : t \in T}, target |-> target,
                           guarded |-> source \cup writing, writing |-> writing,
                           fresh |-> S])
            /\ inflight' = IF pending THEN Plus(Plus(inflight, source \cup writing), source)
                           ELSE Plus(inflight, source \cup writing)
            /\ hooks' = [hooks EXCEPT ![j] = IF pending THEN source ELSE @]
            /\ unused' = unused \ S
            /\ nextSlot' = Cardinality({s \in Slots : s < nextSlot \/ s \in S})
  BY <1>1, Zenon
<1>3. /\ S \in SUBSET Available /\ Cardinality(S) = Cardinality(copied)
      /\ \A s \in S, x \in Available \ S : s < x
  BY DEF Fresh
<1>4. \A t \in T \ copied : /\ map[t] \notin Shared /\ ~Guarded(map[t])
                            /\ \A u \in Mapped \ {t} : map[u] # map[t]
  BY DEF MustCopy
<1>5. PICK dest : dest = Destined(T, copied, f)
  OBVIOUS
<1>6. \A t \in T : dest[t] = IF t \in copied THEN f[t] ELSE map[t]
  BY <1>5 DEF Destined
<1>7. /\ {<<t, dest[t]>> : t \in T} = {<<t, IF t \in copied THEN f[t] ELSE map[t]>> : t \in T}
      /\ {dest[t] : t \in T} = {IF t \in copied THEN f[t] ELSE map[t] : t \in T}
  BY <1>6
<1>8. PICK call : call = [at |-> "writing", kind |-> "promote", tokens |-> T,
                          source |-> {<<t, map[t]>> : t \in T},
                          target |-> {<<t, dest[t]>> : t \in T},
                          guarded |-> {map[t] : t \in T} \cup {dest[t] : t \in T},
                          writing |-> {dest[t] : t \in T}, fresh |-> S]
  OBVIOUS
<1> DEFINE target == {<<t, IF t \in copied THEN f[t] ELSE map[t]>> : t \in T}
           writing == {IF t \in copied THEN f[t] ELSE map[t] : t \in T}
<1>9. /\ Reserve(j, [at |-> "writing", kind |-> "promote", tokens |-> T,
                     source |-> {<<t, map[t]>> : t \in T}, target |-> target,
                     guarded |-> source \cup writing, writing |-> writing, fresh |-> S])
      /\ inflight' = IF pending THEN Plus(Plus(inflight, source \cup writing), source)
                     ELSE Plus(inflight, source \cup writing)
      /\ hooks' = [hooks EXCEPT ![j] = IF pending THEN source ELSE @]
      /\ unused' = unused \ S
      /\ nextSlot' = Cardinality({s \in Slots : s < nextSlot \/ s \in S})
  BY <1>2, Zenon
<1>10. target = {<<t, dest[t]>> : t \in T} /\ writing = {dest[t] : t \in T}
  BY <1>7, Zenon
<1> HIDE DEF target, writing
<1>11. /\ call = [at |-> "writing", kind |-> "promote", tokens |-> T,
                  source |-> {<<t, map[t]>> : t \in T}, target |-> target,
                  guarded |-> source \cup writing, writing |-> writing, fresh |-> S]
       /\ call.guarded = source \cup writing
  <2>1. call = [at |-> "writing", kind |-> "promote", tokens |-> T,
                 source |-> {<<t, map[t]>> : t \in T}, target |-> target,
                 guarded |-> source \cup writing, writing |-> writing, fresh |-> S]
    BY <1>8, <1>10, Zenon
  <2> QED BY <2>1
<1>12. /\ Reserve(j, call)
       /\ inflight' = IF pending THEN Plus(Plus(inflight, call.guarded), {map[t] : t \in T})
                      ELSE Plus(inflight, call.guarded)
       /\ hooks' = [hooks EXCEPT ![j] = IF pending THEN {map[t] : t \in T} ELSE @]
       /\ unused' = unused \ S
       /\ nextSlot' = Cardinality({s \in Slots : s < nextSlot \/ s \in S})
  BY <1>11, <1>9, Zenon
<1>13. copied \in SUBSET T /\ (inplace \/ copied = T)
  <2>1. copied \in SUBSET T
    OBVIOUS
  <2>2. ASSUME ~inplace PROVE copied = T
    BY <2>2 DEF MustCopy
  <2> HIDE DEF copied
  <2> QED BY <2>1, <2>2
<1>14. Chosen(T, copied, S)
  BY <1>3, <1>4 DEF Chosen
<1>15. Begins(j, T, pending, S, dest, call)
  BY <1>8, <1>12, Zenon DEF Begins
<1> HIDE DEF copied
<1>16. \E d, c : d = Destined(T, copied, f) /\ Begins(j, T, pending, S, d, c)
  BY <1>5, <1>15, Zenon
<1>17. \E g \in Bijections(copied, S) : \E d, c :
          d = Destined(T, copied, g) /\ Begins(j, T, pending, S, d, c)
  BY <1>16, Zenon
<1> QED BY <1>3, <1>13, <1>14, <1>17, Zenon

\* Where a promotion writes: slots that it alone has.
Apart(T, S, dest) ==
    /\ \A t \in T : dest[t] \in Slots /\ dest[t] \notin Shared
    /\ \A t \in T : dest[t] \in S \/ dest[t] = map[t]
    /\ \A t, u \in T : dest[t] = dest[u] /\ dest[t] \in S => t = u
    /\ \A s \in S : \E t \in T : dest[t] = s
    /\ \A t \in T : dest[t] \notin S => ~Guarded(map[t]) /\ \A u \in Mapped \ {t} : map[u] # map[t]
    /\ \A s \in S : s \in Slots /\ s >= Floor /\ s \notin Valid /\ s \notin vacated

\* So it is wherever the source permits a promotion.
LEMMA DestinedApart ==
    ASSUME IInv, NEW T \in SUBSET Mapped, NEW copied \in SUBSET T, NEW S \in SUBSET Available,
           Chosen(T, copied, S), NEW f \in Bijections(copied, S),
           NEW dest, dest = Destined(T, copied, f)
    PROVE  Apart(T, S, dest)
<1>1. \A s \in S : /\ s \in Slots /\ s >= Floor /\ s \notin Shared
                   /\ s \notin Valid /\ s \notin vacated
  BY AvailableApart
<1>2. \A t \in T : dest[t] = IF t \in copied THEN f[t] ELSE map[t]
  BY DEF Destined
<1>3. f \in [copied -> S] /\ \A x, y \in copied : f[x] = f[y] => x = y
  BY DEF Bijections
<1>4. \A t \in T : t \in Tokens /\ map[t] \in Slots /\ map[t] \in Valid
  BY DEF IInv, TypeOK, Mapped, Valid
<1>5. ASSUME NEW t \in T
      PROVE  /\ t \in copied => dest[t] \in S
             /\ t \notin copied => /\ dest[t] = map[t] /\ dest[t] \notin S
                                   /\ map[t] \notin Shared /\ ~Guarded(map[t])
                                   /\ \A u \in Mapped \ {t} : map[u] # map[t]
  BY <1>1, <1>2, <1>3, <1>4 DEF Chosen
<1>6. \A t \in T : dest[t] \in Slots /\ dest[t] \notin Shared
  BY <1>1, <1>4, <1>5
<1>7. \A t, u \in T : dest[t] = dest[u] /\ dest[t] \in S => t = u
  <2> SUFFICES ASSUME NEW t \in T, NEW u \in T, dest[t] = dest[u], dest[t] \in S PROVE t = u
    OBVIOUS
  <2>1. t \in copied /\ u \in copied
    BY <1>5
  <2>2. dest[t] = f[t] /\ dest[u] = f[u]
    BY <1>2, <2>1
  <2> QED BY <1>3, <2>1, <2>2
<1>8. \A s \in S : \E t \in T : dest[t] = s
  <2>1. S \in SUBSET Slots /\ Cardinality(S) = Cardinality(copied)
    BY <1>1 DEF Chosen
  <2>2. \A s \in S : \E t \in copied : f[t] = s
    BY <2>1, CopiesFill
  <2> QED BY <1>2, <2>2
<1> QED BY <1>1, <1>5, <1>6, <1>7, <1>8 DEF Apart

\* A promotion reserves its destinations and guards its sources.
LEMMA PromoteKeeps ==
    ASSUME IInv, NEW j \in Tasks, NEW T \in SUBSET Tokens, NEW inplace \in BOOLEAN,
           NEW pending \in BOOLEAN, Promote(j, T, inplace, pending)
    PROVE  IInv'
<1>1. /\ task[j] = Idle /\ T \in SUBSET Mapped /\ (pending => hooks[j] = {})
      /\ pendingTokens' = pendingTokens \cup T
      /\ UNCHANGED <<map, pins, vacated, closed, reader, load>>
  BY DEF Promote, Promotes
<1>2. PICK copied \in SUBSET T : \E S \in SUBSET Available :
               /\ (inplace \/ copied = T) /\ Chosen(T, copied, S)
               /\ \E f \in Bijections(copied, S) : \E dest, call :
                     dest = Destined(T, copied, f) /\ Begins(j, T, pending, S, dest, call)
  BY PromoteShape
<1>3. PICK S \in SUBSET Available :
               /\ (inplace \/ copied = T) /\ Chosen(T, copied, S)
               /\ \E f \in Bijections(copied, S) : \E dest, call :
                     dest = Destined(T, copied, f) /\ Begins(j, T, pending, S, dest, call)
  BY <1>2
<1>4. PICK f \in Bijections(copied, S) : \E dest, call :
               dest = Destined(T, copied, f) /\ Begins(j, T, pending, S, dest, call)
  BY <1>3
<1>5. PICK dest, call : dest = Destined(T, copied, f) /\ Begins(j, T, pending, S, dest, call)
  BY <1>4
<1>6. /\ \A t \in T : dest[t] \in Slots /\ dest[t] \notin Shared
      /\ \A t \in T : dest[t] \in S \/ dest[t] = map[t]
      /\ \A t, u \in T : dest[t] = dest[u] /\ dest[t] \in S => t = u
      /\ \A s \in S : \E t \in T : dest[t] = s
      /\ \A t \in T : dest[t] \notin S => ~Guarded(map[t]) /\ \A u \in Mapped \ {t} : map[u] # map[t]
      /\ \A s \in S : s \in Slots /\ s >= Floor /\ s \notin Valid /\ s \notin vacated
  <2>1. /\ T \in SUBSET Mapped /\ copied \in SUBSET T /\ S \in SUBSET Available
        /\ Chosen(T, copied, S) /\ f \in Bijections(copied, S)
        /\ dest = Destined(T, copied, f)
    BY <1>1, <1>3, <1>5
  <2>2. Apart(T, S, dest)
    BY <2>1, DestinedApart
  <2> QED BY <2>2 DEF Apart
<1>7. call = [at |-> "writing", kind |-> "promote", tokens |-> T,
              source |-> {<<t, map[t]>> : t \in T}, target |-> {<<t, dest[t]>> : t \in T},
              guarded |-> {map[t] : t \in T} \cup {dest[t] : t \in T},
              writing |-> {dest[t] : t \in T}, fresh |-> S]
  BY <1>5 DEF Begins
<1>8. /\ Reserve(j, call)
      /\ inflight' = IF pending THEN Plus(Plus(inflight, call.guarded), {map[t] : t \in T})
                     ELSE Plus(inflight, call.guarded)
      /\ hooks' = [hooks EXCEPT ![j] = IF pending THEN {map[t] : t \in T} ELSE @]
      /\ unused' = unused \ S
      /\ nextSlot' = Cardinality({s \in Slots : s < nextSlot \/ s \in S})
  BY <1>5 DEF Begins
<1>9. /\ call.at = "writing" /\ call.kind = "promote" /\ call.tokens = T
      /\ call.source = {<<t, map[t]>> : t \in T} /\ call.target = {<<t, dest[t]>> : t \in T}
      /\ call.guarded = {map[t] : t \in T} \cup {dest[t] : t \in T}
      /\ call.writing = {dest[t] : t \in T} /\ call.fresh = S
  BY <1>7
<1>10. \A t \in T : t \in Tokens /\ map[t] \in Slots /\ map[t] \in Valid
  BY <1>1 DEF IInv, TypeOK, Mapped, Valid
<1>11. call \in TaskType
  <2>1. /\ {<<t, map[t]>> : t \in T} \subseteq Tokens \X Slots
        /\ {<<t, dest[t]>> : t \in T} \subseteq Tokens \X Slots
        /\ {map[t] : t \in T} \subseteq Slots /\ {dest[t] : t \in T} \subseteq Slots
        /\ S \subseteq Slots
    BY <1>6, <1>10
  <2> QED BY <1>7, <2>1 DEF TaskType
<1>12. nextSlot' \in Floor .. MaxSlots /\ nextSlot =< nextSlot' /\ \A s \in S : s < nextSlot'
  BY <1>3, <1>8, FreshBound DEF Chosen
<1>13. /\ nextSlot \in Nat /\ nextSlot' \in Nat /\ nextSlot =< nextSlot'
       /\ UNCHANGED map /\ vacated' \subseteq vacated /\ unused' \subseteq unused
  BY <1>1, <1>8, <1>12, SlotAssumption DEF IInv, TypeOK
<1>14. task'[j] = call /\ \A i \in Tasks : i # j => task'[i] = task[i]
  BY <1>8 DEF Reserve, IInv, TypeOK
<1>15. ASSUME NEW s \in call.writing
       PROVE  /\ \A r \in Readers : s \notin reader[r]
              /\ \A i \in Tasks : task[i].at = "writing" => s \notin task[i].writing
              /\ s \notin unused' /\ s < nextSlot'
  <2>1. PICK t \in T : s = dest[t]
    BY <1>9
  <2>2. CASE s \in S
    <3>1. /\ \A r \in Readers : s \notin reader[r]
          /\ \A i \in Tasks : task[i].at = "writing" => s \notin task[i].writing
      BY <2>2, AvailableApart
    <3> QED BY <1>8, <1>12, <2>2, <3>1
  <2>3. CASE s \notin S
    <3>1. s = map[t] /\ s \in Slots /\ s \in Valid /\ ~Guarded(s)
      BY <1>6, <1>10, <2>1, <2>3
    <3>2. /\ \A r \in Readers : s \notin reader[r]
          /\ \A i \in Tasks : s \notin task[i].writing
      BY <3>1, HoleApart
    <3>3. s \notin unused /\ s < nextSlot
      BY <3>1 DEF IInv, ArenaOK
    <3>4. s < nextSlot'
      BY <1>13, <3>1, <3>3 DEF Slots
    <3> QED BY <1>8, <3>2, <3>3, <3>4
  <2> QED BY <2>2, <2>3
<1>16. CountsExact' /\ CountsTyped'
  <2> DEFINE source == {map[t] : t \in T}
             more == [s \in Slots |-> IF pending THEN One(s, source) ELSE 0]
  <2>1. more \in [Slots -> Nat]
    BY OneIsNat
  <2>2. inflight' = [s \in Slots |-> inflight[s] + One(s, call.guarded) + more[s]]
    <3>1. inflight \in [Slots -> Nat]
      BY DEF IInv, TypeOK
    <3>2. Plus(inflight, call.guarded) = [s \in Slots |-> inflight[s] + One(s, call.guarded)]
      BY <3>1 DEF Plus, One
    <3>3. CASE pending
      <4>1. Plus(Plus(inflight, call.guarded), source)
            = [s \in Slots |-> inflight[s] + One(s, call.guarded) + One(s, source)]
        BY <3>1, <3>2 DEF Plus, One
      <4> QED BY <1>8, <3>3, <4>1
    <3>4. CASE ~pending
      <4>1. \A s \in Slots : inflight[s] + One(s, call.guarded)
                             = inflight[s] + One(s, call.guarded) + more[s]
        BY <3>1, <3>4 DEF One
      <4> QED BY <1>8, <3>2, <3>4, <4>1
    <3> QED BY <3>3, <3>4
  <2>3. ASSUME NEW s \in Slots
        PROVE  Among(hooks', Tasks, s) = Among(hooks, Tasks, s) + more[s]
    <3>1. CASE pending
      <4>1. /\ hooks[j] = {} /\ hooks'[j] = source
            /\ \A i \in Tasks : i # j => hooks'[i] = hooks[i]
        BY <1>1, <1>8, <3>1 DEF IInv, TypeOK
      <4>2. ASSUME NEW g, \A i \in Tasks : i # j => g[i] = hooks[i]
            PROVE  Among(g, Tasks, s) = Among(hooks, Tasks, s) + One(s, g[j])
        BY <4>1, <4>2, HolderGains, FiniteAssumption
      <4>3. Among(hooks', Tasks, s) = Among(hooks, Tasks, s) + One(s, source)
        BY <4>1, <4>2
      <4> QED BY <3>1, <4>3
    <3>2. CASE ~pending
      <4>1. hooks' = hooks
        BY <1>8, <3>2 DEF IInv, TypeOK
      <4>2. Among(hooks, Tasks, s) \in Nat
        BY NoHolder, FiniteAssumption
      <4> QED BY <3>2, <4>1, <4>2
    <3> QED BY <3>1, <3>2
  <2>4. /\ task' = [task EXCEPT ![j] = call] /\ writes' = Plus(writes, call.writing)
        /\ UNCHANGED <<pins, reader>>
    BY <1>1, <1>8 DEF Reserve
  <2> HIDE DEF more
  <2> QED BY <1>1, <1>11, <2>1, <2>2, <2>3, <2>4, CountsGain
<1>17. TypeOK'
  <2>1. task' \in [Tasks -> TaskType] /\ holds' \in [Slots -> SUBSET Tokens]
    BY <1>8, <1>11 DEF Reserve, IInv, TypeOK
  <2>2. hooks' \in [Tasks -> SUBSET Slots]
    <3>1. {map[t] : t \in T} \subseteq Slots
      BY <1>10
    <3> QED BY <1>8, <3>1 DEF IInv, TypeOK
  <2>3. unused' \subseteq Slots /\ pendingTokens' \subseteq Tokens
    BY <1>1, <1>8 DEF IInv, TypeOK
  <2> QED BY <1>1, <1>12, <1>16, <2>1, <2>2, <2>3 DEF IInv, TypeOK, CountsTyped
<1>18. PromotionOK(call)
  <2>1. /\ \A t \in T : /\ <<t, dest[t]>> \in call.target /\ <<t, map[t]>> \in call.source
                       /\ dest[t] \in call.writing /\ map[t] \in call.guarded
        /\ \A p \in call.target : \E t \in T : p = <<t, dest[t]>>
        /\ \A p \in call.source : \E t \in T : p = <<t, map[t]>>
        /\ \A s \in call.writing : \E t \in T : s = dest[t]
        /\ call.tokens = T /\ call.fresh = S
    BY <1>9
  <2>2. ASSUME NEW p \in call.target
        PROVE  /\ p[1] \in call.tokens /\ p[2] \in call.writing
               /\ p[2] \in call.fresh \/ p \in call.source
    <3>1. PICK t \in T : p = <<t, dest[t]>>
      BY <2>1
    <3>2. p[1] = t /\ p[2] = dest[t]
      BY <3>1
    <3>3. CASE dest[t] \in S
      BY <2>1, <3>2, <3>3
    <3>4. CASE dest[t] = map[t]
      BY <2>1, <3>1, <3>2, <3>4
    <3> QED BY <1>6, <3>3, <3>4
  <2>3. ASSUME NEW t \in call.tokens
        PROVE  (\E p \in call.target : p[1] = t) /\ \E p \in call.source : p[1] = t
    <3>1. <<t, dest[t]>> \in call.target /\ <<t, map[t]>> \in call.source
      BY <2>1
    <3>2. <<t, dest[t]>>[1] = t /\ <<t, map[t]>>[1] = t
      OBVIOUS
    <3> QED BY <3>1, <3>2
  <2>4. ASSUME NEW p \in call.target, NEW q \in call.target
        PROVE  /\ p[1] = q[1] => p = q
               /\ p[2] = q[2] /\ p[2] \in call.fresh => p = q
    <3>1. PICK t \in T : p = <<t, dest[t]>>
      BY <2>1
    <3>2. PICK u \in T : q = <<u, dest[u]>>
      BY <2>1
    <3>3. p[1] = t /\ p[2] = dest[t] /\ q[1] = u /\ q[2] = dest[u]
      BY <3>1, <3>2
    <3>4. p[2] = q[2] /\ p[2] \in call.fresh => t = u
      BY <1>6, <2>1, <3>3
    <3> QED BY <3>1, <3>2, <3>3, <3>4
  <2>5. ASSUME NEW s \in call.writing PROVE \E p \in call.target : p[2] = s
    <3>1. PICK t \in T : s = dest[t]
      BY <2>1
    <3>2. <<t, dest[t]>> \in call.target /\ <<t, dest[t]>>[2] = s
      BY <2>1, <3>1
    <3> QED BY <3>2
  <2>6. ASSUME NEW s \in call.fresh PROVE s \in call.writing /\ s >= Floor
    <3>1. s \in S
      BY <2>1
    <3>2. PICK t \in T : dest[t] = s
      BY <1>6, <3>1
    <3> QED BY <1>6, <2>1, <3>1, <3>2
  <2>7. ASSUME NEW p \in call.source PROVE p[2] \in call.guarded
    <3>1. PICK t \in T : p = <<t, map[t]>>
      BY <2>1
    <3> QED BY <2>1, <3>1
  <2>8. TargetOK(call)
    <3>1. \A p \in call.target : p[1] \in call.tokens /\ p[2] \in call.writing
      BY <2>2
    <3>2. \A t \in call.tokens : \E p \in call.target : p[1] = t
      BY <2>3
    <3>3. \A p, q \in call.target : p[1] = q[1] => p = q
      BY <2>4
    <3> QED BY <3>1, <3>2, <3>3, Zenon DEF TargetOK
  <2> QED BY <2>2, <2>3, <2>4, <2>5, <2>6, <2>7, <2>8 DEF PromotionOK
<1>19. CallsOK'
  <2>1. ASSUME NEW i \in Tasks, i # j
        PROVE  task'[i] = task[i] /\ Promoting(i)' = Promoting(i) /\ Decoding(i)' = Decoding(i)
    BY <1>14, <2>1 DEF Promoting, Decoding
  <2>2. ~Decoding(j)'
    BY <1>9, <1>14 DEF Decoding
  <2>3. call.writing \cap Shared = {} /\ call.writing \subseteq call.guarded
    BY <1>6, <1>9
  <2> QED BY <1>9, <1>14, <1>18, <2>1, <2>2, <2>3 DEF IInv, CallsOK
<1>20. /\ HoldsOK'
       /\ \A i, k \in Tasks :
            i # k /\ task'[i].at = "writing" /\ task'[k].at = "writing" =>
                task'[i].writing \cap task'[k].writing = {}
       /\ \A i \in Tasks : task'[i].at = "writing" =>
            /\ task'[i].writing \cap unused' = {}
            /\ \A s \in task'[i].writing : s < nextSlot'
  <2>1. UNCHANGED <<map, closed, reader>> /\ call.writing \subseteq Slots
    BY <1>1, <1>6, <1>9
  <2> QED BY <1>1, <1>8, <1>9, <1>13, <1>15, <2>1, ReserveKeeps
<1>21. ArenaOK'
  BY <1>13, ArenaShrinks
<1>22. OwnOK'
  <2>1. UNCHANGED <<Valid, Mapped>>
    BY <1>1 DEF Valid, Mapped
  <2>2. /\ \A i \in Tasks : i # j /\ Promoting(i)' =>
                /\ (task[i].fresh \cap (Valid \cup vacated) = {})'
                /\ (\A u \in Mapped : map[u] \in task[i].writing => <<u, map[u]>> \in task[i].target)'
        /\ \A i \in Tasks : i # j /\ Decoding(i)' =>
                /\ (task[i].writing \cap Valid = {})'
                /\ (\A q \in task[i].target : q[2] \notin vacated)'
    BY <1>13, <1>14, OthersOwn
  <2>3. ~Decoding(j)'
    BY <1>9, <1>14 DEF Decoding
  <2>4. call.fresh \cap (Valid \cup vacated) = {}
    BY <1>6, <1>9
  <2>5. ASSUME NEW u \in Mapped, map[u] \in call.writing PROVE <<u, map[u]>> \in call.target
    <3>1. PICK t \in T : map[u] = dest[t]
      BY <1>9, <2>5
    <3>2. map[u] \in Valid
      BY DEF Valid
    <3>3. dest[t] \notin S /\ dest[t] = map[t]
      BY <1>6, <3>1, <3>2
    <3>4. u = t
      BY <1>6, <3>1, <3>3
    <3> QED BY <1>9, <3>1, <3>4
  <2>6. /\ (task[j].fresh \cap (Valid \cup vacated) = {})'
        /\ (\A u \in Mapped : map[u] \in task[j].writing => <<u, map[u]>> \in task[j].target)'
    BY <1>1, <1>14, <2>1, <2>4, <2>5
  <2> QED BY <1>20, <2>2, <2>3, <2>6 DEF OwnOK
<1> QED BY <1>16, <1>17, <1>19, <1>20, <1>21, <1>22 DEF IInv

\* A refused promotion gives its fresh slots back.
LEMMA PublishRefusedKeeps ==
    ASSUME IInv, NEW j \in Tasks, PublishRefused(j)
    PROVE  IInv'
<1>1. /\ task[j].at = "writing" /\ task' = [task EXCEPT ![j].at = "releasing"]
      /\ unused' = unused \cup task[j].fresh
      /\ Rewritten(task[j].writing \ task[j].fresh)
      /\ UNCHANGED <<map, counts, pendingTokens, vacated, nextSlot, closed, reader, load, hooks>>
      /\ Promoting(j)
  BY DEF PublishRefused, Promoting
<1>2. /\ task' \in [Tasks -> TaskType]
      /\ task'[j].at = "releasing" /\ task'[j].writing = task[j].writing
      /\ task'[j].guarded = task[j].guarded
      /\ \A i \in Tasks : i # j => task'[i] = task[i]
      /\ CallsOK'
  BY <1>1, LeaveCalls
<1>3. /\ task[j].fresh \subseteq task[j].writing /\ \A s \in task[j].fresh : s >= Floor
      /\ task[j].fresh \cap (Valid \cup vacated) = {}
      /\ \A s \in task[j].writing : s < nextSlot
      /\ task[j].writing \subseteq Slots /\ task[j].fresh \subseteq Slots
  BY <1>1 DEF IInv, CallsOK, PromotionOK, OwnOK, TypeOK, TaskType
<1>4. CountsExact'
  <2>1. /\ UNCHANGED <<pins, inflight, writes, reader, hooks>>
        /\ \A i \in Tasks : /\ task'[i].writing = task[i].writing
                            /\ task'[i].guarded = task[i].guarded
    BY <1>1, <1>2 DEF counts
  <2> QED BY <2>1, CountsKeep
<1>5. TypeOK'
  <2>1. holds' \in [Slots -> SUBSET Tokens] /\ unused' \subseteq Slots
    BY <1>1, <1>3 DEF IInv, TypeOK, Rewritten, TokensAt, Mapped
  <2> QED BY <1>1, <1>2, <2>1 DEF IInv, TypeOK, counts
<1>6. UNCHANGED <<Valid, Mapped, map, vacated, nextSlot, closed, reader>>
  BY <1>1 DEF Valid, Mapped
<1>7. ArenaOK'
  BY <1>1, <1>3, <1>6 DEF IInv, ArenaOK
<1>8. ASSUME NEW i \in Tasks, task'[i].at = "writing"
      PROVE  i # j /\ task'[i] = task[i]
  BY <1>2, <1>8
<1>9. OwnOK'
  <2>1. \A i, k \in Tasks :
          i # k /\ task'[i].at = "writing" /\ task'[k].at = "writing" =>
              task'[i].writing \cap task'[k].writing = {}
    BY <1>8 DEF IInv, OwnOK
  <2>2. ASSUME NEW i \in Tasks, task'[i].at = "writing"
        PROVE  task'[i].writing \cap unused' = {} /\ \A s \in task'[i].writing : s < nextSlot'
    <3>1. i # j /\ task'[i] = task[i] /\ task[i].at = "writing"
      BY <1>8, <2>2
    <3>2. /\ task[i].writing \cap unused = {} /\ \A s \in task[i].writing : s < nextSlot
          /\ task[i].writing \cap task[j].writing = {}
      BY <1>1, <3>1 DEF IInv, OwnOK
    <3> QED BY <1>1, <1>3, <1>6, <3>1, <3>2
  <2>3. /\ \A i \in Tasks : i # j /\ Promoting(i)' =>
                /\ (task[i].fresh \cap (Valid \cup vacated) = {})'
                /\ (\A u \in Mapped : map[u] \in task[i].writing => <<u, map[u]>> \in task[i].target)'
        /\ \A i \in Tasks : i # j /\ Decoding(i)' =>
                /\ (task[i].writing \cap Valid = {})'
                /\ (\A q \in task[i].target : q[2] \notin vacated)'
    <3>1. UNCHANGED map /\ vacated' \subseteq vacated
      BY <1>6
    <3> QED BY <1>2, <3>1, OthersOwn
  <2>4. ~Promoting(j)' /\ ~Decoding(j)'
    BY <1>2 DEF Promoting, Decoding
  <2> QED BY <2>1, <2>2, <2>3, <2>4 DEF OwnOK
<1>10. HoldsOK'
  <2>1. ASSUME NEW r \in Readers, NEW s \in reader'[r]
        PROVE  /\ \A i \in Tasks : s \notin task'[i].writing
               /\ holds'[s] # {} /\ s \notin unused' /\ s < nextSlot'
    <3>1. s \in reader[r] /\ s \in Slots
      BY <1>1 DEF IInv, TypeOK
    <3>2. /\ \A i \in Tasks : s \notin task[i].writing
          /\ holds[s] # {} /\ s \notin unused /\ s < nextSlot
      BY <3>1 DEF IInv, HoldsOK
    <3>3. holds'[s] = holds[s] /\ s \notin unused'
      BY <1>1, <1>3, <3>1, <3>2 DEF Rewritten
    <3>4. \A i \in Tasks : s \notin task'[i].writing
      BY <1>2, <3>2
    <3> QED BY <1>6, <3>2, <3>3, <3>4
  <2>2. ASSUME ~closed', NEW t \in Mapped'
        PROVE  \/ t \in holds'[map'[t]]
               \/ \E i \in Tasks : task'[i].at = "writing" /\ map'[t] \in task'[i].writing
    <3>1. ~closed /\ t \in Mapped /\ map'[t] = map[t] /\ map[t] \in Slots /\ map[t] \in Valid
      BY <1>6, <2>2 DEF Mapped, Valid, IInv, TypeOK
    <3>2. CASE map[t] \in task[j].writing
      <4>1. t \in TokensAt(map[t]) /\ map[t] \notin task[j].fresh
        BY <1>3, <3>1 DEF TokensAt
      <4> QED BY <1>1, <3>1, <3>2, <4>1 DEF Rewritten
    <3>3. CASE map[t] \notin task[j].writing
      <4>1. holds'[map[t]] = holds[map[t]]
        BY <1>1, <3>1, <3>3 DEF Rewritten
      <4>2. \/ t \in holds[map[t]]
            \/ \E i \in Tasks : task[i].at = "writing" /\ map[t] \in task[i].writing
        BY <3>1 DEF IInv, HoldsOK
      <4>3. ASSUME NEW i \in Tasks, task[i].at = "writing", map[t] \in task[i].writing
            PROVE  task'[i].at = "writing" /\ map'[t] \in task'[i].writing
        BY <1>2, <3>1, <3>3, <4>3
      <4> QED BY <3>1, <4>1, <4>2, <4>3
    <3> QED BY <3>2, <3>3
  <2> QED BY <2>1, <2>2 DEF HoldsOK
<1> QED BY <1>2, <1>4, <1>5, <1>7, <1>9, <1>10 DEF IInv

\* The moved tokens map to their target, the others to where they were.
LEMMA MovedTo ==
    ASSUME IInv, NEW j \in Tasks, TargetOK(task[j]), Moved(j)
    PROVE  /\ map' \in [Tokens -> Slots \cup {None}] /\ holds' \in [Slots -> SUBSET Tokens]
           /\ \A t \in task[j].tokens : /\ t \in Tokens /\ map'[t] \in Slots
                                        /\ map'[t] \in task[j].writing
                                        /\ <<t, map'[t]>> \in task[j].target
           /\ \A t \in Tokens : t \notin task[j].tokens => map'[t] = map[t]
           /\ \A s \in Slots : s \notin task[j].writing => holds'[s] = holds[s]
           /\ \A t \in task[j].tokens : t \in holds'[map'[t]]
           /\ Mapped' = Mapped \cup task[j].tokens
<1>1. task[j].target \subseteq Tokens \X Slots /\ task[j].tokens \subseteq Tokens
      /\ task[j].writing \subseteq Slots
  BY DEF IInv, TypeOK, TaskType
<1>2. map' = [t \in Tokens |-> IF t \in task[j].tokens
                               THEN (CHOOSE p \in task[j].target : p[1] = t)[2] ELSE map[t]]
  BY DEF Moved
<1>3. ASSUME NEW t \in task[j].tokens
      PROVE  /\ t \in Tokens /\ map'[t] \in Slots /\ map'[t] \in task[j].writing
             /\ <<t, map'[t]>> \in task[j].target
  <2> DEFINE chosen == CHOOSE p \in task[j].target : p[1] = t
  <2>1. chosen \in task[j].target /\ chosen[1] = t
    BY DEF TargetOK
  <2>2. t \in Tokens /\ map'[t] = chosen[2]
    BY <1>1, <1>2
  <2> HIDE DEF chosen
  <2>3. chosen \in Tokens \X Slots /\ chosen = <<chosen[1], chosen[2]>>
    BY <1>1, <2>1
  <2>4. chosen[2] \in Slots /\ chosen[2] \in task[j].writing
    BY <2>1, <2>3 DEF TargetOK
  <2> QED BY <2>1, <2>2, <2>3, <2>4
<1>4. \A t \in Tokens : t \notin task[j].tokens => map'[t] = map[t]
  BY <1>2
<1>5. map' \in [Tokens -> Slots \cup {None}]
  <2>1. \A t \in Tokens : map'[t] \in Slots \cup {None}
    BY <1>3, <1>4 DEF IInv, TypeOK
  <2> QED BY <1>2, <2>1
<1>6. holds' = [s \in Slots |-> IF s \in task[j].writing
                                THEN {t \in task[j].tokens : map'[t] = s} ELSE holds[s]]
  BY DEF Moved
<1>7. /\ holds' \in [Slots -> SUBSET Tokens]
      /\ \A s \in Slots : s \notin task[j].writing => holds'[s] = holds[s]
      /\ \A t \in task[j].tokens : t \in holds'[map'[t]]
  BY <1>1, <1>3, <1>6 DEF IInv, TypeOK
<1>8. Mapped' = Mapped \cup task[j].tokens
  <2>1. \A t \in task[j].tokens : t \in Tokens /\ map'[t] # None
    <3>1. None \notin Slots
      BY NoneAssumption DEF Slots
    <3> QED BY <1>3, <3>1
  <2> QED BY <1>4, <2>1 DEF Mapped
<1> QED BY <1>3, <1>4, <1>5, <1>7, <1>8

\* What a published call changes for the others, and for the readers.
LEMMA PublishedHolds ==
    ASSUME IInv, NEW j \in Tasks, task[j].at = "writing", TargetOK(task[j]), Moved(j),
           task' = [task EXCEPT ![j].at = "releasing"],
           UNCHANGED <<unused, nextSlot, closed, reader>>,
           \A u \in Mapped : map[u] \in task[j].writing => u \in task[j].tokens
    PROVE  HoldsOK'
<1>1. /\ \A t \in task[j].tokens : /\ t \in Tokens /\ map'[t] \in Slots
                                   /\ map'[t] \in task[j].writing
      /\ \A t \in Tokens : t \notin task[j].tokens => map'[t] = map[t]
      /\ \A s \in Slots : s \notin task[j].writing => holds'[s] = holds[s]
      /\ \A t \in task[j].tokens : t \in holds'[map'[t]]
      /\ Mapped' = Mapped \cup task[j].tokens
  BY MovedTo
<1>2. /\ task'[j].at = "releasing" /\ task'[j].writing = task[j].writing
      /\ \A i \in Tasks : i # j => task'[i] = task[i]
  BY LeaveCalls
<1>3. ASSUME NEW r \in Readers, NEW s \in reader'[r]
      PROVE  /\ \A i \in Tasks : s \notin task'[i].writing
             /\ holds'[s] # {} /\ s \notin unused' /\ s < nextSlot'
  <2>1. s \in reader[r] /\ s \in Slots
    BY DEF IInv, TypeOK
  <2>2. /\ \A i \in Tasks : s \notin task[i].writing
        /\ holds[s] # {} /\ s \notin unused /\ s < nextSlot
    BY <2>1 DEF IInv, HoldsOK
  <2>3. \A i \in Tasks : s \notin task'[i].writing
    BY <1>2, <2>2
  <2> QED BY <1>1, <2>1, <2>2, <2>3
<1>4. ASSUME ~closed', NEW t \in Mapped'
      PROVE  \/ t \in holds'[map'[t]]
             \/ \E i \in Tasks : task'[i].at = "writing" /\ map'[t] \in task'[i].writing
  <2>1. CASE t \in task[j].tokens
    BY <1>1, <2>1
  <2>2. CASE t \notin task[j].tokens
    <3>1. t \in Mapped /\ map'[t] = map[t] /\ map[t] \in Slots /\ ~closed
      BY <1>1, <1>4, <2>2, NoneAssumption DEF Mapped, IInv, TypeOK
    <3>2. map[t] \notin task[j].writing
      BY <2>2, <3>1
    <3>3. holds'[map[t]] = holds[map[t]]
      BY <1>1, <3>1, <3>2
    <3>4. \/ t \in holds[map[t]]
          \/ \E i \in Tasks : task[i].at = "writing" /\ map[t] \in task[i].writing
      BY <3>1 DEF IInv, HoldsOK
    <3>5. ASSUME NEW i \in Tasks, task[i].at = "writing", map[t] \in task[i].writing
          PROVE  task'[i].at = "writing" /\ map'[t] \in task'[i].writing
      BY <1>2, <3>1, <3>2, <3>5
    <3> QED BY <3>1, <3>3, <3>4, <3>5
  <2> QED BY <2>1, <2>2
<1> QED BY <1>3, <1>4 DEF HoldsOK

\* The other calls keep what is theirs: the new mapping only adds what j wrote.
LEMMA PublishedOwn ==
    ASSUME IInv, NEW j \in Tasks, task[j].at = "writing", TargetOK(task[j]), Moved(j),
           task' = [task EXCEPT ![j].at = "releasing"], UNCHANGED <<unused, nextSlot>>,
           vacated' \subseteq vacated \cup Valid,
           Valid' \subseteq Valid \cup task[j].writing
    PROVE  OwnOK'
<1>1. /\ \A t \in task[j].tokens : map'[t] \in task[j].writing
      /\ \A t \in Tokens : t \notin task[j].tokens => map'[t] = map[t]
      /\ Mapped' = Mapped \cup task[j].tokens
  BY MovedTo
<1>2. /\ task'[j].at = "releasing"
      /\ \A i \in Tasks : i # j => task'[i] = task[i]
  BY LeaveCalls
<1>3. ASSUME NEW i \in Tasks, task'[i].at = "writing"
      PROVE  i # j /\ task'[i] = task[i] /\ task[i].writing \cap task[j].writing = {}
  <2>1. i # j /\ task'[i] = task[i]
    BY <1>2, <1>3
  <2> QED BY <1>3, <2>1 DEF IInv, OwnOK
<1>4. \A i, k \in Tasks :
          i # k /\ task'[i].at = "writing" /\ task'[k].at = "writing" =>
              task'[i].writing \cap task'[k].writing = {}
  BY <1>3 DEF IInv, OwnOK
<1>5. \A i \in Tasks : task'[i].at = "writing" =>
          /\ task'[i].writing \cap unused' = {}
          /\ \A s \in task'[i].writing : s < nextSlot'
  BY <1>3 DEF IInv, OwnOK
<1>6. ASSUME NEW i \in Tasks, Promoting(i)'
      PROVE  /\ (task[i].fresh \cap (Valid \cup vacated) = {})'
             /\ (\A u \in Mapped : map[u] \in task[i].writing => <<u, map[u]>> \in task[i].target)'
  <2>1. task'[i].at = "writing"
    BY <1>6 DEF Promoting
  <2>2. task'[i] = task[i] /\ Promoting(i) /\ task[i].writing \cap task[j].writing = {}
    BY <1>3, <1>6, <2>1 DEF Promoting
  <2>3. /\ task[i].fresh \cap (Valid \cup vacated) = {} /\ task[i].fresh \subseteq task[i].writing
        /\ \A u \in Mapped : map[u] \in task[i].writing => <<u, map[u]>> \in task[i].target
    BY <2>2 DEF IInv, OwnOK, CallsOK, PromotionOK
  <2>4. task[i].fresh \cap (Valid' \cup vacated') = {}
    BY <2>2, <2>3
  <2>5. ASSUME NEW u \in Mapped', map'[u] \in task[i].writing PROVE <<u, map'[u]>> \in task[i].target
    <3>1. u \notin task[j].tokens
      BY <1>1, <2>2, <2>5
    <3>2. u \in Mapped /\ map'[u] = map[u]
      BY <1>1, <3>1 DEF Mapped
    <3> QED BY <2>3, <2>5, <3>2
  <2> QED BY <2>2, <2>4, <2>5
<1>7. ASSUME NEW i \in Tasks, Decoding(i)'
      PROVE  /\ (task[i].writing \cap Valid = {})'
             /\ (\A p \in task[i].target : p[2] \notin vacated)'
  <2>1. task'[i].at = "writing"
    BY <1>7 DEF Decoding
  <2>2. task'[i] = task[i] /\ Decoding(i) /\ task[i].writing \cap task[j].writing = {}
    BY <1>3, <1>7, <2>1 DEF Decoding
  <2>3. /\ task[i].writing \cap Valid = {} /\ \A p \in task[i].target : p[2] \notin vacated
        /\ \A p \in task[i].target : p[2] \in task[i].writing
    BY <2>2 DEF IInv, OwnOK, CallsOK, TargetOK
  <2>4. task[i].writing \cap Valid' = {}
    BY <2>2, <2>3
  <2>5. \A p \in task[i].target : p[2] \notin vacated'
    BY <2>3
  <2> QED BY <2>2, <2>4, <2>5
<1> QED BY <1>4, <1>5, <1>6, <1>7 DEF OwnOK

\* A published promotion moves its tokens and frees the sources nobody maps.
LEMMA PublishKeeps ==
    ASSUME IInv, NEW j \in Tasks, Publish(j)
    PROVE  IInv'
<1>1. /\ task[j].at = "writing" /\ task' = [task EXCEPT ![j].at = "releasing"]
      /\ Moved(j) /\ vacated' = vacated \cup Freed(j)
      /\ \A p \in task[j].source : map[p[1]] = p[2]
      /\ UNCHANGED <<counts, pendingTokens, unused, nextSlot, closed, reader, load, hooks>>
      /\ Promoting(j)
  BY DEF Publish, StillMine, Promoting
<1>2. /\ task' \in [Tasks -> TaskType]
      /\ task'[j].at = "releasing" /\ task'[j].writing = task[j].writing
      /\ task'[j].guarded = task[j].guarded
      /\ \A i \in Tasks : i # j => task'[i] = task[i]
      /\ CallsOK'
  BY <1>1, LeaveCalls
<1>3. PromotionOK(task[j]) /\ TargetOK(task[j])
  BY <1>1 DEF IInv, CallsOK, PromotionOK
<1>4. /\ task[j].fresh \cap (Valid \cup vacated) = {}
      /\ task[j].writing \cap unused = {} /\ \A s \in task[j].writing : s < nextSlot
      /\ \A u \in Mapped : map[u] \in task[j].writing => <<u, map[u]>> \in task[j].target
  BY <1>1 DEF IInv, OwnOK
<1>5. /\ map' \in [Tokens -> Slots \cup {None}] /\ holds' \in [Slots -> SUBSET Tokens]
      /\ \A t \in task[j].tokens : /\ t \in Tokens /\ map'[t] \in Slots
                                   /\ map'[t] \in task[j].writing
                                   /\ <<t, map'[t]>> \in task[j].target
      /\ \A t \in Tokens : t \notin task[j].tokens => map'[t] = map[t]
      /\ Mapped' = Mapped \cup task[j].tokens
  BY <1>1, <1>3, MovedTo
<1>6. None \notin Slots
  BY NoneAssumption DEF Slots
<1>7. ASSUME NEW p \in task[j].source
      PROVE  p[1] \in Mapped /\ map[p[1]] = p[2] /\ p[2] \in Valid
  <2>1. p \in Tokens \X Slots
    BY DEF IInv, TypeOK, TaskType
  <2>2. p[1] \in Mapped
    BY <1>1, <1>6, <2>1 DEF Mapped
  <2> QED BY <1>1, <2>2 DEF Valid
<1>8. Mapped' = Mapped
  <2>1. ASSUME NEW t \in task[j].tokens PROVE t \in Mapped
    <3>1. PICK p \in task[j].source : p[1] = t
      BY <1>3 DEF PromotionOK
    <3> QED BY <1>7, <3>1
  <2> QED BY <1>5, <2>1
\* A token moves to a fresh slot of its own, or stays.
<1>9. ASSUME NEW t \in task[j].tokens
      PROVE  map'[t] \in task[j].fresh \/ map'[t] = map[t]
  <2>1. <<t, map'[t]>> \in task[j].target
    BY <1>5
  <2>2. CASE <<t, map'[t]>>[2] \in task[j].fresh
    BY <2>2
  <2>3. CASE <<t, map'[t]>> \in task[j].source
    <3>1. map[<<t, map'[t]>>[1]] = <<t, map'[t]>>[2]
      BY <1>1, <2>3
    <3> QED BY <3>1
  <2> QED BY <1>3, <2>1, <2>2, <2>3 DEF PromotionOK
<1>10. ASSUME NEW t \in Mapped
       PROVE  \/ map'[t] = map[t]
              \/ t \in task[j].tokens /\ map'[t] \in task[j].fresh
  BY <1>5, <1>9 DEF Mapped
<1>11. Freed(j) \subseteq Valid /\ Freed(j) \cap Valid' = {} /\ Freed(j) \cap Shared = {}
  <2>1. Freed(j) \subseteq Valid
    BY <1>7 DEF Freed
  <2>2. Valid' = {map'[t] : t \in Mapped}
    BY <1>8 DEF Valid
  <2> QED BY <2>1, <2>2 DEF Freed
<1>12. ASSUME NEW s \in Valid' PROVE s \in Valid \/ s \in task[j].fresh
  <2>1. PICK t \in Mapped : s = map'[t]
    BY <1>8 DEF Valid
  <2> QED BY <1>10, <2>1 DEF Valid
<1>13. task[j].fresh \subseteq task[j].writing /\ task[j].writing \subseteq Slots
  BY <1>3 DEF PromotionOK, IInv, TypeOK, TaskType
<1>14. CountsExact'
  <2>1. /\ UNCHANGED <<pins, inflight, writes, reader, hooks>>
        /\ \A i \in Tasks : /\ task'[i].writing = task[i].writing
                            /\ task'[i].guarded = task[i].guarded
    BY <1>1, <1>2 DEF counts
  <2> QED BY <2>1, CountsKeep
<1>15. TypeOK'
  <2>1. Valid \subseteq Slots
    BY DEF IInv, TypeOK, Valid, Mapped
  <2>2. vacated' \subseteq Slots
    BY <1>1, <1>11, <2>1 DEF IInv, TypeOK
  <2> QED BY <1>1, <1>2, <1>5, <2>2 DEF IInv, TypeOK, counts
<1>16. ArenaOK'
  <2>1. vacated' \cap Valid' = {}
    BY <1>1, <1>4, <1>11, <1>12 DEF IInv, ArenaOK
  <2>2. unused' \cap (Valid' \cup vacated') = {}
    BY <1>1, <1>4, <1>11, <1>12, <1>13 DEF IInv, ArenaOK
  <2>3. \A s \in Valid' \cup vacated' \cup unused' : s < nextSlot'
    BY <1>1, <1>4, <1>11, <1>12, <1>13 DEF IInv, ArenaOK
  <2>4. ASSUME NEW t \in Mapped', NEW u \in Mapped', t # u, map'[t] = map'[u]
        PROVE  {t, u} \subseteq DOMAIN Initial /\ map'[t] = Initial[t] /\ map'[u] = Initial[u]
    <3>1. t \in Mapped /\ u \in Mapped /\ map[t] \in Valid /\ map[u] \in Valid
      BY <1>8 DEF Valid
    <3>2. CASE map'[t] \in task[j].fresh
      <4>1. map'[t] # map[t] /\ map'[u] # map[u]
        BY <1>4, <2>4, <3>1, <3>2
      <4>2. t \in task[j].tokens /\ u \in task[j].tokens
        BY <1>10, <3>1, <4>1
      <4>3. /\ <<t, map'[t]>> \in task[j].target /\ <<u, map'[u]>> \in task[j].target
            /\ <<t, map'[t]>>[2] = <<u, map'[u]>>[2] /\ <<t, map'[t]>>[2] \in task[j].fresh
        BY <1>5, <2>4, <3>2, <4>2
      <4>4. <<t, map'[t]>> = <<u, map'[u]>>
        BY <1>3, <4>3 DEF PromotionOK
      <4> QED BY <2>4, <4>4
    <3>3. CASE map'[t] \notin task[j].fresh
      <4>1. map'[t] = map[t] /\ map'[u] = map[u]
        BY <1>10, <2>4, <3>1, <3>3
      <4> QED BY <2>4, <3>1, <4>1 DEF IInv, ArenaOK
    <3> QED BY <3>2, <3>3
  <2>5. vacated' \cap Shared = {} /\ \A s \in unused' : s >= Floor
    BY <1>1, <1>11 DEF IInv, ArenaOK
  <2> QED BY <2>1, <2>2, <2>3, <2>4, <2>5 DEF ArenaOK
<1>17. OwnOK'
  <2>1. /\ UNCHANGED <<unused, nextSlot>> /\ vacated' \subseteq vacated \cup Valid
        /\ Valid' \subseteq Valid \cup task[j].writing
    BY <1>1, <1>11, <1>12, <1>13
  <2> QED BY <1>1, <1>3, <2>1, PublishedOwn
<1>18. HoldsOK'
  <2>1. UNCHANGED <<unused, nextSlot, closed, reader>>
    BY <1>1
  <2>2. ASSUME NEW u \in Mapped, map[u] \in task[j].writing PROVE u \in task[j].tokens
    <3>1. <<u, map[u]>> \in task[j].target
      BY <1>4, <2>2
    <3>2. <<u, map[u]>>[1] \in task[j].tokens
      BY <1>3, <3>1 DEF TargetOK
    <3> QED BY <3>2
  <2> QED BY <1>1, <1>3, <2>1, <2>2, PublishedHolds
<1> QED BY <1>2, <1>14, <1>15, <1>16, <1>17, <1>18 DEF IInv

\* A published decode maps its token.
LEMMA DecodeDoneKeeps ==
    ASSUME IInv, NEW j \in Tasks, DecodeDone(j)
    PROVE  IInv'
<1>1. /\ task[j].at = "writing" /\ task' = [task EXCEPT ![j].at = "releasing"] /\ Moved(j)
      /\ UNCHANGED <<counts, pendingTokens, free, closed, reader, load, hooks>>
      /\ Decoding(j)
  BY DEF DecodeDone, Decoding
<1>2. /\ task' \in [Tasks -> TaskType]
      /\ task'[j].at = "releasing" /\ task'[j].writing = task[j].writing
      /\ task'[j].guarded = task[j].guarded
      /\ \A i \in Tasks : i # j => task'[i] = task[i]
      /\ CallsOK'
  BY <1>1, LeaveCalls
<1>3. TargetOK(task[j]) /\ \A t, u \in task[j].tokens : t = u
  BY <1>1 DEF IInv, CallsOK
<1>4. /\ task[j].writing \cap Valid = {} /\ \A p \in task[j].target : p[2] \notin vacated
      /\ task[j].writing \cap unused = {} /\ \A s \in task[j].writing : s < nextSlot
  BY <1>1 DEF IInv, OwnOK
<1>5. /\ map' \in [Tokens -> Slots \cup {None}] /\ holds' \in [Slots -> SUBSET Tokens]
      /\ \A t \in task[j].tokens : /\ t \in Tokens /\ map'[t] \in Slots
                                   /\ map'[t] \in task[j].writing
                                   /\ <<t, map'[t]>> \in task[j].target
      /\ \A t \in Tokens : t \notin task[j].tokens => map'[t] = map[t]
      /\ Mapped' = Mapped \cup task[j].tokens
  BY <1>1, <1>3, MovedTo
<1>6. ASSUME NEW t \in Mapped'
      PROVE  \/ t \in task[j].tokens
             \/ t \in Mapped /\ map'[t] = map[t] /\ map[t] \in Valid
  BY <1>5 DEF Mapped, Valid
<1>7. ASSUME NEW s \in Valid'
      PROVE  (s \in Valid \/ s \in task[j].writing) /\ s \notin vacated
  <2>1. PICK t \in Mapped' : s = map'[t]
    BY DEF Valid
  <2>2. CASE t \in task[j].tokens
    <3>1. <<t, map'[t]>> \in task[j].target /\ <<t, map'[t]>>[2] = s /\ s \in task[j].writing
      BY <1>5, <2>1, <2>2
    <3> QED BY <1>4, <3>1
  <2>3. CASE t \notin task[j].tokens
    <3>1. s \in Valid
      BY <1>6, <2>1, <2>3
    <3> QED BY <3>1 DEF IInv, ArenaOK
  <2> QED BY <2>2, <2>3
<1>8. CountsExact'
  <2>1. /\ UNCHANGED <<pins, inflight, writes, reader, hooks>>
        /\ \A i \in Tasks : /\ task'[i].writing = task[i].writing
                            /\ task'[i].guarded = task[i].guarded
    BY <1>1, <1>2 DEF counts
  <2> QED BY <2>1, CountsKeep
<1>9. TypeOK'
  BY <1>1, <1>2, <1>5 DEF IInv, TypeOK, counts, free
<1>10. UNCHANGED <<vacated, unused, nextSlot, closed, reader>>
  BY <1>1 DEF free
<1>11. ArenaOK'
  <2>1. vacated' \cap Valid' = {}
    BY <1>7, <1>10
  <2>2. unused' \cap (Valid' \cup vacated') = {}
    BY <1>4, <1>7, <1>10 DEF IInv, ArenaOK
  <2>3. \A s \in Valid' \cup vacated' \cup unused' : s < nextSlot'
    BY <1>4, <1>7, <1>10 DEF IInv, ArenaOK
  <2>4. ASSUME NEW t \in Mapped', NEW u \in Mapped', t # u, map'[t] = map'[u]
        PROVE  {t, u} \subseteq DOMAIN Initial /\ map'[t] = Initial[t] /\ map'[u] = Initial[u]
    <3>1. CASE t \in task[j].tokens /\ u \in task[j].tokens
      BY <1>3, <2>4, <3>1
    <3>2. CASE ~(t \in task[j].tokens) /\ ~(u \in task[j].tokens)
      BY <1>6, <2>4, <3>2 DEF IInv, ArenaOK
    <3>3. CASE t \in task[j].tokens /\ ~(u \in task[j].tokens)
      BY <1>4, <1>5, <1>6, <2>4, <3>3
    <3>4. CASE ~(t \in task[j].tokens) /\ u \in task[j].tokens
      BY <1>4, <1>5, <1>6, <2>4, <3>4
    <3> QED BY <3>1, <3>2, <3>3, <3>4
  <2>5. vacated' \cap Shared = {} /\ \A s \in unused' : s >= Floor
    BY <1>10 DEF IInv, ArenaOK
  <2> QED BY <2>1, <2>2, <2>3, <2>4, <2>5 DEF ArenaOK
<1>12. OwnOK'
  <2>1. /\ UNCHANGED <<unused, nextSlot>> /\ vacated' \subseteq vacated \cup Valid
        /\ Valid' \subseteq Valid \cup task[j].writing
    BY <1>7, <1>10
  <2> QED BY <1>1, <1>3, <2>1, PublishedOwn
<1>13. HoldsOK'
  <2>1. \A u \in Mapped : map[u] \in task[j].writing => u \in task[j].tokens
    BY <1>4 DEF Valid
  <2> QED BY <1>1, <1>3, <1>10, <2>1, PublishedHolds
<1> QED BY <1>2, <1>8, <1>9, <1>11, <1>12, <1>13 DEF IInv

-----------------------------------------------------------------------------
(* The invariant, and what it implies                                       *)

\* The initial map satisfies the invariant.
LEMMA IInvInit == Init => IInv
<1> SUFFICES ASSUME Init PROVE IInv
  OBVIOUS
<1>1. /\ map = [t \in Tokens |-> IF t \in DOMAIN Initial THEN Initial[t] ELSE None]
      /\ pins = [s \in Slots |-> 0] /\ inflight = [s \in Slots |-> 0]
      /\ writes = [s \in Slots |-> 0]
      /\ pendingTokens = {} /\ vacated = {} /\ unused = {}
      /\ nextSlot = Floor /\ closed = FALSE
      /\ task = [j \in Tasks |-> Idle] /\ reader = [r \in Readers |-> {}]
      /\ load = "pending" /\ hooks = [j \in Tasks |-> {}]
      /\ holds = [s \in Slots |-> TokensAt(s)]
  BY DEF Init
<1>2. Floor \in Nat /\ MaxSlots \in Nat /\ Floor =< MaxSlots
  BY SlotAssumption
<1>3. \A t \in DOMAIN Initial : t \in Tokens /\ Initial[t] \in Slots /\ Initial[t] < Floor
  BY <1>2, SlotAssumption DEF Slots
<1>4. \A t \in Mapped : t \in DOMAIN Initial /\ map[t] = Initial[t]
  BY <1>1 DEF Mapped
<1>5. \A s \in Valid : s \in Slots /\ s < Floor
  BY <1>3, <1>4 DEF Valid
<1>6. Idle \in TaskType /\ Idle.at = "idle" /\ Idle.writing = {} /\ Idle.guarded = {}
  BY DEF Idle, TaskType
<1>7. TypeOK
  <2>1. map \in [Tokens -> Slots \cup {None}]
    BY <1>1, <1>3
  <2>2. holds \in [Slots -> SUBSET Tokens]
    BY <1>1 DEF TokensAt, Mapped
  <2>3. task \in [Tasks -> TaskType] /\ nextSlot \in Floor .. MaxSlots
    BY <1>1, <1>2, <1>6
  <2>4. pins \in [Slots -> Nat] /\ inflight \in [Slots -> Nat] /\ writes \in [Slots -> Nat]
    BY <1>1
  <2> QED BY <1>1, <2>1, <2>2, <2>3, <2>4 DEF TypeOK
<1>8. CountsExact
  <2>1. /\ \A s : {r \in Readers : s \in reader[r]} = {}
        /\ \A s : {j \in Tasks : s \in task[j].writing} = {}
        /\ \A s : {j \in Tasks : s \in task[j].guarded} = {}
        /\ \A s : {j \in Tasks : s \in hooks[j]} = {}
    BY <1>1, <1>6
  <2>2. Cardinality({}) = 0 /\ 0 = 0 + 0
    BY FS_EmptySet
  <2>3. \A s \in Slots : pins[s] = 0 /\ writes[s] = 0 /\ inflight[s] = 0
    BY <1>1
  <2> QED BY <2>1, <2>2, <2>3 DEF CountsExact
<1>9. CallsOK
  BY <1>1, <1>6 DEF CallsOK, Promoting, Decoding
<1>10. ArenaOK
  BY <1>1, <1>4, <1>5 DEF ArenaOK
<1>11. OwnOK
  BY <1>1, <1>6 DEF OwnOK, Promoting, Decoding
<1>12. HoldsOK
  <2>1. ASSUME NEW t \in Mapped PROVE t \in holds[map[t]]
    <3>1. map[t] \in Slots
      BY <1>5 DEF Valid
    <3> QED BY <1>1, <3>1 DEF TokensAt
  <2> QED BY <1>1, <2>1 DEF HoldsOK
<1> QED BY <1>7, <1>8, <1>9, <1>10, <1>11, <1>12 DEF IInv

\* Every step keeps it.
LEMMA IInvNext == IInv /\ [Next]_vars => IInv'
<1> SUFFICES ASSUME IInv, [Next]_vars PROVE IInv'
  OBVIOUS
<1>1. CASE UNCHANGED vars
  <2>1. UNCHANGED <<map, pins, inflight, writes, pendingTokens, vacated, unused, nextSlot, closed,
                    task, reader, load, hooks, holds>>
    BY <1>1 DEF vars, counts, free
  <2>2. TypeOK' /\ CallsOK'
    BY <2>1 DEF IInv, TypeOK, CallsOK, Promoting, Decoding
  <2>3. CountsExact'
    BY <2>1, CountsKeep
  <2>4. ArenaOK' /\ OwnOK' /\ HoldsOK'
    BY <2>1 DEF IInv, ArenaOK, OwnOK, HoldsOK, Promoting, Decoding, Valid, Mapped
  <2> QED BY <2>2, <2>3, <2>4 DEF IInv
<1>2. ASSUME NEW r \in Readers, Unpin(r) \/ \E S \in SUBSET Valid : Pin(r, S) PROVE IInv'
  BY <1>2, UnpinKeeps, PinKeeps
<1>3. ASSUME NEW j \in Tasks, Call(j) PROVE IInv'
  <2>1. ASSUME NEW S \in SUBSET (Valid \cup vacated), NEW O \in SUBSET (Valid \cup vacated),
               WriteGuard(j, S, O)
        PROVE  IInv'
    BY <2>1, WriteGuardKeeps
  <2>2. ASSUME NEW T \in SUBSET Tokens, NEW inplace \in BOOLEAN, NEW pending \in BOOLEAN,
               Promote(j, T, inplace, pending) \/ PromoteDenied(j, T, inplace, pending)
        PROVE  IInv'
    BY <2>2, PromoteKeeps, PromoteDeniedKeeps
  <2>3. ASSUME NEW t \in Tokens, NEW p \in Slots, DecodeGuard(j, t, p)
        PROVE  IInv'
    BY <2>3, DecodeGuardKeeps
  <2> QED BY <1>3, <2>1, <2>2, <2>3 DEF Call
<1>4. ASSUME NEW j \in Tasks,
             \/ WriteGuardBody(j) \/ Publish(j) \/ PublishRefused(j)
             \/ DecodeDone(j) \/ DecodeFailed(j)
             \/ Release(j) \/ LoadFinished(j)
      PROVE  IInv'
  BY <1>4, WriteGuardBodyKeeps, PublishKeeps, PublishRefusedKeeps, DecodeDoneKeeps,
     DecodeFailedKeeps, ReleaseKeeps, LoadFinishedKeeps
<1>5. ASSUME LoadDone \/ Invalidate PROVE IInv'
  BY <1>5, LoadDoneKeeps, InvalidateKeeps
<1>6. ASSUME NEW t \in Tokens, AllocateDecode(t) PROVE IInv'
  BY <1>6, AllocateDecodeKeeps
<1>7. ASSUME NEW t \in Tokens, NEW p \in Slots, NEW reuse \in BOOLEAN, BindDecode(t, p, reuse)
      PROVE  IInv'
  BY <1>7, BindDecodeKeeps
<1> QED BY <1>1, <1>2, <1>3, <1>4, <1>5, <1>6, <1>7 DEF Next

\* So it always holds.
LEMMA Invariance == Spec => []IInv
<1> QED BY IInvInit, IInvNext, PTL DEF Spec

\* Every variable of the map stays in its type, no count below zero.
THEOREM SlotTypeOK == Spec => []TypeOK
<1>1. IInv => TypeOK
  BY DEF IInv
<1> QED BY <1>1, Invariance, PTL

\* Each count of pins, writes and operations in flight is the number of its holders.
THEOREM SlotCountsExact == Spec => []CountsExact
<1>1. IInv => CountsExact
  BY DEF IInv
<1> QED BY <1>1, Invariance, PTL

\* A slot is written by as many calls as are writing it.
LEMMA Unwritten ==
    ASSUME IInv, NEW s \in Slots, \A j \in Tasks : s \notin task[j].writing
    PROVE  writes[s] = 0
<1>1. {j \in Tasks : s \in task[j].writing} = {}
  OBVIOUS
<1> QED BY <1>1, FS_EmptySet DEF IInv, CountsExact

\* No pinned slot is being written, or holds a partial record, even once the map
\* is retired.
THEOREM SlotReadersUndisturbed == Spec => []ReadersUndisturbed
<1>1. IInv => ReadersUndisturbed
  <2> SUFFICES ASSUME IInv, NEW r \in Readers, NEW s \in reader[r]
               PROVE  writes[s] = 0 /\ holds[s] # {}
    BY DEF ReadersUndisturbed
  <2>1. s \in Slots
    BY DEF IInv, TypeOK
  <2>2. (\A j \in Tasks : s \notin task[j].writing) /\ holds[s] # {}
    BY DEF IInv, HoldsOK
  <2> QED BY <2>1, <2>2, Unwritten
<1> QED BY <1>1, Invariance, PTL

\* No two calls write the same slot, and none writes a shared one, which never
\* becomes a hole.
THEOREM SlotWritersApart == Spec => []WritersApart
<1>1. IInv => WritersApart
  <2> SUFFICES ASSUME IInv PROVE WritersApart
    OBVIOUS
  <2>1. ASSUME NEW s \in Shared PROVE writes[s] = 0 /\ s \notin vacated
    <3>1. s \in Slots
      BY SlotAssumption DEF Slots
    <3>2. \A j \in Tasks : s \notin task[j].writing
      BY DEF IInv, CallsOK
    <3> QED BY <3>1, <3>2, Unwritten DEF IInv, ArenaOK
  <2> QED BY <2>1 DEF IInv, OwnOK, WritersApart
<1> QED BY <1>1, Invariance, PTL

\* A slot is mapped, a hole or unused, never two of them, and tokens share a slot
\* only where they did from the start.
THEOREM SlotSlotsApart == Spec => []SlotsApart
<1>1. IInv => SlotsApart
  BY DEF IInv, ArenaOK, SlotsApart
<1> QED BY <1>1, Invariance, PTL

\* The slot of each token of a live map holds its complete record, unless a
\* guarded call is writing that slot.
THEOREM SlotMappedIntact == Spec => []MappedIntact
<1>1. IInv => MappedIntact
  BY DEF IInv, HoldsOK, MappedIntact
<1> QED BY <1>1, Invariance, PTL

\* A retired map publishes nothing more and grants no pin and no guard.
THEOREM SlotRetiredFrozen == Spec => RetiredFrozen
<1> DEFINE Frozen == closed => /\ closed' /\ map' = map
                               /\ \A s \in Slots : /\ pins'[s] =< pins[s] /\ writes'[s] =< writes[s]
                                                   /\ inflight'[s] =< inflight[s]
<1>1. ASSUME IInv, [Next]_vars, closed PROVE Frozen
  <2>1. \A s \in Slots : pins[s] \in Nat /\ writes[s] \in Nat /\ inflight[s] \in Nat
    BY <1>1 DEF IInv, TypeOK
  <2>2. ASSUME NEW count \in [Slots -> Nat], NEW S, NEW s \in Slots
        PROVE  Minus(count, S)[s] =< count[s]
    BY DEF Minus
  <2>3. /\ pins \in [Slots -> Nat] /\ writes \in [Slots -> Nat] /\ inflight \in [Slots -> Nat]
    BY <1>1 DEF IInv, TypeOK
  <2>4. CASE UNCHANGED <<map, counts>> /\ closed'
    BY <2>1, <2>4 DEF counts
  <2>5. ASSUME NEW r \in Readers, Unpin(r) PROVE Frozen
    <3>1. pins' = Minus(pins, reader[r]) /\ UNCHANGED <<map, inflight, writes, closed>>
      BY <2>5 DEF Unpin
    <3> QED BY <1>1, <2>1, <2>2, <2>3, <3>1
  <2>6. ASSUME NEW j \in Tasks, Release(j) PROVE Frozen
    <3>1. /\ writes' = Minus(writes, task[j].writing) /\ inflight' = Minus(inflight, task[j].guarded)
          /\ UNCHANGED <<map, pins, closed>>
      BY <2>6 DEF Release
    <3> QED BY <1>1, <2>1, <2>2, <2>3, <3>1
  <2>7. ASSUME NEW j \in Tasks, LoadFinished(j) PROVE Frozen
    <3>1. inflight' = Minus(inflight, hooks[j]) /\ UNCHANGED <<map, pins, writes, closed>>
      BY <2>7 DEF LoadFinished, Hooked
    <3> QED BY <1>1, <2>1, <2>2, <2>3, <3>1
  <2>8. ASSUME NEW j \in Tasks, WriteGuardBody(j) \/ PublishRefused(j) \/ DecodeFailed(j)
        PROVE  UNCHANGED <<map, counts>> /\ closed'
    BY <1>1, <2>8 DEF WriteGuardBody, PublishRefused, DecodeFailed
  <2>9. ASSUME NEW j \in Tasks, Publish(j) \/ DecodeDone(j) PROVE FALSE
    BY <1>1, <2>9 DEF Publish, StillMine, DecodeDone
  <2>10. ASSUME NEW j \in Tasks, Call(j) PROVE FALSE
    BY <1>1, <2>10 DEF Call, WriteGuard, Promote, PromoteDenied, Promotes, DecodeGuard
  <2>11. ASSUME NEW r \in Readers, NEW S \in SUBSET Valid, Pin(r, S) PROVE FALSE
    BY <1>1, <2>11 DEF Pin
  <2>12. ASSUME NEW t \in Tokens,
                \/ AllocateDecode(t)
                \/ \E p \in Slots, reuse \in BOOLEAN : BindDecode(t, p, reuse)
         PROVE  FALSE
    BY <1>1, <2>12 DEF AllocateDecode, BindDecode
  <2>13. ASSUME LoadDone \/ Invalidate PROVE UNCHANGED <<map, counts>> /\ closed'
    BY <1>1, <2>13 DEF LoadDone, Invalidate
  <2>14. ASSUME UNCHANGED vars PROVE UNCHANGED <<map, counts>> /\ closed'
    BY <1>1, <2>14 DEF vars
  <2> HIDE DEF Frozen
  <2> QED
    BY <1>1, <2>4, <2>5, <2>6, <2>7, <2>8, <2>9, <2>10, <2>11, <2>12, <2>13, <2>14 DEF Next
<1>2. IInv /\ [Next]_vars => [Frozen]_vars
  <2>1. IInv /\ [Next]_vars /\ closed => Frozen
    BY <1>1
  <2>2. ~closed => Frozen
    OBVIOUS
  <2> QED BY <2>1, <2>2
<1> QED BY <1>2, Invariance, PTL DEF Spec, RetiredFrozen

-----------------------------------------------------------------------------
(* The invariant of an arena                                                *)

\* ArenaTypeOK without the map's own.
ArenaTypes ==
    /\ length \in Prompt .. Prompt + Steps
    /\ baseline \subseteq PromptTokens /\ selected \subseteq PromptTokens
    /\ loading \in BOOLEAN /\ loadFailed \in BOOLEAN /\ broken \in BOOLEAN
    /\ op \in [kind : {"none", "write", "ready", "update", "decode", "gather"},
               by : Tasks \cup Readers \cup {None}, tokens : SUBSET Tokens]
    /\ latest \in [Slots -> SUBSET Tokens]

\* The map is the prompt and what was decoded; before decode a token is in its
\* native slot or in the sidecar.
MapOK ==
    /\ Mapped = 0 .. length - 1
    /\ ~Decoded => \A t \in Mapped : map[t] = Canonical[t] \/ map[t] >= Floor

\* Promotions write the sidecar only, and there is none while rows are fused or
\* decoded.
PromotionsOK ==
    /\ \A j \in Tasks : Promoting(j) =>
          task[j].tokens \subseteq Mapped /\ task[j].writing \subseteq task[j].fresh
    /\ Decoded \/ op.kind \in {"ready", "update", "decode"} => \A j \in Tasks : ~Open(j)

\* What the call that holds the mutex writes, of its tokens and of no others.
BodyOK(j) ==
    /\ op.kind # "update" => task[j].writing = Canonicals(op.tokens)
    /\ op.kind = "ready" => \A t \in op.tokens : map[t] = Canonical[t]
    /\ op.kind = "update" =>
          /\ op.tokens \subseteq Mapped
          /\ \A t \in op.tokens : map[t] \in task[j].writing
          /\ \A s \in task[j].writing : \E t \in op.tokens :
                s = map[t] \/ (s = Canonical[t] /\ s # map[t])

OpOK ==
    /\ op.kind \in {"write", "ready", "update"} =>
          /\ op.by \in Tasks /\ task[op.by].kind = "write" /\ ~Decoded
          /\ op.kind # "update" => op.tokens \subseteq PromptTokens
          /\ task[op.by].at = "writing" => BodyOK(op.by)
    /\ op.kind = "decode" =>
          /\ op.by \in Tasks /\ task[op.by].kind = "decode"
          /\ task[op.by].at = "writing" => op.tokens = {length} /\ task[op.by].tokens = {length}
    /\ op.kind = "gather" => op.by \in Readers

\* A row is current where its token is mapped, or a call is writing it there.
Covered(t) ==
    \/ t \in latest[map[t]]
    \/ \E j \in Tasks : task[j].at = "writing" /\ map[t] \in task[j].writing

RowsOK == ~closed => \A t \in Mapped : HasRow(t) => Covered(t)

\* With IInv, the invariant of an arena.
ArenaInv == ArenaTypes /\ MapOK /\ PromotionsOK /\ OpOK /\ RowsOK

-----------------------------------------------------------------------------
(* What the constants of an arena are, and what its map is                  *)

\* The block table is one-to-one into the native slots; the map begins as its prompt.
LEMMA ArenaConstants ==
    ASSUME Assumptions
    PROVE  /\ Prompt \in Nat /\ Prompt > 0 /\ Steps \in Nat /\ Floor \in Nat
           /\ Tokens = 0 .. Prompt + Steps - 1 /\ PromptTokens = 0 .. Prompt - 1
           /\ PromptTokens \subseteq Tokens
           /\ \A t \in Tokens : Canonical[t] \in Slots /\ Canonical[t] < Floor
           /\ \A t, u \in Tokens : Canonical[t] = Canonical[u] => t = u
           /\ DOMAIN Initial = PromptTokens
           /\ \A t \in PromptTokens : Initial[t] = Canonical[t]
<1>1. /\ Prompt \in Nat \ {0} /\ Steps \in Nat
      /\ Tokens = 0 .. Prompt + Steps - 1 /\ PromptTokens = 0 .. Prompt - 1
      /\ Canonical \in [Tokens -> 0 .. Floor - 1]
      /\ \A t, u \in Tokens : Canonical[t] = Canonical[u] => t = u
      /\ Initial = [t \in PromptTokens |-> Canonical[t]]
  BY DEF Assumptions, PromptTokens
<1>2. Floor \in Nat /\ MaxSlots \in Nat /\ Floor =< MaxSlots
  BY SlotAssumption
<1>3. \A t \in Tokens : Canonical[t] \in Slots /\ Canonical[t] < Floor
  BY <1>1, <1>2 DEF Slots
<1>4. PromptTokens \subseteq Tokens
  BY <1>1
<1> QED BY <1>1, <1>2, <1>3, <1>4

\* The tokens of an arena have slots of their own.
LEMMA OneToOne ==
    ASSUME Assumptions, IInv, NEW t \in Mapped, NEW u \in Mapped, map[t] = map[u]
    PROVE  t = u
<1>1. CASE t # u
  <2>1. {t, u} \subseteq DOMAIN Initial /\ map[t] = Initial[t] /\ map[u] = Initial[u]
    BY <1>1 DEF IInv, ArenaOK
  <2>2. t \in PromptTokens /\ u \in PromptTokens /\ Canonical[t] = Canonical[u]
    BY <2>1, ArenaConstants
  <2>3. t \in Tokens /\ u \in Tokens
    BY DEF Mapped
  <2> QED BY <2>2, <2>3, ArenaConstants
<1> QED BY <1>1

\* A mapped token has a slot.
LEMMA MappedAt ==
    ASSUME IInv, NEW t \in Mapped
    PROVE  t \in Tokens /\ map[t] \in Slots /\ map[t] \in Valid
BY DEF IInv, TypeOK, Mapped, Valid

\* Before decode, only the token itself is mapped to its native slot.
LEMMA NativeOwner ==
    ASSUME Assumptions, IInv, MapOK, ~Decoded, NEW t \in Mapped, NEW u \in Tokens,
           map[t] = Canonical[u]
    PROVE  t = u
<1>1. t \in Tokens /\ map[t] \in Slots
  BY MappedAt
<1>2. Canonical[u] \in Slots /\ Canonical[u] < Floor /\ Floor \in Nat
  BY ArenaConstants
<1>3. map[t] = Canonical[t]
  <2>1. map[t] = Canonical[t] \/ map[t] >= Floor
    BY DEF MapOK
  <2> QED BY <1>2, <2>1 DEF Slots
<1> QED BY <1>1, <1>3, ArenaConstants

\* A slot that a call writes has a writer.
LEMMA Written ==
    ASSUME IInv, NEW j \in Tasks, NEW s \in task[j].writing
    PROVE  s \in Slots /\ writes[s] > 0
<1>1. s \in Slots /\ writes[s] \in Nat
  BY DEF IInv, TypeOK, TaskType
<1>2. writes[s] # 0
  BY <1>1, Unguarded
<1> QED BY <1>1, <1>2

-----------------------------------------------------------------------------
(* What a step of a call does to the rows                                   *)

\* A call that begins to write covers the rows of its slots.
LEMMA StartRows ==
    ASSUME IInv, ArenaTypes, RowsOK, NEW j \in Tasks, task[j] = Idle, NEW call \in TaskType,
           call.at = "writing", task' = [task EXCEPT ![j] = call], Blank(task'[j].writing),
           UNCHANGED <<map, closed, baseline>>
    PROVE  RowsOK' /\ latest' \in [Slots -> SUBSET Tokens]
<1>1. /\ task'[j] = call /\ task'[j].at = "writing"
      /\ \A i \in Tasks : i # j => task'[i] = task[i]
  BY DEF IInv, TypeOK
<1>2. task[j].at = "idle"
  BY DEF Idle
<1>3. latest' = [s \in Slots |-> IF s \in call.writing THEN {} ELSE latest[s]]
  BY <1>1 DEF Blank
<1>4. latest' \in [Slots -> SUBSET Tokens]
  BY <1>3 DEF ArenaTypes
<1>5. RowsOK'
  <2> SUFFICES ASSUME ~closed', NEW t \in Mapped', HasRow(t)' PROVE Covered(t)'
    BY DEF RowsOK
  <2>1. t \in Mapped /\ HasRow(t) /\ ~closed
    BY DEF Mapped, HasRow
  <2>2. Covered(t) /\ map[t] \in Slots
    BY <2>1, MappedAt DEF RowsOK
  <2>3. CASE map[t] \in call.writing
    BY <1>1, <2>3 DEF Covered
  <2>4. CASE map[t] \notin call.writing /\ t \in latest[map[t]]
    BY <1>3, <2>2, <2>4 DEF Covered
  <2>5. ASSUME NEW i \in Tasks, task[i].at = "writing", map[t] \in task[i].writing
        PROVE  Covered(t)'
    BY <1>1, <1>2, <2>5 DEF Covered
  <2> QED BY <2>2, <2>3, <2>4, <2>5 DEF Covered
<1> QED BY <1>4, <1>5

\* A call that leaves uncovers no row when none is mapped to its slots.
LEMMA LeaveRows ==
    ASSUME RowsOK, NEW j \in Tasks, task[j].at = "writing" => task[j].writing \cap Valid = {},
           \A i \in Tasks : i # j => task'[i] = task[i],
           UNCHANGED <<map, latest, baseline>>, closed => closed'
    PROVE  RowsOK'
<1> SUFFICES ASSUME ~closed', NEW t \in Mapped', HasRow(t)' PROVE Covered(t)'
  BY DEF RowsOK
<1>1. t \in Mapped /\ HasRow(t) /\ ~closed /\ map[t] \in Valid
  BY DEF Mapped, HasRow, Valid
<1>2. Covered(t)
  BY <1>1 DEF RowsOK
<1>3. CASE t \in latest[map[t]]
  BY <1>3 DEF Covered
<1>4. ASSUME NEW i \in Tasks, task[i].at = "writing", map[t] \in task[i].writing
      PROVE  Covered(t)'
  <2>1. i # j
    BY <1>1, <1>4
  <2> QED BY <1>4, <2>1 DEF Covered
<1> QED BY <1>2, <1>3, <1>4 DEF Covered

\* A call that is done has put the rows of T where they are mapped, and was writing
\* no slot of another row.
LEMMA PutRows ==
    ASSUME IInv, IInv', ArenaTypes, RowsOK, NEW j \in Tasks, NEW T \in SUBSET Tokens, NEW put,
           Superseded(T, put), closed => closed',
           \A i \in Tasks : i # j => task'[i] = task[i],
           \A t \in Mapped' : t \in T => map'[t] \in put[t],
           \A t \in Mapped' : HasRow(t)' /\ t \notin T =>
               t \in Mapped /\ HasRow(t) /\ map'[t] = map[t] /\ map[t] \notin task[j].writing
    PROVE  RowsOK' /\ latest' \in [Slots -> SUBSET Tokens]
<1>1. latest' = [s \in Slots |-> (latest[s] \ T) \cup {t \in T : s \in put[t]}]
  BY DEF Superseded
<1>2. latest' \in [Slots -> SUBSET Tokens]
  BY <1>1 DEF ArenaTypes
<1>3. RowsOK'
  <2> SUFFICES ASSUME ~closed', NEW t \in Mapped', HasRow(t)' PROVE Covered(t)'
    BY DEF RowsOK
  <2>1. map'[t] \in Slots
    BY DEF IInv, TypeOK, Mapped
  <2>2. CASE t \in T
    BY <1>1, <2>1, <2>2 DEF Covered
  <2>3. CASE t \notin T
    <3>1. t \in Mapped /\ HasRow(t) /\ map'[t] = map[t] /\ map[t] \notin task[j].writing
      BY <2>3
    <3>2. Covered(t)
      BY <3>1 DEF RowsOK
    <3>3. CASE t \in latest[map[t]]
      BY <1>1, <2>1, <2>3, <3>1, <3>3 DEF Covered
    <3>4. ASSUME NEW i \in Tasks, task[i].at = "writing", map[t] \in task[i].writing
          PROVE  Covered(t)'
      <4>1. i # j
        BY <3>1, <3>4
      <4> QED BY <3>1, <3>4, <4>1 DEF Covered
    <3> QED BY <3>2, <3>3, <3>4 DEF Covered
  <2> QED BY <2>2, <2>3
<1> QED BY <1>2, <1>3

-----------------------------------------------------------------------------
(* What a step leaves of the rest                                           *)

\* Nothing is known of a call that changes once it is not writing any more.
LEMMA OpKeeps ==
    ASSUME OpOK, UNCHANGED <<op, length, map>>,
           op.kind \in {"write", "ready", "update", "decode"} =>
               /\ task'[op.by].kind = task[op.by].kind
               /\ task'[op.by].at = "writing" => task'[op.by] = task[op.by]
    PROVE  OpOK'
<1>1. UNCHANGED <<Mapped, Decoded>>
  BY DEF Mapped, Decoded
<1>2. ASSUME op.kind \in {"write", "ready", "update"}, task'[op.by].at = "writing"
      PROVE  BodyOK(op.by)'
  <2>1. task'[op.by] = task[op.by] /\ BodyOK(op.by)
    BY <1>2 DEF OpOK
  <2> QED BY <1>1, <2>1 DEF BodyOK
<1>3. ASSUME op.kind = "decode", task'[op.by].at = "writing"
      PROVE  op.tokens = {length} /\ task'[op.by].tokens = {length}
  BY <1>3 DEF OpOK
<1> QED BY <1>1, <1>2, <1>3 DEF OpOK

\* A call that holds no mutex.
LEMMA NoCall ==
    ASSUME op' = NoOp PROVE OpOK' /\ op'.kind = "none" /\ op' \in [kind : {"none", "write",
               "ready", "update", "decode", "gather"},
               by : Tasks \cup Readers \cup {None}, tokens : SUBSET Tokens]
BY DEF OpOK, NoOp

\* No promotion begins, and none is open where there was none.
LEMMA PromotionsKeep ==
    ASSUME PromotionsOK, Mapped \subseteq Mapped',
           \A i \in Tasks : Promoting(i)' => task'[i] = task[i],
           \A i \in Tasks : Open(i)' => Open(i),
           (Decoded \/ op.kind \in {"ready", "update", "decode"})' =>
               \/ Decoded \/ op.kind \in {"ready", "update", "decode"}
               \/ \A i \in Tasks : ~Open(i)
    PROVE  PromotionsOK'
<1>1. ASSUME NEW i \in Tasks, Promoting(i)'
      PROVE  task'[i].tokens \subseteq Mapped' /\ task'[i].writing \subseteq task'[i].fresh
  <2>1. task'[i] = task[i] /\ Promoting(i)
    BY <1>1 DEF Promoting
  <2> QED BY <2>1 DEF PromotionsOK
<1> QED BY <1>1 DEF PromotionsOK

\* The map and the prompt stay.
LEMMA MapKeeps == ASSUME MapOK, UNCHANGED <<map, length>> PROVE MapOK' /\ Mapped' = Mapped
BY DEF MapOK, Mapped, Decoded

\* A step outside of the calls.
LEMMA QuietKeeps ==
    ASSUME ArenaInv, UNCHANGED <<map, task, latest, length, baseline>>, closed => closed',
           ArenaTypes',
           \/ UNCHANGED op
           \/ op'.kind \in {"none", "gather"} /\ (op'.kind = "gather" => op'.by \in Readers)
    PROVE  ArenaInv'
<1>1. MapOK' /\ Mapped' = Mapped
  BY MapKeeps DEF ArenaInv
<1>2. RowsOK'
  <2> SUFFICES ASSUME ~closed', NEW t \in Mapped', HasRow(t)' PROVE Covered(t)'
    BY DEF RowsOK
  <2>1. t \in Mapped /\ HasRow(t) /\ ~closed
    BY <1>1 DEF HasRow
  <2> QED BY <2>1 DEF ArenaInv, RowsOK, Covered
<1>3. OpOK'
  <2>1. CASE UNCHANGED op
    BY <2>1, OpKeeps DEF ArenaInv
  <2>2. CASE op'.kind \in {"none", "gather"} /\ (op'.kind = "gather" => op'.by \in Readers)
    BY <2>2 DEF OpOK
  <2> QED BY <2>1, <2>2
<1>4. PromotionsOK'
  <2>1. /\ \A i \in Tasks : Promoting(i)' => task'[i] = task[i]
        /\ \A i \in Tasks : Open(i)' => Open(i)
        /\ Decoded' = Decoded
    BY DEF Open, Decoded
  <2>2. (Decoded \/ op.kind \in {"ready", "update", "decode"})' =>
               \/ Decoded \/ op.kind \in {"ready", "update", "decode"}
               \/ \A i \in Tasks : ~Open(i)
    BY <2>1
  <2> QED BY <1>1, <2>1, <2>2, PromotionsKeep DEF ArenaInv
<1> QED BY <1>1, <1>2, <1>3, <1>4 DEF ArenaInv

-----------------------------------------------------------------------------
(* The steps of the arena, one by one                                       *)

\* Every step of an arena is a step of its map.
LEMMA ArenaSteps ==
    ASSUME Assumptions, IInv, ArenaInv, [ArenaNext]_arenaVars
    PROVE  [Next]_vars
<1>1. CASE UNCHANGED arenaVars
  BY <1>1 DEF arenaVars
<1>2. ASSUME NEW j \in Tasks, NEW required, NEW optional, WriteGuard(j, required, optional)
      PROVE  Next
  <2>1. required \in SUBSET (Valid \cup vacated) /\ optional \in SUBSET (Valid \cup vacated)
    BY <1>2 DEF WriteGuard
  <2>2. Call(j)
    BY <1>2, <2>1 DEF Call
  <2> QED BY <2>2 DEF Next
<1>3. ASSUME NEW T \in SUBSET Tokens, Write(T) \/ WriteSelectedReady(T) \/ UpdateSelected(T)
      PROVE  Next
  BY <1>2, <1>3 DEF Write, WriteSelectedReady, UpdateSelected, GuardedWrite
<1>4. CASE BodyDone \/ BodyFails \/ Return
  <2>1. op.by \in Tasks /\ (WriteGuardBody(op.by) \/ Release(op.by))
    BY <1>4 DEF BodyDone, BodyFails, Return, ArenaInv, OpOK
  <2> QED BY <2>1 DEF Next
<1>5. CASE Decode
  <2>1. PICK j \in Tasks : DecodeGuard(j, length, Canonical[length])
    BY <1>5 DEF Decode
  <2>2. length \in Tokens /\ Canonical[length] \in Slots
    BY <1>5, ArenaConstants DEF Decode
  <2>3. Call(j)
    BY <2>1, <2>2 DEF Call
  <2> QED BY <2>3 DEF Next
<1>6. CASE DecodeWritten \/ DecodeFails
  <2>1. op.by \in Tasks /\ (DecodeDone(op.by) \/ DecodeFailed(op.by))
    BY <1>6 DEF DecodeWritten, DecodeFails, ArenaInv, OpOK
  <2> QED BY <2>1 DEF Next
<1>7. CASE Retire \/ SourceDone
  BY <1>7 DEF Retire, SourceDone, Next
<1>8. ASSUME NEW j \in Tasks, NEW T \in SUBSET Tokens,
             \/ \E source \in {"none", "pending", "done"} : PromoteSelected(j, T, source)
             \/ PromoteSelectedDenied(j, T)
      PROVE  Next
  <2>1. \E pending \in BOOLEAN : Promote(j, T, FALSE, pending) \/ PromoteDenied(j, T, FALSE, pending)
    BY <1>8 DEF PromoteSelected, PromoteSelectedDenied
  <2>2. Call(j)
    BY <2>1 DEF Call
  <2> QED BY <2>2 DEF Next
<1>9. ASSUME NEW j \in Tasks, Published(j) \/ Refused(j) \/ PromotionDone(j) \/ LoadCallback(j)
      PROVE  Next
  BY <1>9 DEF Published, Refused, PromotionDone, LoadCallback, Next
<1>10. ASSUME NEW r \in Readers, NEW S, Pin(r, S) PROVE Next
  <2>1. S \in SUBSET Valid
    BY <1>10 DEF Pin, Pinnable
  <2> QED BY <1>10, <2>1 DEF Next
<1>11. ASSUME NEW r \in Readers,
              \/ \E T \in SUBSET Tokens : Gather(r, T)
              \/ \E S \in SUBSET Valid : PinSlots(r, S)
              \/ UnpinSlots(r)
       PROVE  Next
  <2>1. CASE UnpinSlots(r)
    BY <2>1 DEF UnpinSlots, Next
  <2>2. CASE \E T \in SUBSET Tokens : Gather(r, T)
    BY <1>10, <2>2 DEF Gather
  <2>3. CASE \E S \in SUBSET Valid : PinSlots(r, S)
    BY <1>10, <2>3 DEF PinSlots
  <2> QED BY <1>11, <2>1, <2>2, <2>3
<1>12. CASE GatherDone
  <2>1. op.by \in Readers /\ Unpin(op.by)
    BY <1>12 DEF GatherDone, ArenaInv, OpOK
  <2> QED BY <2>1 DEF Next
<1> QED BY <1>1, <1>3, <1>4, <1>5, <1>6, <1>7, <1>8, <1>9, <1>11, <1>12 DEF ArenaNext, Arena

\* write_guard: the call and its reservation.
LEMMA GuardShape ==
    ASSUME IInv, NEW j \in Tasks, NEW required, NEW optional, WriteGuard(j, required, optional)
    PROVE  \E call \in TaskType :
              /\ task' = [task EXCEPT ![j] = call] /\ task[j] = Idle
              /\ call.at = "writing" /\ call.kind = "write"
              /\ required \subseteq call.writing /\ call.writing \subseteq required \cup optional
<1>1. PICK S : /\ S = required \cup {s \in optional : ~Rejects(s)}
               /\ Reserve(j, [Idle EXCEPT !.at = "writing", !.kind = "write",
                                          !.guarded = S, !.writing = S])
  BY DEF WriteGuard
<1>2. S \subseteq Slots
  BY <1>1 DEF WriteGuard, IInv, TypeOK, Valid, Mapped
<1>3. PICK call : call = [Idle EXCEPT !.at = "writing", !.kind = "write",
                                      !.guarded = S, !.writing = S]
  OBVIOUS
<1>4. call = [at |-> "writing", kind |-> "write", tokens |-> {}, source |-> {},
              target |-> {}, guarded |-> S, writing |-> S, fresh |-> {}]
  BY <1>3 DEF Idle
<1>5. call \in TaskType /\ call.at = "writing" /\ call.kind = "write" /\ call.writing = S
  BY <1>2, <1>4 DEF TaskType
<1>6. task' = [task EXCEPT ![j] = call] /\ task[j] = Idle
  BY <1>1, <1>3 DEF Reserve, WriteGuard
<1>7. required \subseteq S /\ S \subseteq required \cup optional
  BY <1>1
<1> QED BY <1>5, <1>6, <1>7

\* write, write_selected_ready and update_selected take their slots.
LEMMA GuardedKeeps ==
    ASSUME Assumptions, IInv, ArenaInv, NEW kind \in {"write", "ready", "update"},
           NEW T \in SUBSET Tokens, NEW required, NEW optional,
           GuardedWrite(kind, T, required, optional), UNCHANGED arena, ~Decoded,
           kind # "update" =>
               T \subseteq PromptTokens /\ required = Canonicals(T) /\ optional = {},
           kind = "ready" => \A t \in T : map[t] = Canonical[t],
           kind = "update" =>
               T \subseteq Mapped /\ required = {map[t] : t \in T} /\ optional = Mirrors(T),
           kind # "write" => PromotionsDone
    PROVE  ArenaInv'
<1>1. PICK j \in Tasks : /\ WriteGuard(j, required, optional)
                         /\ op' = [kind |-> kind, by |-> j, tokens |-> T]
                         /\ Blank(task'[j].writing)
  BY DEF GuardedWrite
<1>2. PICK call \in TaskType :
          /\ task' = [task EXCEPT ![j] = call] /\ task[j] = Idle
          /\ call.at = "writing" /\ call.kind = "write"
          /\ required \subseteq call.writing /\ call.writing \subseteq required \cup optional
  BY <1>1, GuardShape
<1>3. task'[j] = call /\ \A i \in Tasks : i # j => task'[i] = task[i]
  BY <1>2 DEF IInv, TypeOK
<1>4. UNCHANGED <<map, closed, length, baseline, selected, loading, loadFailed, broken>>
  BY <1>1 DEF WriteGuard, arena
<1>5. RowsOK' /\ latest' \in [Slots -> SUBSET Tokens]
  BY <1>1, <1>2, <1>4, StartRows DEF ArenaInv
<1>6. MapOK' /\ Mapped' = Mapped
  BY <1>4, MapKeeps DEF ArenaInv
<1>7. op'.kind = kind /\ op'.by = j /\ op'.tokens = T
  BY <1>1
<1>8. op' \in [kind : {"none", "write", "ready", "update", "decode", "gather"},
               by : Tasks \cup Readers \cup {None}, tokens : SUBSET Tokens]
  BY <1>1
<1>9. ArenaTypes'
  BY <1>4, <1>5, <1>8 DEF ArenaInv, ArenaTypes
<1>10. BodyOK(j)'
  <2>1. kind # "update" => call.writing = Canonicals(T)
    BY <1>2
  <2>2. kind = "update" => /\ \A t \in T : map[t] \in call.writing
                           /\ \A s \in call.writing : \E t \in T :
                                 s = map[t] \/ (s = Canonical[t] /\ s # map[t])
    <3> SUFFICES ASSUME kind = "update"
                 PROVE  /\ \A t \in T : map[t] \in call.writing
                        /\ \A s \in call.writing : \E t \in T :
                              s = map[t] \/ (s = Canonical[t] /\ s # map[t])
      OBVIOUS
    <3>1. \A s \in Mirrors(T) : \E t \in T : s = Canonical[t] /\ s # map[t]
      BY DEF Mirrors
    <3> QED BY <1>2, <3>1
  <2>3. Canonicals(T)' = Canonicals(T)
    BY DEF Canonicals
  <2> QED BY <1>3, <1>4, <1>6, <1>7, <2>1, <2>2, <2>3 DEF BodyOK
<1>11. OpOK'
  BY <1>2, <1>3, <1>4, <1>7, <1>10 DEF OpOK, Decoded
<1>12. PromotionsOK'
  <2>1. /\ \A i \in Tasks : Promoting(i)' => task'[i] = task[i]
        /\ \A i \in Tasks : Open(i)' => Open(i)
    BY <1>2, <1>3 DEF Promoting, Open
  <2>2. (Decoded \/ op.kind \in {"ready", "update", "decode"})' => \A i \in Tasks : ~Open(i)
    BY <1>4, <1>7 DEF Decoded, PromotionsDone
  <2> QED BY <1>6, <2>1, <2>2, PromotionsKeep DEF ArenaInv
<1> QED BY <1>5, <1>6, <1>9, <1>11, <1>12 DEF ArenaInv

\* Each of the three guarded writes takes the slots that its tokens allow.
LEMMA WritesKeep ==
    ASSUME Assumptions, IInv, ArenaInv, NEW T \in SUBSET Tokens,
           Write(T) \/ WriteSelectedReady(T) \/ UpdateSelected(T)
    PROVE  ArenaInv'
<1>1. CASE Write(T)
  <2>1. /\ GuardedWrite("write", T, Canonicals(T), {}) /\ UNCHANGED arena /\ ~Decoded
        /\ T \subseteq PromptTokens
    BY <1>1 DEF Write, WritesBaseline
  <2> QED BY <2>1, GuardedKeeps
<1>2. CASE WriteSelectedReady(T)
  <2>1. /\ GuardedWrite("ready", T, Canonicals(T), {}) /\ UNCHANGED arena /\ ~Decoded
        /\ T \subseteq PromptTokens /\ PromotionsDone
        /\ \A t \in T : map[t] = Canonical[t]
    BY <1>2 DEF WriteSelectedReady
  <2> QED BY <2>1, GuardedKeeps
<1>3. CASE UpdateSelected(T)
  <2>1. /\ GuardedWrite("update", T, {map[t] : t \in T}, Mirrors(T)) /\ UNCHANGED arena
        /\ ~Decoded /\ T \subseteq Mapped /\ PromotionsDone
    BY <1>3 DEF UpdateSelected
  <2> QED BY <2>1, GuardedKeeps
<1> QED BY <1>1, <1>2, <1>3

\* What a call is about is known.
LEMMA Leaving ==
    ASSUME IInv, NEW j \in Tasks, task' = [task EXCEPT ![j].at = "releasing"]
    PROVE  /\ task'[j].at = "releasing" /\ task'[j].kind = task[j].kind
           /\ task'[j].writing = task[j].writing
           /\ \A i \in Tasks : i # j => task'[i] = task[i]
           /\ \A i \in Tasks : task'[i].kind = task[i].kind
           /\ \A i \in Tasks : task'[i].at = "writing" => task'[i] = task[i]
<1>1. /\ \A i \in Tasks : i # j => task'[i] = task[i]
      /\ task'[j] = [task[j] EXCEPT !.at = "releasing"]
  BY DEF IInv, TypeOK
<1>2. task[j] \in TaskType
  BY DEF IInv, TypeOK
<1>3. /\ task'[j].at = "releasing" /\ task'[j].kind = task[j].kind
      /\ task'[j].writing = task[j].writing
  BY <1>1, <1>2 DEF TaskType
<1> QED BY <1>1, <1>3

\* The rest, where a call leaves and the map and the prompt stay.
LEMMA LeavingKeeps ==
    ASSUME ArenaInv, \A i \in Tasks : task'[i].kind = task[i].kind,
           \A i \in Tasks : task'[i].at = "writing" => task'[i] = task[i],
           UNCHANGED <<map, length, op>>
    PROVE  MapOK' /\ OpOK' /\ PromotionsOK' /\ Mapped' = Mapped
<1>1. MapOK' /\ Mapped' = Mapped
  BY MapKeeps DEF ArenaInv
<1>2. OpOK'
  <2>1. op.kind \in {"write", "ready", "update", "decode"} =>
               /\ task'[op.by].kind = task[op.by].kind
               /\ task'[op.by].at = "writing" => task'[op.by] = task[op.by]
    BY DEF ArenaInv, OpOK
  <2> QED BY <2>1, OpKeeps DEF ArenaInv
<1>3. PromotionsOK'
  <2>1. /\ \A i \in Tasks : Promoting(i)' => task'[i] = task[i]
        /\ \A i \in Tasks : Open(i)' => Open(i)
    BY DEF Promoting, Open
  <2>2. (Decoded \/ op.kind \in {"ready", "update", "decode"})' =>
               \/ Decoded \/ op.kind \in {"ready", "update", "decode"}
               \/ \A i \in Tasks : ~Open(i)
    BY DEF Decoded
  <2> QED BY <1>1, <2>1, <2>2, PromotionsKeep DEF ArenaInv
<1> QED BY <1>1, <1>2, <1>3

\* The device is done with the rows of a guarded write.
LEMMA BodyDoneKeeps ==
    ASSUME Assumptions, IInv, IInv', ArenaInv, BodyDone
    PROVE  ArenaInv'
<1>1. op.by \in Tasks
  BY DEF BodyDone, ArenaInv, OpOK
<1>2. PICK j \in Tasks : j = op.by
  BY <1>1
<1>3. /\ op.kind \in {"write", "ready", "update"} /\ j \in Tasks /\ ~Decoded
      /\ op.kind # "update" => op.tokens \subseteq PromptTokens
      /\ WriteGuardBody(j)
  BY <1>2 DEF BodyDone, ArenaInv, OpOK
<1>4. /\ task[j].at = "writing" /\ task' = [task EXCEPT ![j].at = "releasing"]
      /\ UNCHANGED <<map, length, loading, loadFailed, broken, op>> /\ ~closed'
  BY <1>3 DEF WriteGuardBody, BodyDone
<1>5. BodyOK(j)
  BY <1>2, <1>3, <1>4 DEF ArenaInv, OpOK
<1>6. /\ \A i \in Tasks : i # j => task'[i] = task[i]
      /\ \A i \in Tasks : task'[i].kind = task[i].kind
      /\ \A i \in Tasks : task'[i].at = "writing" => task'[i] = task[i]
  BY <1>3, <1>4, Leaving
<1>7. MapOK' /\ OpOK' /\ PromotionsOK' /\ Mapped' = Mapped
  BY <1>4, <1>6, LeavingKeeps
<1>8. closed => closed'
  BY <1>3 DEF WriteGuardBody
<1>9. PICK T, put :
         /\ T = IF op.kind = "write" THEN op.tokens \ {t \in op.tokens : map[t] # Canonical[t]}
                ELSE op.tokens
         /\ put = [t \in op.tokens |-> {map[t], Canonical[t]} \cap task[j].writing]
         /\ Superseded(T, put)
  BY <1>2, <1>3 DEF BodyDone
<1>10. /\ baseline' = IF op.kind = "write" THEN baseline \cup op.tokens ELSE baseline
      /\ selected' = IF op.kind = "ready" THEN selected \cup op.tokens ELSE selected
  BY DEF BodyDone
<1>11. op.tokens \in SUBSET Tokens
  BY DEF ArenaInv, ArenaTypes
<1>12. T \in SUBSET Tokens /\ T \subseteq op.tokens
  BY <1>9, <1>11
<1>13. ASSUME NEW t \in Mapped', t \in T PROVE map'[t] \in put[t]
  <2>1. t \in op.tokens /\ map'[t] = map[t]
    BY <1>4, <1>12, <1>13
  <2>2. map[t] \in task[j].writing
    <3>1. CASE op.kind = "update"
      BY <1>5, <2>1, <3>1 DEF BodyOK
    <3>2. CASE op.kind # "update"
      <4>1. map[t] = Canonical[t] /\ task[j].writing = Canonicals(op.tokens)
        BY <1>3, <1>5, <1>9, <1>13, <2>1, <3>2 DEF BodyOK
      <4> QED BY <2>1, <4>1 DEF Canonicals
    <3> QED BY <3>1, <3>2
  <2> QED BY <1>9, <2>1, <2>2
<1>14. ASSUME NEW t \in Mapped', HasRow(t)', t \notin T
       PROVE  t \in Mapped /\ HasRow(t) /\ map'[t] = map[t] /\ map[t] \notin task[j].writing
  <2>1. t \in Mapped /\ map'[t] = map[t] /\ t \in Tokens /\ MapOK
    BY <1>4, <1>7, MappedAt DEF ArenaInv
  <2>2. t \in op.tokens => op.kind = "write" /\ map[t] # Canonical[t]
    BY <1>9, <1>14
  <2>3. HasRow(t)
    BY <1>10, <1>14, <2>1, <2>2 DEF HasRow
  <2>4. ASSUME map[t] \in task[j].writing PROVE FALSE
    <3>1. CASE op.kind = "update"
      <4>1. t \notin op.tokens /\ op.tokens \subseteq Mapped
        BY <1>5, <2>2, <3>1 DEF BodyOK
      <4>2. PICK u \in op.tokens : map[t] = map[u] \/ (map[t] = Canonical[u] /\ map[t] # map[u])
        BY <1>5, <2>4, <3>1 DEF BodyOK
      <4>3. u \in Mapped /\ u \in Tokens
        BY <1>11, <4>1
      <4>4. CASE map[t] = map[u]
        BY <2>1, <4>1, <4>3, <4>4, OneToOne
      <4>5. CASE map[t] = Canonical[u]
        BY <1>3, <2>1, <4>1, <4>3, <4>5, NativeOwner
      <4> QED BY <4>2, <4>4, <4>5
    <3>2. CASE op.kind # "update"
      <4>1. PICK u \in op.tokens : map[t] = Canonical[u]
        BY <1>5, <2>4, <3>2 DEF BodyOK, Canonicals
      <4>2. u = t
        BY <1>3, <1>11, <2>1, <4>1, NativeOwner
      <4> QED BY <2>2, <4>1, <4>2
    <3> QED BY <3>1, <3>2
  <2> QED BY <2>1, <2>3, <2>4
<1>15. \A t \in Mapped' : t \in T => map'[t] \in put[t]
  BY <1>13
<1>16. \A t \in Mapped' : HasRow(t)' /\ t \notin T =>
          t \in Mapped /\ HasRow(t) /\ map'[t] = map[t] /\ map[t] \notin task[j].writing
  BY <1>14
<1>17. RowsOK' /\ latest' \in [Slots -> SUBSET Tokens]
  <2>1. ArenaTypes /\ RowsOK /\ Superseded(T, put) /\ T \in SUBSET Tokens
    BY <1>9, <1>12 DEF ArenaInv
  <2> QED BY <1>6, <1>8, <1>15, <1>16, <2>1, PutRows
<1>18. ArenaTypes'
  BY <1>3, <1>4, <1>10, <1>17 DEF ArenaInv, ArenaTypes
<1> QED BY <1>7, <1>17, <1>18 DEF ArenaInv

\* A failed write retires the map.
LEMMA BodyFailsKeeps ==
    ASSUME IInv, ArenaInv, BodyFails \/ DecodeFails
    PROVE  ArenaInv'
<1>1. /\ op.by \in Tasks /\ task' = [task EXCEPT ![op.by].at = "releasing"]
      /\ UNCHANGED <<map, arena, op, latest>> /\ closed'
  BY DEF ArenaInv, OpOK, BodyFails, DecodeFails, WriteGuardBody, DecodeFailed
<1>2. /\ \A i \in Tasks : task'[i].kind = task[i].kind
      /\ \A i \in Tasks : task'[i].at = "writing" => task'[i] = task[i]
  BY <1>1, Leaving
<1>3. MapOK' /\ OpOK' /\ PromotionsOK'
  BY <1>1, <1>2, LeavingKeeps DEF arena
<1>4. RowsOK' /\ ArenaTypes'
  BY <1>1 DEF ArenaInv, RowsOK, ArenaTypes, arena
<1> QED BY <1>3, <1>4 DEF ArenaInv

\* What is left of a call that gives its guards back.
LEMMA Releasing ==
    ASSUME IInv, NEW j \in Tasks, Release(j)
    PROVE  /\ task[j].at = "releasing" /\ UNCHANGED <<map, closed>>
           /\ task'[j] = Idle /\ Idle.at = "idle" /\ Idle.kind = "none"
           /\ \A i \in Tasks : i # j => task'[i] = task[i]
BY DEF Release, IInv, TypeOK, Idle

\* The call returns: its body was left before.
LEMMA ReturnKeeps ==
    ASSUME IInv, ArenaInv, Return
    PROVE  ArenaInv'
<1>1. op.by \in Tasks /\ Release(op.by) /\ op' = NoOp /\ UNCHANGED <<arena, latest>>
  BY DEF Return, ArenaInv, OpOK
<1>2. /\ task[op.by].at = "releasing" /\ UNCHANGED <<map, closed>>
      /\ task'[op.by] = Idle /\ Idle.at = "idle" /\ Idle.kind = "none"
      /\ \A i \in Tasks : i # op.by => task'[i] = task[i]
  BY <1>1, Releasing
<1>3. MapOK' /\ Mapped' = Mapped
  BY <1>1, <1>2, MapKeeps DEF ArenaInv, arena
<1>4. RowsOK'
  BY <1>1, <1>2, LeaveRows DEF ArenaInv, arena
<1>5. /\ OpOK' /\ op'.kind = "none"
      /\ op' \in [kind : {"none", "write", "ready", "update", "decode", "gather"},
                  by : Tasks \cup Readers \cup {None}, tokens : SUBSET Tokens]
  BY <1>1, NoCall
<1>6. ArenaTypes'
  BY <1>1, <1>5 DEF ArenaInv, ArenaTypes, arena
<1>7. PromotionsOK'
  <2>1. /\ \A i \in Tasks : Promoting(i)' => task'[i] = task[i]
        /\ \A i \in Tasks : Open(i)' => Open(i)
    BY <1>2 DEF Promoting, Open
  <2>2. (Decoded \/ op.kind \in {"ready", "update", "decode"})' => Decoded
    BY <1>1, <1>5 DEF Decoded, arena
  <2> QED BY <1>3, <2>1, <2>2, PromotionsKeep DEF ArenaInv
<1> QED BY <1>3, <1>4, <1>5, <1>6, <1>7 DEF ArenaInv

\* The promotion gives its guards back: it was published or refused before.
LEMMA PromotionDoneKeeps ==
    ASSUME IInv, ArenaInv, NEW j \in Tasks, PromotionDone(j)
    PROVE  ArenaInv'
<1>1. Open(j) /\ Release(j) /\ UNCHANGED <<arena, op, latest>>
  BY DEF PromotionDone
<1>2. /\ task[j].at = "releasing" /\ UNCHANGED <<map, closed>>
      /\ task'[j] = Idle /\ Idle.at = "idle" /\ Idle.kind = "none"
      /\ \A i \in Tasks : i # j => task'[i] = task[i]
  BY <1>1, Releasing
<1>3. MapOK' /\ Mapped' = Mapped
  BY <1>1, <1>2, MapKeeps DEF ArenaInv, arena
<1>4. RowsOK'
  BY <1>1, <1>2, LeaveRows DEF ArenaInv, arena
<1>5. OpOK'
  <2>1. op.kind \in {"write", "ready", "update", "decode"} => op.by \in Tasks /\ op.by # j
    BY <1>1 DEF ArenaInv, OpOK, Open
  <2>2. op.kind \in {"write", "ready", "update", "decode"} => task'[op.by] = task[op.by]
    BY <1>2, <2>1
  <2> QED BY <1>1, <1>2, <2>2, OpKeeps DEF ArenaInv, arena
<1>6. ArenaTypes'
  BY <1>1 DEF ArenaInv, ArenaTypes, arena
<1>7. PromotionsOK'
  <2>1. /\ \A i \in Tasks : Promoting(i)' => task'[i] = task[i]
        /\ \A i \in Tasks : Open(i)' => Open(i)
    BY <1>2 DEF Promoting, Open
  <2>2. (Decoded \/ op.kind \in {"ready", "update", "decode"})' =>
               \/ Decoded \/ op.kind \in {"ready", "update", "decode"}
               \/ \A i \in Tasks : ~Open(i)
    BY <1>1 DEF Decoded, arena
  <2> QED BY <1>3, <2>1, <2>2, PromotionsKeep DEF ArenaInv
<1> QED BY <1>3, <1>4, <1>5, <1>6, <1>7 DEF ArenaInv

\* decode reserves its slot and mirror: a hole and the token's own slot.
LEMMA DecodeShape ==
    ASSUME IInv, NEW j \in Tasks, NEW t \in Tokens, NEW p \in Slots, DecodeGuard(j, t, p)
    PROVE  \E call \in TaskType :
              /\ task' = [task EXCEPT ![j] = call] /\ task[j] = Idle
              /\ call.at = "writing" /\ call.kind = "decode" /\ call.tokens = {t}
              /\ call.writing \cap Valid = {}
<1>1. PICK s \in Destination(t, p, TRUE) :
          Reserve(j, [Idle EXCEPT !.at = "writing", !.kind = "decode", !.tokens = {t},
                                  !.target = {<<t, s>>}, !.guarded = {s, p},
                                  !.writing = {s, p}])
  BY DEF DecodeGuard
<1>2. \A x \in {s, p} : x \in Slots /\ x \notin Valid
  BY DestinationApart
<1>3. PICK call : call = [Idle EXCEPT !.at = "writing", !.kind = "decode", !.tokens = {t},
                                      !.target = {<<t, s>>}, !.guarded = {s, p},
                                      !.writing = {s, p}]
  OBVIOUS
<1>4. call = [at |-> "writing", kind |-> "decode", tokens |-> {t}, source |-> {},
              target |-> {<<t, s>>}, guarded |-> {s, p}, writing |-> {s, p}, fresh |-> {}]
  BY <1>3 DEF Idle
<1>5. call \in TaskType /\ call.at = "writing" /\ call.kind = "decode" /\ call.tokens = {t}
      /\ call.writing = {s, p}
  BY <1>2, <1>4 DEF TaskType
<1>6. task' = [task EXCEPT ![j] = call] /\ task[j] = Idle
  BY <1>1, <1>3 DEF Reserve, DecodeGuard
<1> QED BY <1>2, <1>5, <1>6

\* It takes no slot that holds a row.
LEMMA DecodeWriters ==
    ASSUME Assumptions, IInv, Decode, NEW s \in Valid, s \in Slots
    PROVE  writes'[s] = writes[s]
<1>1. PICK t \in Tokens : t = length
  BY DEF Decode
<1>2. PICK j \in Tasks : DecodeGuard(j, t, Canonical[t])
  BY <1>1 DEF Decode
<1>3. PICK p \in Slots : p = Canonical[t]
  BY ArenaConstants
<1>4. PICK x \in Destination(t, p, TRUE) :
          Reserve(j, [Idle EXCEPT !.at = "writing", !.kind = "decode", !.tokens = {t},
                                  !.target = {<<t, x>>}, !.guarded = {x, p},
                                  !.writing = {x, p}])
  BY <1>2, <1>3 DEF DecodeGuard
<1>5. x \notin Valid /\ p \notin Valid
  BY <1>4, DestinationApart
<1>6. PICK call : call = [Idle EXCEPT !.at = "writing", !.kind = "decode", !.tokens = {t},
                                      !.target = {<<t, x>>}, !.guarded = {x, p},
                                      !.writing = {x, p}]
  OBVIOUS
<1>7. call.writing = {x, p}
  BY <1>6 DEF Idle
<1>8. writes' = Plus(writes, {x, p})
  BY <1>4, <1>6, <1>7 DEF Reserve
<1> QED BY <1>5, <1>8 DEF Plus

\* The part of Decode that is not in the map.
LEMMA DecodeFacts ==
    ASSUME Assumptions, IInv, Decode
    PROVE  /\ PromotionsDone /\ UNCHANGED <<arena, map, closed>>
           /\ \E j \in Tasks : \E call \in TaskType :
                 /\ task' = [task EXCEPT ![j] = call] /\ task[j] = Idle
                 /\ call.at = "writing" /\ call.kind = "decode" /\ call.tokens = {length}
                 /\ call.writing \cap Valid = {}
                 /\ op' = [kind |-> "decode", by |-> j, tokens |-> {length}]
                 /\ Blank(task'[j].writing)
<1>1. PICK t \in Tokens : t = length
  BY DEF Decode
<1>2. PICK j \in Tasks : /\ DecodeGuard(j, t, Canonical[t])
                         /\ op' = [kind |-> "decode", by |-> j, tokens |-> {t}]
                         /\ Blank(task'[j].writing)
  BY <1>1 DEF Decode
<1>3. Canonical[t] \in Slots
  BY ArenaConstants
<1>4. \E call \in TaskType :
              /\ task' = [task EXCEPT ![j] = call] /\ task[j] = Idle
              /\ call.at = "writing" /\ call.kind = "decode" /\ call.tokens = {t}
              /\ call.writing \cap Valid = {}
  BY <1>2, <1>3, DecodeShape
<1>5. PromotionsDone /\ UNCHANGED <<arena, map, closed>>
  BY <1>2 DEF Decode, Decodes, DecodeGuard
<1> QED BY <1>1, <1>2, <1>4, <1>5

\* decode begins only when every promotion is over.
LEMMA DecodeKeeps ==
    ASSUME Assumptions, IInv, ArenaInv, Decode
    PROVE  ArenaInv'
<1>1. PICK j \in Tasks, call \in TaskType :
                 /\ task' = [task EXCEPT ![j] = call] /\ task[j] = Idle
                 /\ call.at = "writing" /\ call.kind = "decode" /\ call.tokens = {length}
                 /\ call.writing \cap Valid = {}
                 /\ op' = [kind |-> "decode", by |-> j, tokens |-> {length}]
                 /\ Blank(task'[j].writing)
  BY DecodeFacts
<1>2. /\ PromotionsDone
      /\ UNCHANGED <<map, closed, length, baseline, selected, loading, loadFailed, broken>>
  BY DecodeFacts DEF arena
<1>3. task'[j] = call /\ \A i \in Tasks : i # j => task'[i] = task[i]
  BY <1>1 DEF IInv, TypeOK
<1>4. RowsOK' /\ latest' \in [Slots -> SUBSET Tokens]
  BY <1>1, <1>2, StartRows DEF ArenaInv
<1>5. MapOK' /\ Mapped' = Mapped
  BY <1>2, MapKeeps DEF ArenaInv
<1>6. /\ op'.kind = "decode" /\ op'.by = j /\ op'.tokens = {length}
      /\ op' \in [kind : {"none", "write", "ready", "update", "decode", "gather"},
                  by : Tasks \cup Readers \cup {None}, tokens : SUBSET Tokens]
  BY <1>1 DEF Decode
<1>7. ArenaTypes'
  BY <1>2, <1>4, <1>6 DEF ArenaInv, ArenaTypes
<1>8. OpOK'
  BY <1>1, <1>2, <1>3, <1>6 DEF OpOK
<1>9. PromotionsOK'
  <2>1. /\ \A i \in Tasks : Promoting(i)' => task'[i] = task[i]
        /\ \A i \in Tasks : Open(i)' => Open(i)
    BY <1>1, <1>3 DEF Promoting, Open
  <2>2. \A i \in Tasks : ~Open(i)
    BY <1>2 DEF PromotionsDone
  <2> QED BY <1>5, <2>1, <2>2, PromotionsKeep DEF ArenaInv
<1> QED BY <1>4, <1>5, <1>7, <1>8, <1>9 DEF ArenaInv

\* What a written decode does: its token is mapped to a slot that held no row.
LEMMA WrittenFacts ==
    ASSUME IInv, ArenaInv, DecodeWritten
    PROVE  \E j \in Tasks :
              /\ op.kind = "decode" /\ op.by = j /\ op.tokens = {length} /\ length \in Tokens
              /\ task[j].at = "writing" /\ task' = [task EXCEPT ![j].at = "releasing"]
              /\ task[j].writing \cap Valid = {}
              /\ map'[length] \in task[j].writing
              /\ \A t \in Tokens : t # length => map'[t] = map[t]
              /\ Mapped' = Mapped \cup {length}
              /\ Superseded({length}, [t \in {length} |-> task[j].writing])
              /\ length' = length + 1 /\ ~closed /\ ~closed'
              /\ UNCHANGED <<writes, baseline, selected, loading, loadFailed, broken, op>>
<1>1. PICK j \in Tasks : j = op.by
  BY DEF DecodeWritten, ArenaInv, OpOK
<1>2. /\ op.kind = "decode" /\ task[j].at = "writing" /\ Decoding(j) /\ Moved(j)
      /\ task' = [task EXCEPT ![j].at = "releasing"]
      /\ length' = length + 1 /\ ~closed /\ ~closed'
      /\ UNCHANGED <<writes, baseline, selected, loading, loadFailed, broken, op>>
      /\ Superseded(op.tokens, [t \in op.tokens |-> task[j].writing])
  BY <1>1 DEF DecodeWritten, DecodeDone, Decoding, counts
<1>3. op.tokens = {length} /\ task[j].tokens = {length}
  BY <1>1, <1>2 DEF ArenaInv, OpOK
<1>4. length \in Tokens
  BY <1>3 DEF ArenaInv, ArenaTypes
<1>5. TargetOK(task[j]) /\ task[j].writing \cap Valid = {}
  BY <1>2 DEF IInv, CallsOK, OwnOK
<1>6. /\ \A t \in task[j].tokens : map'[t] \in task[j].writing
      /\ \A t \in Tokens : t \notin task[j].tokens => map'[t] = map[t]
      /\ Mapped' = Mapped \cup task[j].tokens
  BY <1>2, <1>5, MovedTo
<1> QED BY <1>1, <1>2, <1>3, <1>4, <1>5, <1>6

\* The decoded token gets the row that was written for it.
LEMMA DecodeWrittenKeeps ==
    ASSUME Assumptions, IInv, IInv', ArenaInv, DecodeWritten
    PROVE  ArenaInv'
<1>1. PICK j \in Tasks :
              /\ op.kind = "decode" /\ op.by = j /\ op.tokens = {length} /\ length \in Tokens
              /\ task[j].at = "writing" /\ task' = [task EXCEPT ![j].at = "releasing"]
              /\ task[j].writing \cap Valid = {}
              /\ map'[length] \in task[j].writing
              /\ \A t \in Tokens : t # length => map'[t] = map[t]
              /\ Mapped' = Mapped \cup {length}
              /\ Superseded({length}, [t \in {length} |-> task[j].writing])
              /\ length' = length + 1 /\ ~closed /\ ~closed'
              /\ UNCHANGED <<writes, baseline, selected, loading, loadFailed, broken, op>>
  BY WrittenFacts
<1>2. /\ task'[j].at = "releasing"
      /\ \A i \in Tasks : i # j => task'[i] = task[i]
      /\ \A i \in Tasks : task'[i].kind = task[i].kind
      /\ \A i \in Tasks : task'[i].at = "writing" => task'[i] = task[i]
  BY <1>1, Leaving
<1>3. /\ Prompt \in Nat /\ Steps \in Nat /\ Tokens = 0 .. Prompt + Steps - 1
      /\ length \in Prompt .. Prompt + Steps
  BY ArenaConstants DEF ArenaInv, ArenaTypes
<1>4. MapOK'
  <2>1. Mapped' = 0 .. length' - 1
    BY <1>1, <1>3 DEF ArenaInv, MapOK
  <2> QED BY <1>1, <1>3, <2>1 DEF MapOK, Decoded
<1>5. OpOK'
  BY <1>1, <1>2 DEF ArenaInv, OpOK
<1>6. PromotionsOK'
  <2>1. /\ \A i \in Tasks : Promoting(i)' => task'[i] = task[i]
        /\ \A i \in Tasks : Open(i)' => Open(i)
    BY <1>2 DEF Promoting, Open
  <2> QED BY <1>1, <2>1, PromotionsKeep DEF ArenaInv
<1>7. \A t \in Mapped' : t \in {length} => map'[t] \in [u \in {length} |-> task[j].writing][t]
  BY <1>1
<1>8. ASSUME NEW t \in Mapped', HasRow(t)', t \notin {length}
      PROVE  t \in Mapped /\ HasRow(t) /\ map'[t] = map[t] /\ map[t] \notin task[j].writing
  <2>1. t \in Mapped
    BY <1>1, <1>8
  <2>2. t \in Tokens /\ map[t] \in Valid
    BY <2>1, MappedAt
  <2> QED BY <1>1, <1>8, <2>1, <2>2 DEF HasRow
<1>9. RowsOK' /\ latest' \in [Slots -> SUBSET Tokens]
  <2>1. \A t \in Mapped' : HasRow(t)' /\ t \notin {length} =>
           t \in Mapped /\ HasRow(t) /\ map'[t] = map[t] /\ map[t] \notin task[j].writing
    BY <1>8
  <2>2. ArenaTypes /\ RowsOK /\ {length} \in SUBSET Tokens
    BY <1>1 DEF ArenaInv
  <2>3. PICK T, put : T = {length} /\ put = [t \in {length} |-> task[j].writing]
    OBVIOUS
  <2> QED BY <1>1, <1>2, <1>7, <2>1, <2>2, <2>3, PutRows
<1>10. ArenaTypes'
  <2>1. length' \in Prompt .. Prompt + Steps
    BY <1>1, <1>3
  <2> QED BY <1>1, <1>9, <2>1 DEF ArenaInv, ArenaTypes
<1> QED BY <1>4, <1>5, <1>6, <1>9, <1>10 DEF ArenaInv

\* A promotion that writes fresh slots only.
Copies(j, T) ==
    \E call \in TaskType :
        /\ task' = [task EXCEPT ![j] = call] /\ task[j] = Idle
        /\ call.at = "writing" /\ call.kind = "promote" /\ call.tokens = T
        /\ call.writing \subseteq call.fresh

\* promote_selected copies every row, into the sidecar.
LEMMA CopyShape ==
    ASSUME IInv, NEW j \in Tasks, NEW T \in SUBSET Tokens, NEW inplace \in BOOLEAN,
           NEW pending \in BOOLEAN, Promote(j, T, inplace, pending), ~inplace
    PROVE  Copies(j, T)
<1>1. task[j] = Idle /\ T \in SUBSET Mapped
  BY DEF Promote, Promotes
<1>2. PICK copied \in SUBSET T : \E S \in SUBSET Available :
               /\ (inplace \/ copied = T) /\ Chosen(T, copied, S)
               /\ \E f \in Bijections(copied, S) : \E dest, call :
                     dest = Destined(T, copied, f) /\ Begins(j, T, pending, S, dest, call)
  BY PromoteShape
<1>3. PICK S \in SUBSET Available :
               /\ (inplace \/ copied = T) /\ Chosen(T, copied, S)
               /\ \E f \in Bijections(copied, S) : \E dest, call :
                     dest = Destined(T, copied, f) /\ Begins(j, T, pending, S, dest, call)
  BY <1>2
<1>4. PICK f \in Bijections(copied, S) : \E dest, call :
               dest = Destined(T, copied, f) /\ Begins(j, T, pending, S, dest, call)
  BY <1>3
<1>5. PICK dest, call : dest = Destined(T, copied, f) /\ Begins(j, T, pending, S, dest, call)
  BY <1>4
<1>6. \A t \in T : dest[t] \in S
  BY <1>3, <1>4, <1>5 DEF Destined, Bijections
<1>7. call = [at |-> "writing", kind |-> "promote", tokens |-> T,
              source |-> {<<t, map[t]>> : t \in T}, target |-> {<<t, dest[t]>> : t \in T},
              guarded |-> {map[t] : t \in T} \cup {dest[t] : t \in T},
              writing |-> {dest[t] : t \in T}, fresh |-> S]
  BY <1>5 DEF Begins
<1>8. \A t \in T : t \in Tokens /\ map[t] \in Slots /\ dest[t] \in Slots
  BY <1>1, <1>6, MappedAt, AvailableApart
<1>9. call \in TaskType
  <2>1. /\ {<<t, map[t]>> : t \in T} \subseteq Tokens \X Slots
        /\ {<<t, dest[t]>> : t \in T} \subseteq Tokens \X Slots
        /\ {map[t] : t \in T} \subseteq Slots /\ {dest[t] : t \in T} \subseteq Slots
        /\ S \subseteq Slots
    BY <1>8, AvailableApart
  <2> QED BY <1>7, <2>1 DEF TaskType
<1>10. /\ call.at = "writing" /\ call.kind = "promote" /\ call.tokens = T
       /\ call.writing \subseteq call.fresh
  BY <1>6, <1>7
<1>11. task' = [task EXCEPT ![j] = call]
  BY <1>5 DEF Begins, Reserve
<1> QED BY <1>1, <1>9, <1>10, <1>11 DEF Copies

\* promote_selected begins before decode and beside no fused update.
LEMMA PromoteSelectedKeeps ==
    ASSUME Assumptions, IInv, ArenaInv, NEW j \in Tasks, NEW T \in SUBSET Tokens,
           NEW source \in {"none", "pending", "done"}, PromoteSelected(j, T, source)
    PROVE  ArenaInv'
<1>1. PICK inplace \in BOOLEAN, pending \in BOOLEAN :
         ~inplace /\ Promote(j, T, inplace, pending)
  BY DEF PromoteSelected
<1>2. PICK call \in TaskType :
              /\ task' = [task EXCEPT ![j] = call] /\ task[j] = Idle
              /\ call.at = "writing" /\ call.kind = "promote" /\ call.tokens = T
              /\ call.writing \subseteq call.fresh
  <2>1. Copies(j, T)
    BY <1>1, CopyShape
  <2> QED BY <2>1 DEF Copies
<1>3. task'[j] = call /\ \A i \in Tasks : i # j => task'[i] = task[i]
  BY <1>2 DEF IInv, TypeOK
<1>4. /\ op = NoOp /\ ~Decoded /\ Blank(task'[j].writing)
      /\ selected' = selected \cup T /\ loading' \in BOOLEAN
      /\ UNCHANGED <<map, closed, length, baseline, loadFailed, broken, op>>
      /\ T \subseteq Mapped
  BY DEF PromoteSelected, Selects, Promote, Promotes, ArenaInv, ArenaTypes
<1>5. RowsOK' /\ latest' \in [Slots -> SUBSET Tokens]
  BY <1>2, <1>4, StartRows DEF ArenaInv
<1>6. MapOK' /\ Mapped' = Mapped
  BY <1>4, MapKeeps DEF ArenaInv
<1>7. T \subseteq PromptTokens
  <2>1. Prompt \in Nat /\ length \in Nat /\ length =< Prompt
    BY <1>4, ArenaConstants DEF ArenaInv, ArenaTypes, Decoded
  <2>2. Mapped = 0 .. length - 1 /\ PromptTokens = 0 .. Prompt - 1
    BY ArenaConstants DEF ArenaInv, MapOK
  <2> QED BY <1>4, <2>1, <2>2
<1>8. ArenaTypes'
  BY <1>4, <1>5, <1>7 DEF ArenaInv, ArenaTypes
<1>9. OpOK'
  BY <1>4 DEF OpOK, NoOp
<1>10. PromotionsOK'
  <2>1. ASSUME NEW i \in Tasks, Promoting(i)'
        PROVE  task'[i].tokens \subseteq Mapped' /\ task'[i].writing \subseteq task'[i].fresh
    <3>1. CASE i = j
      BY <1>2, <1>3, <1>4, <1>6, <3>1
    <3>2. CASE i # j
      <4>1. task'[i] = task[i] /\ Promoting(i)
        BY <1>3, <2>1, <3>2 DEF Promoting
      <4> QED BY <1>6, <4>1 DEF ArenaInv, PromotionsOK
    <3> QED BY <3>1, <3>2
  <2>2. ~(Decoded \/ op.kind \in {"ready", "update", "decode"})'
    BY <1>4 DEF Decoded, NoOp
  <2> QED BY <2>1, <2>2 DEF PromotionsOK
<1> QED BY <1>5, <1>6, <1>8, <1>9, <1>10 DEF ArenaInv

\* finish publishes: what the promotion moves is in the sidecar, the rest stays.
LEMMA PublishedFacts ==
    ASSUME IInv, ArenaInv, NEW j \in Tasks, Published(j)
    PROVE  /\ task[j].at = "writing" /\ task' = [task EXCEPT ![j].at = "releasing"]
           /\ task[j].kind = "promote" /\ Promoting(j)
           /\ \A t \in task[j].tokens : t \in Mapped /\ t \in Tokens /\ map'[t] >= Floor
           /\ \A t \in Tokens : t \notin task[j].tokens => map'[t] = map[t]
           /\ Mapped' = Mapped
           /\ \A t \in Mapped : t \notin task[j].tokens => map[t] \notin task[j].writing
           /\ UNCHANGED <<arena, op, writes, closed>>
<1>1. /\ task[j].at = "writing" /\ task' = [task EXCEPT ![j].at = "releasing"]
      /\ task[j].kind = "promote" /\ Promoting(j) /\ Moved(j)
      /\ UNCHANGED <<arena, op, writes, closed>>
  BY DEF Published, Publish, Promoting, counts
<1>2. PromotionOK(task[j]) /\ TargetOK(task[j])
  BY <1>1 DEF IInv, CallsOK, PromotionOK
<1>3. /\ \A t \in task[j].tokens : t \in Tokens /\ map'[t] \in task[j].writing
      /\ \A t \in Tokens : t \notin task[j].tokens => map'[t] = map[t]
      /\ Mapped' = Mapped \cup task[j].tokens
  BY <1>1, <1>2, MovedTo
<1>4. task[j].tokens \subseteq Mapped /\ task[j].writing \subseteq task[j].fresh
  BY <1>1 DEF ArenaInv, PromotionsOK
<1>5. \A s \in task[j].writing : s >= Floor
  BY <1>2, <1>4 DEF PromotionOK
<1>6. task[j].fresh \cap Valid = {}
  BY <1>1 DEF IInv, OwnOK
<1>7. \A t \in Mapped : map[t] \notin task[j].writing
  BY <1>4, <1>6 DEF Valid
<1> QED BY <1>1, <1>3, <1>4, <1>5, <1>7

\* A publication moves its rows to the sidecar and leaves the others where they are.
LEMMA PublishedKeeps ==
    ASSUME Assumptions, IInv, IInv', ArenaInv, NEW j \in Tasks, Published(j)
    PROVE  ArenaInv'
<1>1. /\ task[j].at = "writing" /\ task' = [task EXCEPT ![j].at = "releasing"]
      /\ task[j].kind = "promote" /\ Promoting(j)
      /\ \A t \in task[j].tokens : t \in Mapped /\ t \in Tokens /\ map'[t] >= Floor
      /\ \A t \in Tokens : t \notin task[j].tokens => map'[t] = map[t]
      /\ Mapped' = Mapped
      /\ \A t \in Mapped : t \notin task[j].tokens => map[t] \notin task[j].writing
      /\ UNCHANGED <<arena, op, writes, closed>>
  BY PublishedFacts
<1>2. /\ \A i \in Tasks : i # j => task'[i] = task[i]
      /\ \A i \in Tasks : task'[i].kind = task[i].kind
      /\ \A i \in Tasks : task'[i].at = "writing" => task'[i] = task[i]
  BY <1>1, Leaving
<1>3. UNCHANGED <<length, baseline, selected, loading, loadFailed, broken, op>>
  BY <1>1 DEF arena
<1>4. MapOK'
  <2>1. ASSUME ~Decoded, NEW t \in Mapped PROVE map'[t] = Canonical[t] \/ map'[t] >= Floor
    <3>1. t \in Tokens
      BY DEF Mapped
    <3> QED BY <1>1, <2>1, <3>1 DEF ArenaInv, MapOK
  <2> QED BY <1>1, <1>3, <2>1 DEF ArenaInv, MapOK, Decoded
<1>5. ~Decoded /\ op.kind \notin {"ready", "update", "decode"}
  BY <1>1 DEF ArenaInv, PromotionsOK, Open
<1>6. OpOK'
  <2>1. ASSUME op.kind = "write"
        PROVE  /\ op.by \in Tasks /\ task'[op.by].kind = "write" /\ op.tokens \subseteq PromptTokens
               /\ task'[op.by].at = "writing" => task'[op.by].writing = Canonicals(op.tokens)
    BY <1>2, <2>1 DEF ArenaInv, OpOK, BodyOK
  <2>2. ~Decoded' /\ op'.kind \notin {"ready", "update", "decode"}
    BY <1>3, <1>5 DEF Decoded
  <2>3. op.kind = "gather" => op.by \in Readers
    BY DEF ArenaInv, OpOK
  <2> QED BY <1>3, <2>1, <2>2, <2>3 DEF OpOK, BodyOK, Canonicals
<1>7. PromotionsOK'
  <2>1. /\ \A i \in Tasks : Promoting(i)' => task'[i] = task[i]
        /\ \A i \in Tasks : Open(i)' => Open(i)
    BY <1>2 DEF Promoting, Open
  <2>2. ~(Decoded \/ op.kind \in {"ready", "update", "decode"})'
    BY <1>3, <1>5 DEF Decoded
  <2> QED BY <1>1, <2>1, <2>2, PromotionsKeep DEF ArenaInv
<1>8. PICK T, put : /\ T = task[j].tokens /\ put = [t \in task[j].tokens |-> {map'[t]}]
                    /\ Superseded(T, put)
  BY DEF Published
<1>9. ASSUME NEW t \in Mapped', HasRow(t)', t \notin T
      PROVE  t \in Mapped /\ HasRow(t) /\ map'[t] = map[t] /\ map[t] \notin task[j].writing
  <2>1. t \in Tokens
    BY DEF Mapped
  <2> QED BY <1>1, <1>3, <1>8, <1>9, <2>1 DEF HasRow
<1>10. RowsOK' /\ latest' \in [Slots -> SUBSET Tokens]
  <2>1. \A t \in Mapped' : HasRow(t)' /\ t \notin T =>
           t \in Mapped /\ HasRow(t) /\ map'[t] = map[t] /\ map[t] \notin task[j].writing
    BY <1>9
  <2>2. \A t \in Mapped' : t \in T => map'[t] \in put[t]
    BY <1>8
  <2>3. T \in SUBSET Tokens
    BY <1>1, <1>8
  <2>4. ArenaTypes /\ RowsOK /\ (closed => closed')
    BY <1>1 DEF ArenaInv
  <2> QED BY <1>2, <1>8, <2>1, <2>2, <2>3, <2>4, PutRows
<1>11. ArenaTypes'
  BY <1>3, <1>10 DEF ArenaInv, ArenaTypes
<1> QED BY <1>4, <1>6, <1>7, <1>10, <1>11 DEF ArenaInv

\* A refused promotion leaves slots that nothing maps to.
LEMMA RefusedKeeps ==
    ASSUME IInv, ArenaInv, NEW j \in Tasks, Refused(j)
    PROVE  ArenaInv'
<1>1. /\ task[j].at = "writing" /\ task' = [task EXCEPT ![j].at = "releasing"] /\ Promoting(j)
      /\ UNCHANGED <<map, closed, length, baseline, selected, loading, loadFailed, op, latest>>
      /\ broken' = TRUE
  BY DEF Refused, PublishRefused, Promoting
<1>2. /\ \A i \in Tasks : i # j => task'[i] = task[i]
      /\ \A i \in Tasks : task'[i].kind = task[i].kind
      /\ \A i \in Tasks : task'[i].at = "writing" => task'[i] = task[i]
  BY <1>1, Leaving
<1>3. MapOK' /\ OpOK' /\ PromotionsOK'
  BY <1>1, <1>2, LeavingKeeps
<1>4. task[j].writing \cap Valid = {}
  <2>1. task[j].writing \subseteq task[j].fresh /\ task[j].fresh \cap Valid = {}
    BY <1>1 DEF ArenaInv, PromotionsOK, IInv, OwnOK
  <2> QED BY <2>1
<1>5. RowsOK'
  BY <1>1, <1>2, <1>4, LeaveRows DEF ArenaInv
<1>6. ArenaTypes'
  BY <1>1 DEF ArenaInv, ArenaTypes
<1> QED BY <1>3, <1>5, <1>6 DEF ArenaInv

\* The steps outside of the calls that write.
Quiet ==
    \/ UNCHANGED arenaVars \/ Retire \/ SourceDone \/ GatherDone
    \/ \E j \in Tasks : \/ LoadCallback(j)
                        \/ \E T \in SUBSET Tokens : PromoteSelectedDenied(j, T)
    \/ \E r \in Readers : \/ \E T \in SUBSET Tokens : Gather(r, T)
                          \/ \E S \in SUBSET Valid : PinSlots(r, S)
                          \/ UnpinSlots(r)

\* They change no row.
LEMMA QuietSteps == ASSUME ArenaInv, Quiet PROVE ArenaInv'
<1>1. CASE UNCHANGED arenaVars
  <2>1. UNCHANGED <<map, task, latest, length, baseline, selected, loading, loadFailed, broken,
                    closed, op>>
    BY <1>1 DEF arenaVars, vars, arena
  <2> QED BY <2>1, QuietKeeps DEF ArenaInv, ArenaTypes
<1>2. CASE Retire
  <2>1. /\ UNCHANGED <<map, task, latest, length, baseline, selected, loading, loadFailed, broken, op>>
        /\ closed'
    BY <1>2 DEF Retire, Invalidate, arena
  <2> QED BY <2>1, QuietKeeps DEF ArenaInv, ArenaTypes
<1>3. CASE SourceDone
  <2>1. /\ UNCHANGED <<map, task, latest, length, baseline, selected, loading, broken, closed, op>>
        /\ loadFailed' \in BOOLEAN
    BY <1>3 DEF SourceDone, LoadDone
  <2> QED BY <2>1, QuietKeeps DEF ArenaInv, ArenaTypes
<1>4. CASE GatherDone
  <2>1. /\ UNCHANGED <<map, task, latest, length, baseline, selected, loading, loadFailed, broken,
                       closed>>
        /\ op' = NoOp
    BY <1>4 DEF GatherDone, Unpin, arena
  <2>2. /\ op'.kind = "none"
        /\ op' \in [kind : {"none", "write", "ready", "update", "decode", "gather"},
                    by : Tasks \cup Readers \cup {None}, tokens : SUBSET Tokens]
    BY <2>1, NoCall
  <2>3. ArenaTypes'
    BY <2>1, <2>2 DEF ArenaInv, ArenaTypes
  <2> QED BY <2>1, <2>2, <2>3, QuietKeeps
<1>5. ASSUME NEW j \in Tasks, \/ LoadCallback(j)
                              \/ \E T \in SUBSET Tokens : PromoteSelectedDenied(j, T)
      PROVE  ArenaInv'
  <2>1. UNCHANGED <<map, task, latest, length, baseline, selected, loading, loadFailed, broken,
                    closed, op>>
    BY <1>5 DEF LoadCallback, LoadFinished, PromoteSelectedDenied, PromoteDenied, arena
  <2> QED BY <2>1, QuietKeeps DEF ArenaInv, ArenaTypes
<1>6. ASSUME NEW r \in Readers, \/ \E S \in SUBSET Valid : PinSlots(r, S)
                                \/ UnpinSlots(r)
      PROVE  ArenaInv'
  <2>1. UNCHANGED <<map, task, latest, length, baseline, selected, loading, loadFailed, broken,
                    closed, op>>
    BY <1>6 DEF PinSlots, UnpinSlots, Pin, Unpin, arena
  <2> QED BY <2>1, QuietKeeps DEF ArenaInv, ArenaTypes
<1>7. ASSUME NEW r \in Readers, NEW T \in SUBSET Tokens, Gather(r, T) PROVE ArenaInv'
  <2>1. /\ UNCHANGED <<map, task, latest, length, baseline, selected, loading, loadFailed, broken,
                       closed>>
        /\ op' = [kind |-> "gather", by |-> r, tokens |-> T]
    BY <1>7 DEF Gather, Pin, arena
  <2>2. ArenaTypes'
    BY <2>1 DEF ArenaInv, ArenaTypes
  <2> QED BY <2>1, <2>2, QuietKeeps
<1> QED BY <1>1, <1>2, <1>3, <1>4, <1>5, <1>6, <1>7 DEF Quiet

-----------------------------------------------------------------------------
(* The invariant of the arena, and what it implies                          *)

\* The prompt is in its native slots, and no row was written.
LEMMA ArenaInvInit == ASSUME Assumptions, ArenaInit PROVE IInv /\ ArenaInv
<1>1. /\ length = Prompt /\ baseline = {} /\ selected = {}
      /\ loading = FALSE /\ loadFailed = FALSE /\ broken = FALSE
      /\ op = NoOp /\ latest = [s \in Slots |-> {}]
      /\ map = [t \in Tokens |-> IF t \in DOMAIN Initial THEN Initial[t] ELSE None]
      /\ task = [j \in Tasks |-> Idle]
  BY DEF ArenaInit, Init
<1>2. IInv
  BY IInvInit DEF ArenaInit
<1>3. /\ Prompt \in Nat /\ Steps \in Nat /\ PromptTokens = 0 .. Prompt - 1
      /\ PromptTokens \subseteq Tokens /\ DOMAIN Initial = PromptTokens
      /\ \A t \in PromptTokens : Initial[t] = Canonical[t] /\ Canonical[t] \in Slots
  <2>1. PromptTokens \subseteq Tokens
    BY ArenaConstants
  <2> QED BY <2>1, ArenaConstants
<1>4. NoOp.kind = "none" /\ NoOp \in [kind : {"none", "write", "ready", "update", "decode", "gather"},
               by : Tasks \cup Readers \cup {None}, tokens : SUBSET Tokens]
  BY DEF NoOp
<1>5. ~Decoded
  BY <1>1, <1>3 DEF Decoded
<1>6. Mapped = PromptTokens /\ \A t \in Mapped : map[t] = Canonical[t]
  <2>1. \A t \in PromptTokens : map[t] = Canonical[t] /\ Canonical[t] # None
    <3>1. None \notin Slots
      BY NoneAssumption DEF Slots
    <3> QED BY <1>1, <1>3, <3>1
  <2>2. \A t \in Tokens \ PromptTokens : map[t] = None
    BY <1>1, <1>3
  <2> QED BY <1>3, <2>1, <2>2 DEF Mapped
<1>7. ArenaTypes
  <2>1. length \in Prompt .. Prompt + Steps /\ latest \in [Slots -> SUBSET Tokens]
    BY <1>1, <1>3
  <2> QED BY <1>1, <1>4, <2>1 DEF ArenaTypes
<1>8. MapOK
  BY <1>1, <1>3, <1>6 DEF MapOK
<1>9. PromotionsOK
  BY <1>1, <1>4, <1>5 DEF PromotionsOK, Promoting, Open, Idle
<1>10. OpOK
  BY <1>1, <1>4 DEF OpOK
<1>11. RowsOK
  BY <1>1, <1>3, <1>6 DEF RowsOK, HasRow
<1> QED BY <1>2, <1>7, <1>8, <1>9, <1>10, <1>11 DEF ArenaInv

\* Every step keeps it.
LEMMA ArenaInvNext ==
    ASSUME Assumptions, IInv, ArenaInv, [ArenaNext]_arenaVars
    PROVE  IInv' /\ ArenaInv'
<1>1. IInv'
  BY ArenaSteps, IInvNext
<1>2. ASSUME NEW T \in SUBSET Tokens, Write(T) \/ WriteSelectedReady(T) \/ UpdateSelected(T)
      PROVE  ArenaInv'
  BY <1>2, WritesKeep
<1>3. ASSUME BodyDone \/ BodyFails \/ Return PROVE ArenaInv'
  BY <1>1, <1>3, BodyDoneKeeps, BodyFailsKeeps, ReturnKeeps
<1>4. ASSUME Decode \/ DecodeWritten \/ DecodeFails PROVE ArenaInv'
  BY <1>1, <1>4, DecodeKeeps, DecodeWrittenKeeps, BodyFailsKeeps
<1>5. ASSUME NEW j \in Tasks, NEW T \in SUBSET Tokens,
             \E source \in {"none", "pending", "done"} : PromoteSelected(j, T, source)
      PROVE  ArenaInv'
  BY <1>5, PromoteSelectedKeeps
<1>6. ASSUME NEW j \in Tasks, Published(j) \/ Refused(j) \/ PromotionDone(j) PROVE ArenaInv'
  BY <1>1, <1>6, PublishedKeeps, RefusedKeeps, PromotionDoneKeeps
<1>7. ASSUME Quiet PROVE ArenaInv'
  BY <1>7, QuietSteps
<1>8. ArenaInv'
  BY <1>2, <1>3, <1>4, <1>5, <1>6, <1>7 DEF ArenaNext, Arena, Quiet
<1> QED BY <1>1, <1>8

\* So it always holds.
LEMMA ArenaInvariance == ASSUME Assumptions PROVE ArenaSpec => [](IInv /\ ArenaInv)
<1>1. ArenaInit => IInv /\ ArenaInv
  BY ArenaInvInit
<1>2. IInv /\ ArenaInv /\ [ArenaNext]_arenaVars => (IInv /\ ArenaInv)'
  BY ArenaInvNext
<1> QED BY <1>1, <1>2, PTL DEF ArenaSpec

\* An arena drives its map only as LayerSlotMap allows.
THEOREM ArenaImplementsMap == ASSUME Assumptions PROVE ArenaSpec => Spec
<1>1. ArenaInit => Init
  BY DEF ArenaInit
<1>2. IInv /\ ArenaInv /\ [ArenaNext]_arenaVars => [Next]_vars
  BY ArenaSteps
<1> QED BY <1>1, <1>2, ArenaInvariance, PTL DEF ArenaSpec, Spec

\* Every variable of the arena stays in its type.
THEOREM ArenaTypesHold == ASSUME Assumptions PROVE ArenaSpec => []ArenaTypeOK
<1>1. IInv /\ ArenaInv => ArenaTypeOK
  BY DEF IInv, ArenaInv, ArenaTypes, ArenaTypeOK
<1> QED BY <1>1, ArenaInvariance, PTL

\* gather finds each token's current row, complete.
THEOREM ArenaRowsCurrent == ASSUME Assumptions PROVE ArenaSpec => []RowsCurrent
<1>1. IInv /\ ArenaInv => RowsCurrent
  <2> SUFFICES ASSUME IInv, ArenaInv, ~closed, NEW t \in Mapped, HasRow(t)
               PROVE  t \in latest[map[t]] \/ writes[map[t]] > 0
    BY DEF RowsCurrent
  <2>1. Covered(t)
    BY DEF ArenaInv, RowsOK
  <2> QED BY <2>1, Written DEF Covered
<1> QED BY <1>1, ArenaInvariance, PTL

\* Once a token was decoded, the rows before it are only read.
THEOREM ArenaAppendOnly == ASSUME Assumptions PROVE ArenaSpec => AppendOnly
<1> DEFINE Stays == Decoded => \A t \in 0 .. length - 1 :
                       /\ map'[t] = map[t] /\ writes'[map[t]] =< writes[map[t]]
                       /\ t \in latest[map[t]] => t \in latest'[map[t]]
<1>1. ASSUME IInv, ArenaInv, [ArenaNext]_arenaVars, Decoded PROVE Stays
  <2>1. ASSUME NEW t \in 0 .. length - 1
        PROVE  /\ t \in Mapped /\ t \in Tokens /\ map[t] \in Slots /\ map[t] \in Valid
               /\ writes[map[t]] \in Nat /\ t # length
    <3>1. t \in Mapped /\ length \in Nat
      BY <1>1, ArenaConstants DEF ArenaInv, MapOK, ArenaTypes
    <3> QED BY <1>1, <3>1, MappedAt DEF IInv, TypeOK
  <2>2. ASSUME UNCHANGED <<map, writes, latest>> PROVE Stays
    BY <2>1, <2>2
  <2>3. ASSUME NEW j \in Tasks, Release(j), UNCHANGED latest PROVE Stays
    <3>1. writes' = Minus(writes, task[j].writing) /\ UNCHANGED map
      BY <2>3 DEF Release
    <3> QED BY <2>1, <2>3, <3>1 DEF Minus
  <2>4. ASSUME Decode PROVE Stays
    <3>1. PICK j \in Tasks, call \in TaskType :
                 /\ task' = [task EXCEPT ![j] = call] /\ task[j] = Idle
                 /\ call.writing \cap Valid = {} /\ Blank(task'[j].writing)
      BY <1>1, <2>4, DecodeFacts
    <3>2. UNCHANGED map
      BY <1>1, <2>4, DecodeFacts
    <3>3. task'[j] = call
      BY <1>1, <3>1 DEF IInv, TypeOK
    <3>4. \A s \in Valid : s \in Slots => latest'[s] = latest[s]
      BY <3>1, <3>3 DEF Blank
    <3>5. \A s \in Valid : s \in Slots => writes'[s] = writes[s]
      BY <1>1, <2>4, DecodeWriters
    <3> QED BY <2>1, <3>2, <3>4, <3>5
  <2>5. ASSUME DecodeWritten PROVE Stays
    <3>1. PICK j \in Tasks :
              /\ \A t \in Tokens : t # length => map'[t] = map[t]
              /\ Superseded({length}, [t \in {length} |-> task[j].writing])
              /\ UNCHANGED writes
      BY <1>1, <2>5, WrittenFacts
    <3>2. \A s \in Slots : latest[s] \ {length} \subseteq latest'[s]
      BY <3>1 DEF Superseded
    <3> QED BY <2>1, <3>1, <3>2
  <2>6. \A i \in Tasks : ~Open(i)
    BY <1>1 DEF ArenaInv, PromotionsOK
  <2>7. op.kind \notin {"write", "ready", "update"}
    BY <1>1 DEF ArenaInv, OpOK
  <2>8. ASSUME NEW T \in SUBSET Tokens, Write(T) \/ WriteSelectedReady(T) \/ UpdateSelected(T)
        PROVE  FALSE
    BY <1>1, <2>8 DEF Write, WritesBaseline, WriteSelectedReady, UpdateSelected
  <2>9. ASSUME BodyDone \/ BodyFails PROVE FALSE
    BY <2>7, <2>9 DEF BodyDone, BodyFails
  <2>10. ASSUME Return PROVE Stays
    <3>1. PICK j \in Tasks : j = op.by
      BY <1>1, <2>10 DEF Return, ArenaInv, OpOK
    <3> QED BY <2>3, <2>10, <3>1 DEF Return
  <2>11. ASSUME DecodeFails \/ Retire \/ SourceDone \/ GatherDone \/ UNCHANGED arenaVars
         PROVE  UNCHANGED <<map, writes, latest>>
    BY <2>11 DEF DecodeFails, DecodeFailed, Retire, Invalidate, SourceDone, LoadDone, GatherDone,
                 Unpin, arenaVars, vars, counts
  <2>12. ASSUME NEW j \in Tasks, NEW T \in SUBSET Tokens,
                \/ \E source \in {"none", "pending", "done"} : PromoteSelected(j, T, source)
                \/ PromoteSelectedDenied(j, T)
         PROVE  FALSE
    BY <1>1, <2>12 DEF PromoteSelected, PromoteSelectedDenied, Selects
  <2>13. ASSUME NEW j \in Tasks, Published(j) \/ Refused(j) \/ PromotionDone(j) PROVE FALSE
    BY <2>6, <2>13 DEF Published, Publish, Refused, PublishRefused, PromotionDone, Open
  <2>14. ASSUME NEW j \in Tasks, LoadCallback(j) PROVE UNCHANGED <<map, writes, latest>>
    BY <2>14 DEF LoadCallback, LoadFinished
  <2>15. ASSUME NEW r \in Readers,
                \/ \E T \in SUBSET Tokens : Gather(r, T)
                \/ \E S \in SUBSET Valid : PinSlots(r, S)
                \/ UnpinSlots(r)
         PROVE  UNCHANGED <<map, writes, latest>>
    BY <2>15 DEF Gather, PinSlots, UnpinSlots, Pin, Unpin
  <2> HIDE DEF Stays
  <2> QED BY <1>1, <2>2, <2>4, <2>5, <2>8, <2>9, <2>10, <2>11, <2>12, <2>13, <2>14, <2>15
          DEF ArenaNext, Arena
<1>2. IInv /\ ArenaInv /\ [ArenaNext]_arenaVars => [Stays]_arenaVars
  <2>1. IInv /\ ArenaInv /\ [ArenaNext]_arenaVars /\ Decoded => Stays
    BY <1>1
  <2>2. ~Decoded => Stays
    OBVIOUS
  <2> QED BY <2>1, <2>2
<1> QED BY <1>2, ArenaInvariance, PTL DEF ArenaSpec, AppendOnly
=============================================================================
