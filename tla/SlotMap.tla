------------------------------- MODULE SlotMap -------------------------------
(***************************************************************************)
(* LayerSlotMap of slide.py: where the KV record of each logical token of  *)
(* one request and layer is stored, while readers pin slots, writers fill  *)
(* them, decode reuses the holes that relocated tokens leave, a load is    *)
(* still outstanding, and anybody may retire the map.                      *)
(*                                                                         *)
(* Each critical section of the map's mutex is one action: promote_selected*)
(* reserves, calls the writer without the mutex, publishes in a second     *)
(* section and releases its guards in a third; write_guard and             *)
(* decode_write_guard likewise around their bodies.  A task is one such    *)
(* call, a reader one pin_slots or pinned_mapping block.  holds is not in  *)
(* the code: the tokens whose mapped record a slot contains in full, none  *)
(* while it is written, or when a writer failed in the middle of it.       *)
(*                                                                         *)
(* A definition named ...Fault is the one after it with a plausible        *)
(* mistake; no specification uses it.                                      *)
(***************************************************************************)
EXTENDS Integers, FiniteSets

CONSTANTS
    Tokens,         \* logical positions
    Initial,        \* [SUBSET Tokens -> Nat]: initial_slots
    Shared,         \* shared_slots
    Floor,          \* allocation_floor: native slots are below it
    MaxSlots,       \* max_slots
    Readers, Tasks,
    None

Slots == 0 .. MaxSlots - 1

ASSUME SlotAssumption ==
    /\ Floor \in Nat /\ MaxSlots \in Nat /\ Floor =< MaxSlots
    /\ DOMAIN Initial \subseteq Tokens
    /\ \A t \in DOMAIN Initial : Initial[t] \in 0 .. Floor - 1
    /\ Shared \subseteq {Initial[t] : t \in DOMAIN Initial}
ASSUME FiniteAssumption == IsFiniteSet(Readers) /\ IsFiniteSet(Tasks)
ASSUME NoneAssumption == None \notin Nat

VARIABLES
    map,            \* _map: [Tokens -> slot, or None]
    pins, inflight, writes,
    pendingTokens, vacated, unused,
    nextSlot,       \* _next_slot
    closed,         \* _closed; _generation moves with it
    task,           \* the call each task is in
    reader,         \* the slots each reader has pinned
    load,           \* load_future: "pending", "done", callbacks run one by one after
    hooks,          \* the slots load_finished will release, for each task
    holds

counts == <<pins, inflight, writes>>
free == <<vacated, unused, nextSlot>>
vars == <<map, counts, pendingTokens, free, closed, task, reader, load, hooks, holds>>

Idle == [at |-> "idle", kind |-> "none", tokens |-> {}, source |-> {}, target |-> {},
         guarded |-> {}, writing |-> {}, fresh |-> {}]

Mapped == {t \in Tokens : map[t] # None}
Valid == {map[t] : t \in Mapped}
TokensAt(s) == {t \in Mapped : map[t] = s}
Guarded(s) == pins[s] # 0 \/ inflight[s] # 0

Plus(count, S) == [s \in Slots |-> IF s \in S THEN count[s] + 1 ELSE count[s]]
Minus(count, S) == [s \in Slots |-> IF s \in S THEN count[s] - 1 ELSE count[s]]

Least(S) == {s \in S : \A x \in S : s =< x}

Init ==
    /\ map = [t \in Tokens |-> IF t \in DOMAIN Initial THEN Initial[t] ELSE None]
    /\ pins = [s \in Slots |-> 0] /\ inflight = [s \in Slots |-> 0]
    /\ writes = [s \in Slots |-> 0]
    /\ pendingTokens = {} /\ vacated = {} /\ unused = {}
    /\ nextSlot = Floor
    /\ closed = FALSE
    /\ task = [j \in Tasks |-> Idle] /\ reader = [r \in Readers |-> {}]
    /\ load = "pending" /\ hooks = [j \in Tasks |-> {}]
    /\ holds = [s \in Slots |-> TokensAt(s)]

-----------------------------------------------------------------------------
(* pin_slots and pinned_mapping                                             *)

PinnableFault(s) == s \in Valid
Pinnable(s) == s \in Valid /\ writes[s] = 0

Pin(r, S) ==
    /\ ~closed
    /\ reader[r] = {} /\ S # {}
    /\ \A s \in S : Pinnable(s)
    /\ pins' = Plus(pins, S)
    /\ reader' = [reader EXCEPT ![r] = S]
    /\ UNCHANGED <<map, inflight, writes, pendingTokens, free, closed, task, load, hooks, holds>>

Unpin(r) ==
    /\ reader[r] # {}
    /\ pins' = Minus(pins, reader[r])
    /\ reader' = [reader EXCEPT ![r] = {}]
    /\ UNCHANGED <<map, inflight, writes, pendingTokens, free, closed, task, load, hooks, holds>>

-----------------------------------------------------------------------------
(* write_guard                                                              *)

RejectsFault(s) == s \in Shared \/ pins[s] # 0
Rejects(s) == s \in Shared \/ Guarded(s)

\* A task reserves slots: readers are kept out, their bytes are about to change.
Reserve(j, call) ==
    /\ task' = [task EXCEPT ![j] = call]
    /\ writes' = Plus(writes, call.writing)
    /\ holds' = [s \in Slots |-> IF s \in call.writing THEN {} ELSE holds[s]]

\* The caller owns the slots it names: mapped ones and its own vacated ones.
WriteGuard(j, required, optional) ==
    /\ ~closed
    /\ task[j] = Idle
    /\ required # {} /\ required \cup optional \subseteq Valid \cup vacated
    /\ \A s \in required : ~Rejects(s)
    /\ LET S == required \cup {s \in optional : ~Rejects(s)}
       IN /\ Reserve(j, [Idle EXCEPT !.at = "writing", !.kind = "write",
                                     !.guarded = S, !.writing = S])
          /\ inflight' = Plus(inflight, S)
    /\ UNCHANGED <<map, pins, pendingTokens, free, closed, reader, load, hooks>>

\* The slots of S hold the records of the tokens that map to them.
Rewritten(S) == holds' = [s \in Slots |-> IF s \in S THEN TokensAt(s) ELSE holds[s]]

\* The device is done with the body's writes, or they failed: the callers of
\* write_guard retire the map before they leave it with a failed write.
WriteGuardBody(j) ==
    /\ task[j].at = "writing" /\ task[j].kind = "write"
    /\ \/ Rewritten(task[j].writing) /\ UNCHANGED closed
       \/ UNCHANGED holds /\ closed' = TRUE
    /\ task' = [task EXCEPT ![j].at = "releasing"]
    /\ UNCHANGED <<map, counts, pendingTokens, free, reader, load, hooks>>

\* The finally clauses of the three guards.
Release(j) ==
    /\ task[j].at = "releasing"
    /\ writes' = Minus(writes, task[j].writing)
    /\ inflight' = Minus(inflight, task[j].guarded)
    /\ pendingTokens' = pendingTokens \ task[j].tokens
    /\ task' = [task EXCEPT ![j] = Idle]
    /\ UNCHANGED <<map, pins, free, closed, reader, load, hooks, holds>>

-----------------------------------------------------------------------------
(* promote_selected                                                         *)

\* What _fresh_slot can still give, the smallest number first.
Available == unused \cup nextSlot .. MaxSlots - 1

\* _fresh_slot, n times.
Fresh(n) == {S \in SUBSET Available : /\ Cardinality(S) = n
                                      /\ \A s \in S, x \in Available \ S : s < x}

Bijections(S, T) == {f \in [S -> T] : \A x, y \in S : f[x] = f[y] => x = y}

MustCopyFault(t, inplace, pending) ==
    ~inplace \/ pending \/ map[t] \in Shared \/ Guarded(map[t])

MustCopy(t, inplace, pending) ==
    \/ ~inplace \/ pending \/ map[t] \in Shared \/ Guarded(map[t])
    \/ \E u \in Mapped \ {t} : map[u] = map[t]

Promotes(j, T, loading) ==
    /\ ~closed
    /\ task[j] = Idle
    /\ T # {} /\ T \subseteq Mapped
    /\ T \cap pendingTokens = {}
    /\ loading => load = "pending" /\ hooks[j] = {}

Promote(j, T, inplace, loading) ==
    /\ Promotes(j, T, loading)
    /\ LET copied == {t \in T : MustCopy(t, inplace, loading)}
           source == {map[t] : t \in T}
       IN \E S \in Fresh(Cardinality(copied)) : \E f \in Bijections(copied, S) :
             LET dest(t) == IF t \in copied THEN f[t] ELSE map[t]
                 target == {<<t, dest(t)>> : t \in T}
                 writing == {dest(t) : t \in T}
             IN /\ Reserve(j, [at |-> "writing", kind |-> "promote", tokens |-> T,
                               source |-> {<<t, map[t]>> : t \in T}, target |-> target,
                               guarded |-> source \cup writing, writing |-> writing,
                               fresh |-> S])
                /\ inflight' = IF loading THEN Plus(Plus(inflight, source \cup writing), source)
                               ELSE Plus(inflight, source \cup writing)
                /\ hooks' = [hooks EXCEPT ![j] = IF loading THEN source ELSE @]
                /\ unused' = unused \ S
                /\ nextSlot' = Cardinality({s \in Slots : s < nextSlot \/ s \in S})
    /\ pendingTokens' = pendingTokens \cup T
    /\ UNCHANGED <<map, pins, vacated, closed, reader, load>>

\* The arena is full: what was allocated so far goes to _unused.
PromoteDenied(j, T, inplace, loading) ==
    /\ Promotes(j, T, loading)
    /\ Cardinality({t \in T : MustCopy(t, inplace, loading)}) > Cardinality(Available)
    /\ unused' = Available
    /\ nextSlot' = MaxSlots
    /\ UNCHANGED <<map, counts, pendingTokens, vacated, closed, task, reader, load, hooks, holds>>

\* The mapping, and what the slots hold, once the task's writes are published.
Moved(j) ==
    /\ map' = [t \in Tokens |-> IF t \in task[j].tokens
                                THEN (CHOOSE p \in task[j].target : p[1] = t)[2] ELSE map[t]]
    /\ holds' = [s \in Slots |-> IF s \in task[j].writing
                                 THEN {t \in task[j].tokens : map'[t] = s} ELSE holds[s]]

StillMineFault(j) == TRUE
StillMine(j) == ~closed /\ \A p \in task[j].source : map[p[1]] = p[2]

FreedFault(j) == {p[2] : p \in task[j].source} \ Shared

\* The sources that nothing maps to any more.
Freed(j) == {p[2] : p \in task[j].source} \ ({map'[t] : t \in Mapped} \cup Shared)

\* The writer's future completes and finish runs: the mappings are published
\* together, the freed sources become holes.
Publish(j) ==
    /\ task[j].at = "writing" /\ task[j].kind = "promote"
    /\ StillMine(j)
    /\ Moved(j)
    /\ vacated' = vacated \cup Freed(j)
    /\ task' = [task EXCEPT ![j].at = "releasing"]
    /\ UNCHANGED <<counts, pendingTokens, unused, nextSlot, closed, reader, load, hooks>>

\* The write failed, or the map was retired meanwhile.  An in-place writer is
\* transactional: only the independent destinations are left half written.
PublishRefused(j) ==
    /\ task[j].at = "writing" /\ task[j].kind = "promote"
    /\ unused' = unused \cup task[j].fresh
    /\ Rewritten(task[j].writing \ task[j].fresh)
    /\ task' = [task EXCEPT ![j].at = "releasing"]
    /\ UNCHANGED <<map, counts, pendingTokens, vacated, nextSlot, closed, reader, load, hooks>>

\* External: the source load completes.  Its callbacks run after that.
LoadDone ==
    /\ load = "pending"
    /\ load' = "done"
    /\ UNCHANGED <<map, counts, pendingTokens, free, closed, task, reader, hooks, holds>>

HookedFault(j) == hooks[j] \ task[j].guarded
Hooked(j) == hooks[j]

\* load_finished
LoadFinished(j) ==
    /\ load = "done" /\ hooks[j] # {}
    /\ inflight' = Minus(inflight, Hooked(j))
    /\ hooks' = [hooks EXCEPT ![j] = {}]
    /\ UNCHANGED <<map, pins, writes, pendingTokens, free, closed, task, reader, load, holds>>

-----------------------------------------------------------------------------
(* decode                                                                   *)

\* Holes that decode may fill: nothing maps to them, nobody reads or writes.
Holes == {s \in vacated : s \notin Valid /\ s \notin Shared /\ ~Guarded(s)}

NewToken(t) == t \notin Mapped /\ t \notin pendingTokens

\* _decode_destination: p must be free itself, even when a hole is chosen.
Destination(t, p, reuse) ==
    IF ~NewToken(t) \/ p >= Floor \/ p \in Valid \cup Shared \/ Guarded(p) THEN {}
    ELSE LET native == {s \in Holes : s < Floor}
         IN IF reuse /\ native # {} THEN Least(native) ELSE {p}

\* allocate_decode and bind_decode: the caller has synchronised its write.
BindTo(t, s) ==
    /\ map' = [map EXCEPT ![t] = s]
    /\ vacated' = vacated \ {s}
    /\ holds' = [holds EXCEPT ![s] = {t}]
    /\ UNCHANGED <<counts, pendingTokens, closed, task, reader, load, hooks>>

AllocateDecode(t) ==
    /\ ~closed /\ NewToken(t)
    /\ IF Holes # {}
       THEN \E s \in Least(Holes) : BindTo(t, s) /\ UNCHANGED <<unused, nextSlot>>
       ELSE \E s \in Least(Available) : /\ BindTo(t, s)
                                        /\ unused' = unused \ {s}
                                        /\ nextSlot' = IF s = nextSlot THEN s + 1 ELSE nextSlot

BindDecode(t, p, reuse) ==
    /\ ~closed
    /\ \E s \in Destination(t, p, reuse) : BindTo(t, s)
    /\ UNCHANGED <<unused, nextSlot>>

\* decode_write_guard, reuse_vacated=True: the token stays out of the map.
DecodeGuard(j, t, p) ==
    /\ ~closed
    /\ task[j] = Idle
    /\ \E s \in Destination(t, p, TRUE) :
          /\ Reserve(j, [Idle EXCEPT !.at = "writing", !.kind = "decode", !.tokens = {t},
                                     !.target = {<<t, s>>}, !.guarded = {s, p},
                                     !.writing = {s, p}])
          /\ inflight' = Plus(inflight, {s, p})
          /\ vacated' = vacated \ {s}
    /\ pendingTokens' = pendingTokens \cup {t}
    /\ UNCHANGED <<map, pins, unused, nextSlot, closed, reader, load, hooks>>

DecodeDone(j) ==
    /\ task[j].at = "writing" /\ task[j].kind = "decode"
    /\ ~closed
    /\ Moved(j)
    /\ task' = [task EXCEPT ![j].at = "releasing"]
    /\ UNCHANGED <<counts, pendingTokens, free, closed, reader, load, hooks>>

\* These writes need not be transactional: the map is retired.
DecodeFailed(j) ==
    /\ task[j].at = "writing" /\ task[j].kind = "decode"
    /\ closed' = TRUE
    /\ task' = [task EXCEPT ![j].at = "releasing"]
    /\ UNCHANGED <<map, counts, pendingTokens, free, reader, load, hooks, holds>>

Invalidate ==
    /\ closed' = TRUE
    /\ UNCHANGED <<map, counts, pendingTokens, free, task, reader, load, hooks, holds>>

-----------------------------------------------------------------------------
Call(j) ==
    \/ \E S, O \in SUBSET (Valid \cup vacated) : WriteGuard(j, S, O)
    \/ \E T \in SUBSET Tokens, inplace \in BOOLEAN, loading \in BOOLEAN :
          Promote(j, T, inplace, loading) \/ PromoteDenied(j, T, inplace, loading)
    \/ \E t \in Tokens, p \in Slots : DecodeGuard(j, t, p)

Next ==
    \/ \E r \in Readers : Unpin(r) \/ \E S \in SUBSET Valid : Pin(r, S)
    \/ \E j \in Tasks : \/ Call(j)
                        \/ WriteGuardBody(j) \/ Publish(j) \/ PublishRefused(j)
                        \/ DecodeDone(j) \/ DecodeFailed(j)
                        \/ Release(j) \/ LoadFinished(j)
    \/ LoadDone
    \/ \E t \in Tokens : AllocateDecode(t)
    \/ \E t \in Tokens, p \in Slots, reuse \in BOOLEAN : BindDecode(t, p, reuse)
    \/ Invalidate

Spec == Init /\ [][Next]_vars

-----------------------------------------------------------------------------
(* Properties *)

TaskType == [at : {"idle", "writing", "releasing"},
             kind : {"none", "write", "promote", "decode"},
             tokens : SUBSET Tokens, source : SUBSET (Tokens \X Slots),
             target : SUBSET (Tokens \X Slots), guarded : SUBSET Slots,
             writing : SUBSET Slots, fresh : SUBSET Slots]

\* Every variable of the map stays in its type: no count goes below zero.
TypeOK ==
    /\ map \in [Tokens -> Slots \cup {None}]
    /\ pins \in [Slots -> Nat] /\ inflight \in [Slots -> Nat] /\ writes \in [Slots -> Nat]
    /\ pendingTokens \subseteq Tokens
    /\ vacated \subseteq Slots /\ unused \subseteq Slots
    /\ nextSlot \in Floor .. MaxSlots
    /\ closed \in BOOLEAN
    /\ task \in [Tasks -> TaskType]
    /\ reader \in [Readers -> SUBSET Slots]
    /\ load \in {"pending", "done"} /\ hooks \in [Tasks -> SUBSET Slots]
    /\ holds \in [Slots -> SUBSET Tokens]

\* Each count is the number of its holders: after any mix of failures and
\* retirement nothing stays guarded, and a load still guards what it fills.
CountsExact ==
    \A s \in Slots :
        /\ pins[s] = Cardinality({r \in Readers : s \in reader[r]})
        /\ writes[s] = Cardinality({j \in Tasks : s \in task[j].writing})
        /\ inflight[s] = Cardinality({j \in Tasks : s \in task[j].guarded})
                         + Cardinality({j \in Tasks : s \in hooks[j]})

\* No pinned slot is being written or holds a partial record, even once the
\* map is retired: a reader never sees bytes change under its pin.
ReadersUndisturbed ==
    \A r \in Readers : \A s \in reader[r] : writes[s] = 0 /\ holds[s] # {}

\* No two calls write the same slot, and none writes a slot that other requests
\* share, which never becomes a hole either.
WritersApart ==
    /\ \A i, j \in Tasks :
          i # j /\ task[i].at = "writing" /\ task[j].at = "writing" =>
              task[i].writing \cap task[j].writing = {}
    /\ \A s \in Shared : writes[s] = 0 /\ s \notin vacated

\* A slot is mapped, or a hole, or unused: never two of them; two tokens share
\* a slot only where they did from the start.
SlotsApart ==
    /\ vacated \cap Valid = {} /\ unused \cap (Valid \cup vacated) = {}
    /\ \A s \in Valid \cup vacated \cup unused : s < nextSlot
    /\ \A t, u \in Mapped : t # u /\ map[t] = map[u] =>
           {t, u} \subseteq DOMAIN Initial /\ map[t] = Initial[t] /\ map[u] = Initial[u]

\* What a live map publishes is there: the slot of a token holds its complete
\* record, except while a guarded rewrite of that very slot is going on.
MappedIntact ==
    ~closed => \A t \in Mapped :
        \/ t \in holds[map[t]]
        \/ \E j \in Tasks : task[j].at = "writing" /\ map[t] \in task[j].writing

\* Once retired a map publishes nothing more and grants no pin or guard; late
\* completions only release.
RetiredFrozen ==
    [][closed => /\ closed' /\ map' = map
                 /\ \A s \in Slots : /\ pins'[s] =< pins[s] /\ writes'[s] =< writes[s]
                                     /\ inflight'[s] =< inflight[s]]_vars
=============================================================================
