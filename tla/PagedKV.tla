------------------------------- MODULE PagedKV -------------------------------
(***************************************************************************)
(* NativePagedKV of paged.py: the K/V rows of one request and layer, in    *)
(* the native slots of its block table and a sidecar, behind a SlotMap.    *)
(*                                                                         *)
(* Every call but promote_selected holds the arena's mutex until its device*)
(* writes or reads are done (`op' is that call); promote_selected returns a*)
(* future, and what interleaves with the calls are the completions of such *)
(* futures, the source load, its callback, and readers that pin slots of   *)
(* the map directly.  A call that raises changes nothing but what its      *)
(* action says, and is otherwise not an action.                            *)
(*                                                                         *)
(* latest is not in the code: the tokens whose current logical row a slot  *)
(* holds, complete.  A row is superseded by promote_selected (when it is   *)
(* published), write_selected_ready, update_selected, decode, and by a     *)
(* baseline write of a token that was not relocated.                       *)
(*                                                                         *)
(* A definition named ...Fault is the one after it with a plausible        *)
(* mistake; no specification uses it.                                      *)
(***************************************************************************)
EXTENDS SlotMap

CONSTANTS
    Prompt,         \* prompt_length
    Steps,          \* bound: tokens ever decoded
    Canonical       \* [token -> its native slot]: the caller's block table

PromptTokens == 0 .. Prompt - 1

\* What the arena makes of its slot map: Floor is native_total_slots, and there are
\* max_selected slots from there to MaxSlots, the sidecar.
Assumptions ==
    /\ Prompt \in Nat \ {0} /\ Steps \in Nat
    /\ Tokens = 0 .. Prompt + Steps - 1
    /\ Canonical \in [Tokens -> 0 .. Floor - 1]
    /\ \A t, u \in Tokens : Canonical[t] = Canonical[u] => t = u
    /\ Initial = [t \in PromptTokens |-> Canonical[t]]

VARIABLES
    length,         \* len(_canonical): the prompt and what was decoded
    baseline,       \* _baseline_ready
    selected,       \* _selected
    loading,        \* _loads holds the load future
    loadFailed,     \* it ended with an exception
    broken,         \* a future in _promotions ended with an exception
    op,             \* the call that holds the arena's mutex
    latest

arena == <<length, baseline, selected, loading, loadFailed, broken>>
arenaVars == <<vars, arena, op, latest>>

NoOp == [kind |-> "none", by |-> None, tokens |-> {}]
Decoded == length > Prompt

ArenaInit ==
    /\ Init
    /\ length = Prompt
    /\ baseline = {} /\ selected = {}
    /\ loading = FALSE /\ loadFailed = FALSE /\ broken = FALSE
    /\ op = NoOp
    /\ latest = [s \in Slots |-> {}]

-----------------------------------------------------------------------------
(* _check_loads and _check_promotions                                       *)

LoadsAllow == ~loading \/ load = "pending" \/ ~loadFailed
LoadsDone == ~loading \/ (load = "done" /\ ~loadFailed)

Open(j) == task[j].kind = "promote"
PromotionsDone == ~broken /\ \A j \in Tasks : ~Open(j)

-----------------------------------------------------------------------------
(* Rows: what the slots hold after a call                                   *)

\* A slot that is being written holds no row.
Blank(S) == latest' = [s \in Slots |-> IF s \in S THEN {} ELSE latest[s]]

\* Each token of T has a new row, in the slots put[t] and nowhere else.
Superseded(T, put) ==
    latest' = [s \in Slots |-> (latest[s] \ T) \cup {t \in T : s \in put[t]}]

-----------------------------------------------------------------------------
(* write, write_selected_ready, update_selected: a guarded device write     *)

GuardedWrite(kind, T, required, optional) ==
    \E j \in Tasks :
        /\ WriteGuard(j, required, optional)
        /\ op' = [kind |-> kind, by |-> j, tokens |-> T]
        /\ Blank(task'[j].writing)

Canonicals(T) == {Canonical[t] : t \in T}

WritesBaselineFault(T) == LoadsDone
WritesBaseline(T) == LoadsDone /\ ~Decoded /\ T \subseteq PromptTokens

Write(T) ==
    /\ op = NoOp
    /\ WritesBaseline(T)
    /\ GuardedWrite("write", T, Canonicals(T), {})
    /\ UNCHANGED arena

WriteSelectedReady(T) ==
    /\ op = NoOp
    /\ LoadsDone /\ PromotionsDone /\ ~Decoded
    /\ baseline = PromptTokens
    /\ T \subseteq PromptTokens \ selected
    /\ \A t \in T : map[t] = Canonical[t]
    /\ GuardedWrite("ready", T, Canonicals(T), {})
    /\ UNCHANGED arena

\* The canonical slots that no longer hold their token get a mirror.
Mirrors(T) == {Canonical[t] : t \in {u \in T : map[u] # Canonical[u]}} \ Shared

UpdateSelected(T) ==
    /\ op = NoOp
    /\ LoadsDone /\ PromotionsDone /\ ~Decoded
    /\ T \subseteq Mapped
    /\ GuardedWrite("update", T, {map[t] : t \in T}, Mirrors(T))
    /\ UNCHANGED arena

\* The device is done: the baseline of a relocated token is stale already.
BodyDone ==
    /\ op.kind \in {"write", "ready", "update"}
    /\ WriteGuardBody(op.by)
    /\ ~closed'
    /\ LET put == [t \in op.tokens |-> {map[t], Canonical[t]} \cap task[op.by].writing]
           relocated == {t \in op.tokens : map[t] # Canonical[t]}
       IN Superseded(IF op.kind = "write" THEN op.tokens \ relocated ELSE op.tokens, put)
    /\ baseline' = IF op.kind = "write" THEN baseline \cup op.tokens ELSE baseline
    /\ selected' = IF op.kind = "ready" THEN selected \cup op.tokens ELSE selected
    /\ UNCHANGED <<length, loading, loadFailed, broken, op>>

\* A partial copy retires the map.
BodyFails ==
    /\ op.kind \in {"write", "ready", "update"}
    /\ WriteGuardBody(op.by)
    /\ closed'
    /\ UNCHANGED <<arena, op, latest>>

\* The guard is left, and the call returns or raises.
Return ==
    /\ op.kind \in {"write", "ready", "update", "decode"}
    /\ Release(op.by)
    /\ op' = NoOp
    /\ UNCHANGED <<arena, latest>>

-----------------------------------------------------------------------------
(* promote_selected                                                         *)

Selects(T) == ~Decoded /\ T \cap selected = {}

\* source: no load future, one that is pending, or one that succeeded.
PromoteSelected(j, T, source) ==
    /\ op = NoOp
    /\ Selects(T)
    /\ source = "done" => load = "done" /\ ~loadFailed
    /\ Promote(j, T, FALSE, source = "pending")
    /\ Blank(task'[j].writing)
    /\ selected' = selected \cup T
    /\ loading' = (loading \/ source # "none")
    /\ UNCHANGED <<length, baseline, loadFailed, broken, op>>

\* CacheCapacityError: the sidecar is full.
PromoteSelectedDenied(j, T) ==
    /\ op = NoOp
    /\ Selects(T)
    /\ PromoteDenied(j, T, FALSE, FALSE)
    /\ UNCHANGED <<arena, op, latest>>

\* Completion thread: the device writes are done and finish publishes them.
Published(j) ==
    /\ Publish(j)
    /\ Superseded(task[j].tokens, [t \in task[j].tokens |-> {map'[t]}])
    /\ UNCHANGED <<arena, op>>

\* Or they failed, or the map was retired: the future has an exception for ever.
Refused(j) ==
    /\ PublishRefused(j)
    /\ broken' = TRUE
    /\ UNCHANGED <<length, baseline, selected, loading, loadFailed, op, latest>>

\* finish gives its guards back and completes the future.
PromotionDone(j) ==
    /\ Open(j)
    /\ Release(j)
    /\ UNCHANGED <<arena, op, latest>>

\* External: the source load ends, and later its callback runs.
SourceDone ==
    /\ LoadDone
    /\ loadFailed' \in BOOLEAN
    /\ UNCHANGED <<length, baseline, selected, loading, broken, op, latest>>

LoadCallback(j) ==
    /\ LoadFinished(j)
    /\ UNCHANGED <<arena, op, latest>>

-----------------------------------------------------------------------------
(* decode                                                                   *)

DecodesFault == LoadsAllow
Decodes == LoadsAllow /\ PromotionsDone

Decode ==
    /\ op = NoOp
    /\ Decodes
    /\ length \in Tokens
    /\ \E j \in Tasks :
          /\ DecodeGuard(j, length, Canonical[length])
          /\ op' = [kind |-> "decode", by |-> j, tokens |-> {length}]
          /\ Blank(task'[j].writing)
    /\ UNCHANGED arena

\* The row is in the chosen slot and mirrored in the token's own.
DecodeWritten ==
    /\ op.kind = "decode"
    /\ DecodeDone(op.by)
    /\ Superseded(op.tokens, [t \in op.tokens |-> task[op.by].writing])
    /\ length' = length + 1
    /\ UNCHANGED <<baseline, selected, loading, loadFailed, broken, op>>

DecodeFails ==
    /\ op.kind = "decode"
    /\ DecodeFailed(op.by)
    /\ UNCHANGED <<arena, op, latest>>

-----------------------------------------------------------------------------
(* gather, readers and retirement                                           *)

Gather(r, T) ==
    /\ op = NoOp
    /\ LoadsAllow
    /\ T \subseteq Mapped
    /\ Pin(r, {map[t] : t \in T})
    /\ op' = [kind |-> "gather", by |-> r, tokens |-> T]
    /\ UNCHANGED <<arena, latest>>

GatherDone ==
    /\ op.kind = "gather"
    /\ Unpin(op.by)
    /\ op' = NoOp
    /\ UNCHANGED <<arena, latest>>

\* slot_map.pin_slots, outside of the arena's mutex.
PinSlots(r, S) ==
    /\ Pin(r, S)
    /\ UNCHANGED <<arena, op, latest>>

UnpinSlots(r) ==
    /\ ~(op.kind = "gather" /\ op.by = r)
    /\ Unpin(r)
    /\ UNCHANGED <<arena, op, latest>>

Retire ==
    /\ op = NoOp
    /\ Invalidate
    /\ UNCHANGED <<arena, op, latest>>

-----------------------------------------------------------------------------
Arena ==
    \/ \E T \in SUBSET Tokens : Write(T) \/ WriteSelectedReady(T) \/ UpdateSelected(T)
    \/ BodyDone \/ BodyFails \/ Return
    \/ Decode \/ DecodeWritten \/ DecodeFails
    \/ Retire

ArenaNext ==
    \/ Arena
    \/ \E j \in Tasks :
          \/ \E T \in SUBSET Tokens :
                \/ \E source \in {"none", "pending", "done"} : PromoteSelected(j, T, source)
                \/ PromoteSelectedDenied(j, T)
          \/ Published(j) \/ Refused(j) \/ PromotionDone(j) \/ LoadCallback(j)
    \/ SourceDone
    \/ \E r \in Readers :
          \/ \E T \in SUBSET Tokens : Gather(r, T)
          \/ \E S \in SUBSET Valid : PinSlots(r, S)
          \/ UnpinSlots(r)
    \/ GatherDone

ArenaSpec == ArenaInit /\ [][ArenaNext]_arenaVars

-----------------------------------------------------------------------------
(* Properties *)

\* Every variable of the arena stays in its type.
ArenaTypeOK ==
    /\ TypeOK
    /\ length \in Prompt .. Prompt + Steps
    /\ baseline \subseteq PromptTokens /\ selected \subseteq PromptTokens
    /\ loading \in BOOLEAN /\ loadFailed \in BOOLEAN /\ broken \in BOOLEAN
    /\ op \in [kind : {"none", "write", "ready", "update", "decode", "gather"},
               by : Tasks \cup Readers \cup {None}, tokens : SUBSET Tokens]
    /\ latest \in [Slots -> SUBSET Tokens]

\* The tokens that have a row: a baseline, a relocated or a decoded one.
HasRow(t) == t \in baseline \/ map[t] # Canonical[t] \/ t >= Prompt

\* A live arena is a logical array: gather finds each token's current row,
\* complete, however baseline writes, promotions, mirrors and decodes into holes
\* displaced one another, except in a slot that is being rewritten under a guard.
RowsCurrent ==
    ~closed => \A t \in Mapped :
        HasRow(t) => t \in latest[map[t]] \/ writes[map[t]] > 0

\* Once a token was decoded, the rows before it are only read: no writer is let
\* at their slots and no row moves, while decode goes on taking the slots that
\* earlier rows left.
AppendOnly ==
    [][Decoded => \A t \in 0 .. length - 1 :
         /\ map'[t] = map[t] /\ writes'[map[t]] =< writes[map[t]]
         /\ t \in latest[map[t]] => t \in latest'[map[t]]]_arenaVars
=============================================================================
