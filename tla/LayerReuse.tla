----------------------------- MODULE LayerReuse -----------------------------
(***************************************************************************)
(* The attention of one layer of a reuse, runtime.py, as the caller of a   *)
(* PagedKV arena whose source load may still be outstanding: selected rows *)
(* are staged while it is, and when its result is there the baseline is    *)
(* written, the selected rows are fused and attention gathers all rows.    *)
(*                                                                         *)
(* The device does not fail here, nobody else pins slots and nobody retires*)
(* the arena: what is left are the completions and their order.            *)
(***************************************************************************)
EXTENDS PagedKV

CONSTANTS
    Selected,       \* the selected reusable tokens of the layer
    Active          \* these and the mandatory ones, all in the prompt

VARIABLE step       \* how far attention is

ReuseInit == ArenaInit /\ step = "start"

\* The read is pending: promote_selected(...).result()
Stage(j) ==
    /\ step = "start" /\ load = "pending" /\ Selected # {}
    /\ PromoteSelected(j, Selected, "pending")
    /\ step' = "staged"

NothingToStage ==
    /\ step = "start" /\ (load = "done" \/ Selected = {})
    /\ step' = "staged"
    /\ UNCHANGED arenaVars

\* _read: the load's result, or ReuseFailure and a full prefill.
ReadBaseline ==
    /\ step = "staged" /\ PromotionsDone /\ load = "done"
    /\ step' = IF loadFailed THEN "fallback" ELSE "read"
    /\ UNCHANGED arenaVars

WriteBaseline ==
    /\ step = "read"
    /\ Write(PromptTokens)
    /\ step' = "written"

\* write_guard raises RuntimeError, which is not one of the errors that run
\* answers with a full prefill: the request fails.
BaselineRefused ==
    /\ step = "read" /\ op = NoOp
    /\ \E t \in PromptTokens : Rejects(Canonical[t])
    /\ step' = "refused"
    /\ UNCHANGED arenaVars

Relocated == \E t \in Selected : map[t] # Canonical[t]

WriteReady ==
    /\ step = "written" /\ ~Relocated /\ Selected # {}
    /\ WriteSelectedReady(Selected)
    /\ step' = "ready"

Fuse ==
    /\ step = "ready" \/ (step = "written" /\ (Relocated \/ Selected = {}))
    /\ UpdateSelected(Active)
    /\ step' = "fused"

Attend(r) ==
    /\ step = "fused"
    /\ Gather(r, PromptTokens)
    /\ step' = "attended"

Completions ==
    /\ BodyDone \/ Return \/ GatherDone \/ SourceDone
       \/ \E j \in Tasks : Published(j) \/ PromotionDone(j) \/ LoadCallback(j)
    /\ UNCHANGED step

ReuseNext ==
    \/ \E j \in Tasks : Stage(j)
    \/ NothingToStage \/ ReadBaseline \/ WriteBaseline \/ BaselineRefused
    \/ WriteReady \/ Fuse
    \/ \E r \in Readers : Attend(r)
    \/ Completions

ReuseSpec == ReuseInit /\ [][ReuseNext]_<<arenaVars, step>>

\* The baseline write that follows the load is let at the original slots,
\* whether or not rows were staged meanwhile.
BaselineAdmitted == step # "refused"
=============================================================================
