--------------------------------- MODULE WCA ---------------------------------
(***************************************************************************)
(* WCAState of wca.py: which reusable tokens of one request are corrected  *)
(* at each layer.  The tensors enter by what they decide: how far each     *)
(* token's fresh K is from its cached one (its rank among the deviations,  *)
(* 0 when there is none) and which selected tokens a gate finds converged. *)
(* A weight is the layer at which it was measured.                         *)
(*                                                                         *)
(* Layers are counted from one here, as in wca.py.  The operators give the *)
(* state that a call leaves; a call that raises leaves the state it found. *)
(*                                                                         *)
(* A definition named ...Fault is the one after it with a plausible        *)
(* mistake; no specification uses it.                                      *)
(***************************************************************************)
EXTENDS Integers, FiniteSets

CONSTANTS
    CorrectionPercent,  \* correction_fraction, in hundredths
    GateInterval,       \* gate_interval
    WeightUpdate        \* weight_update: "previous_layer" or "same_layer"

ASSUME FractionAssumption == CorrectionPercent \in 0 .. 100
ASSUME GateAssumption == GateInterval \in Nat \ {0}
ASSUME WeightAssumption == WeightUpdate \in {"previous_layer", "same_layer"}

Least(m, n) == IF m =< n THEN m ELSE n

\* The stable descending sort: ties go to the token that comes first.
Before(w, s, t) ==
    \/ w.deviation[s] > w.deviation[t]
    \/ w.deviation[s] = w.deviation[t] /\ s < t

ActiveTokens(w) == w.selected \cup w.mandatory

-----------------------------------------------------------------------------
(* _promote                                                                 *)

Waiting(w) == w.candidate \ (w.selected \cup w.removed)
SlotsFault(w) == w.budget
Slots(w) == LET free == w.budget - Cardinality(w.selected)
            IN IF free > 0 THEN free ELSE 0

\* The tokens that get the free places: one set, the best that wait.
BestWaiting(w) ==
    {P \in SUBSET Waiting(w) :
        /\ Cardinality(P) = Least(Slots(w), Cardinality(Waiting(w)))
        /\ \A s \in P, t \in Waiting(w) \ P : Before(w, s, t)}

Promoted(w) == {[w EXCEPT !.selected = w.selected \cup P] : P \in BestWaiting(w)}

-----------------------------------------------------------------------------
(* initialize and update                                                    *)

Budget(reused, candidate) ==
    Least((CorrectionPercent * Cardinality(reused) + 99) \div 100, Cardinality(candidate))

\* Every token is observed at the calibration layer.
Initialized(reused, mandatory, deviation, layer) ==
    LET candidate == {t \in reused : deviation[t] > 0}
    IN Promoted([mandatory |-> mandatory, deviation |-> deviation,
                 candidate |-> candidate, selected |-> {}, removed |-> {},
                 alpha |-> [t \in DOMAIN deviation |-> layer],
                 budget |-> Budget(reused, candidate), last |-> layer])

\* The weight that fuses token t at a layer; 0 is for a row that is all fresh.
Fresh == 0
UsedWeight(w, t, layer) ==
    IF t \in w.mandatory THEN Fresh
    ELSE IF WeightUpdate = "previous_layer" THEN w.alpha[t] ELSE layer

Gate(layer) == layer % GateInterval = 0

RemeasuredFault(w, layer) == [t \in DOMAIN w.alpha |-> layer]
Remeasured(w, layer) ==
    [t \in DOMAIN w.alpha |-> IF t \in ActiveTokens(w) THEN layer ELSE w.alpha[t]]

\* A gate that finds the tokens of R converged.
Gated(w, layer, R) ==
    [w EXCEPT !.alpha = Remeasured(w, layer), !.last = layer,
              !.selected = @ \ R, !.candidate = @ \ R, !.removed = @ \cup R]

Updated(w, layer) ==
    UNION {Promoted(Gated(w, layer, R)) :
             R \in IF Gate(layer) THEN SUBSET w.selected ELSE {{}}}

-----------------------------------------------------------------------------
(* Properties of a state                                                    *)

\* The corrected tokens are the budget's worth of the most deviating reusable
\* tokens among those that no gate removed.
BestSelected(w) ==
    /\ w.selected \subseteq w.candidate /\ w.candidate \cap w.removed = {}
    /\ Cardinality(w.selected) = Least(w.budget, Cardinality(w.candidate))
    /\ \A s \in w.selected, t \in w.candidate \ w.selected : Before(w, s, t)
=============================================================================
