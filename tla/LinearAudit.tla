---------------------------- MODULE LinearAudit -----------------------------
(***************************************************************************)
(* One linear layer audited by commit-and-challenge: the prover commits    *)
(* the claimed accumulator, only then is the challenge r drawn, v = r^T W  *)
(* is precomputed, and the verifier runs its checks in the order of        *)
(* weight_i8, linear_step and check_linear.                                *)
(*                                                                         *)
(* The challenge is drawn freely: Fiat-Shamir squeezing and the            *)
(* verifier-secret mode both fix it after the commitment.                  *)
(***************************************************************************)
EXTENDS Freivalds, FiniteSets

CONSTANTS Layers,     \* [w, x, bias] records: committed weight, input, bias
          Claims,     \* accumulator vectors a prover may claim besides W x + bias
          Draws       \* challenge values that may be drawn per row

ASSUME DrawsAssumption == Draws \subseteq FieldElems

\* Tensor::new rejects data that does not match its shape; a bias covers every
\* row (prove_block indexes it row by row).
ASSUME LayersAssumption ==
    \A l \in Layers :
        /\ l.w \in [shape : Seq(Nat), cells : Seq(Int)]
        /\ l.x \in Seq(Int) /\ l.bias \in Seq(Int)
        /\ Len(l.w.shape) = 2 =>
              Len(l.w.cells) = Rows(l.w) * Cols(l.w) /\ Len(l.bias) = Rows(l.w)

ASSUME ClaimsAssumption == Claims \subseteq Seq(Int)

VARIABLES phase, layer, out, r, v, verdict

vars == <<phase, layer, out, r, v, verdict>>

Init ==
    /\ phase = "start"
    /\ layer \in Layers
    /\ out = <<>> /\ r = <<>> /\ v = <<>> /\ verdict = "none"

\* Prover: claim the kernel's result, or any other vector.
Commit(z) ==
    /\ phase = "start"
    /\ out' = z /\ phase' = "committed"
    /\ UNCHANGED <<layer, r, v, verdict>>

\* The prover's kernel, defined only when prove_block's shape check passes.
HonestOut == Linear(layer.w, layer.x, layer.bias)

CommitHonest ==
    /\ Len(layer.w.shape) = 2 /\ Len(layer.x) = Cols(layer.w)
    /\ Commit(HonestOut)

Reject(e) == phase' = "done" /\ verdict' = e

\* Mutant: one challenge value too many.
DrawOneMore == IF Len(layer.w.shape) = 2 THEN [1..(Rows(layer.w) + 1) -> Draws] ELSE { <<>> }

\* Verifier: a weight that is not a matrix is rejected before any challenge;
\* otherwise linear_step draws r and precomputes v in the same call.
DrawSpace == IF Len(layer.w.shape) = 2 THEN [1..Rows(layer.w) -> Draws] ELSE { <<>> }

DrawChallenge(c) ==
    /\ phase = "committed"
    /\ IF Len(layer.w.shape) # 2
       THEN Reject("MissingBinding") /\ UNCHANGED <<r, v>>
       ELSE /\ r' = c
            /\ v' = PrecomputeV(c, layer.w)
            /\ phase' = "challenged"
            /\ UNCHANGED verdict
    /\ UNCHANGED <<layer, out>>

ShapesMatch(rr, vv) ==
    /\ Len(rr) = Rows(layer.w) /\ Len(vv) = Cols(layer.w)
    /\ Len(out) = Rows(layer.w) /\ Len(layer.x) = Cols(layer.w)

\* Mutant: one scalar challenge for all the rows.
AuditScalar(rr, vv) ==
    LET same == [i \in DOMAIN rr |-> rr[1]]
    IN  IF ~ShapesMatch(rr, vv) THEN "FreivaldsCheckFailed"
        ELSE IF ~RangeGuard(Cols(layer.w), layer.x, layer.bias, out) THEN "AccumulatorRange"
        ELSE IF CheckLinearBiased(PrecomputeV(same, layer.w), layer.x, layer.bias, same, out) THEN "ok"
        ELSE "FreivaldsCheckFailed"

\* The verdict of check_linear under the challenge rr.
Audit(rr, vv) ==
    IF ~ShapesMatch(rr, vv) THEN "FreivaldsCheckFailed"
    ELSE IF ~RangeGuard(Cols(layer.w), layer.x, layer.bias, out) THEN "AccumulatorRange"
    ELSE IF CheckLinearBiased(vv, layer.x, layer.bias, rr, out) THEN "ok"
    ELSE "FreivaldsCheckFailed"

CheckLinear ==
    /\ phase = "challenged"
    /\ phase' = "done" /\ verdict' = Audit(r, v)
    /\ UNCHANGED <<layer, out, r, v>>

Next ==
    \/ CommitHonest
    \/ \E z \in Claims : Commit(z)
    \/ \E c \in DrawSpace : DrawChallenge(c)
    \/ CheckLinear

Spec == Init /\ [][Next]_vars

-----------------------------------------------------------------------------
\* The weights the verifier checks against: every cell truncated to i8.
Truncated(w) == [w EXCEPT !.cells = [i \in DOMAIN w.cells |-> AsI8(w.cells[i])]]

Int8Weights(w) == Truncated(w) = w

\* The accumulator the truncated weights really produce.
TrueOut == Linear(Truncated(layer.w), layer.x, layer.bias)

IsMatrix == Len(layer.w.shape) = 2

WellShaped == IsMatrix /\ Len(out) = Rows(layer.w) /\ Len(layer.x) = Cols(layer.w)

Guarded == WellShaped /\ RangeGuard(Cols(layer.w), layer.x, layer.bias, out)

\* The phases and verdicts have their types, and a challenge has one value per row.
TypeOK ==
    /\ phase \in {"start", "committed", "challenged", "done"}
    /\ layer \in Layers
    /\ verdict \in {"none", "ok", "MissingBinding", "AccumulatorRange", "FreivaldsCheckFailed"}
    /\ phase = "challenged" => r \in Challenges(Rows(layer.w)) /\ Len(v) = Cols(layer.w)

\* Completeness (freivalds.rs:9, "an honest z always passes"): over int8 weights
\* the kernel's own result is accepted under every challenge, or is refused
\* for leaving the operand bound, never for the equation.
HonestNeverFailsEquation ==
    (phase = "done" /\ WellShaped /\ Int8Weights(layer.w) /\ out = HonestOut)
        => verdict \in {"ok", "AccumulatorRange"}

\* Range guard (freivalds.rs:16-32): once the guard has passed, an accumulator
\* congruent to the true one modulo p is the true one.
CongruenceImpliesEquality ==
    (Guarded /\ \A i \in DOMAIN out : (out[i] - TrueOut[i]) % AuditP = 0) => out = TrueOut

\* Soundness error (freivalds.rs:10, "<= 1/p per check"): a wrong accumulator,
\* fixed before the draw, is accepted by at most a 1/p share of the challenges.
FewFoolingChallenges ==
    (phase = "committed" /\ WellShaped /\ out # TrueOut) =>
        LET C == Challenges(Rows(layer.w))
            fooling == { c \in C : Audit(c, PrecomputeV(c, layer.w)) = "ok" }
        IN  Cardinality(fooling) * AuditP <= Cardinality(C)
=============================================================================
