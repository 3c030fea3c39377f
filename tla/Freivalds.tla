----------------------------- MODULE Freivalds ------------------------------
(***************************************************************************)
(* The Freivalds audit of one linear layer out = W x + bias                *)
(* (pwm-core freivalds.rs and field.rs, and the verifier's weight_i8,      *)
(* check_linear and range_guard_linear): operators only.                   *)
(*                                                                         *)
(* The audit field p = 2^61 - 1, the operand bound 2^30 - 1 and the int8   *)
(* weight range are constants.  A tensor is a record of its shape and its  *)
(* row-major cells.                                                        *)
(***************************************************************************)
EXTENDS Sums

CONSTANTS AuditP,     \* FREIVALDS_P, the audit field modulus
          Bound,      \* FREIVALDS_OPERAND_BOUND
          WMax        \* i8::MAX: an i8 ranges over -(WMax+1)..WMax

ASSUME FreivaldsAssumption ==
    AuditP \in Nat \ {0} /\ Bound \in Nat /\ WMax \in Nat

\* 2^61 - 1 is a Mersenne prime (field.rs).
ASSUME PrimeAssumption == AuditP > 1 /\ \A d \in 2..(AuditP - 1) : AuditP % d # 0

(******************************** audit field ******************************)
FieldElems == 0..(AuditP - 1)

\* Fp61::from_i64: a negative value maps to p - |x|.
FromInt(x) == x % AuditP

\* Sum of products in the field; the vectors are zipped.
Dot(coeffs, vals) ==
    SumTo([i \in 1..ZipLen(coeffs, vals) |-> coeffs[i] * FromInt(vals[i])],
          ZipLen(coeffs, vals)) % AuditP

(******************************** weight access ****************************)
\* `value as i8`: two's complement truncation.
AsI8(x) ==
    LET m == x % (2 * (WMax + 1)) IN IF m > WMax THEN m - 2 * (WMax + 1) ELSE m

Rows(w) == w.shape[1]
Cols(w) == w.shape[2]
Cell(w, i, j) == w.cells[(i - 1) * Cols(w) + j]

\* The dense reference kernel predictor::linear, on the untruncated cells.
Linear(w, x, bias) ==
    [i \in 1..Rows(w) |->
        bias[i] + SumTo([j \in 1..Cols(w) |-> Cell(w, i, j) * x[j]], Cols(w))]

(********************************* the check *******************************)
WithinOperandBound(vals) == \A i \in DOMAIN vals : vals[i] \in -Bound..Bound

\* |W| <= WMax, so |z - (W x + bias)| <= WMax*cols*B + 2B has to stay below p.
DimsWithinMargin(cols) == WMax * cols * Bound + 2 * Bound < AuditP

\* Mutant: the claimed output is not range-checked.
RangeGuardInputsOnly(cols, x, bias, out) ==
    DimsWithinMargin(cols) /\ WithinOperandBound(x) /\ WithinOperandBound(bias)

RangeGuard(cols, x, bias, out) ==
    /\ DimsWithinMargin(cols)
    /\ WithinOperandBound(x)
    /\ WithinOperandBound(bias)
    /\ WithinOperandBound(out)

\* v = r^T W over the int8 weights.
PrecomputeV(r, w) ==
    [j \in 1..Cols(w) |->
        SumTo([i \in 1..Rows(w) |-> r[i] * FromInt(AsI8(Cell(w, i, j)))], Rows(w)) % AuditP]

\* Mutant: the equation without the bias.
CheckLinearUnbiased(v, x, bias, r, out) ==
    RangeGuard(Len(x), x, bias, out) /\ Dot(v, x) = Dot(r, out)

\* v . x + r . bias = r . out, behind the same range guard.
CheckLinearBiased(v, x, bias, r, out) ==
    /\ RangeGuard(Len(x), x, bias, out)
    /\ (Dot(v, x) + Dot(r, bias)) % AuditP = Dot(r, out)

\* The challenge vectors for an output of n rows.
Challenges(n) == [1..n -> FieldElems]
=============================================================================
