----------------------------- MODULE FixedPoint -----------------------------
(***************************************************************************)
(* The fixed-point reference semantics of pwm-core: the centered signed    *)
(* encoding (field.rs), bounded integers                                   *)
(* (fixed_point.rs), and the two-limb accumulator (limb.rs).               *)
(*                                                                         *)
(* All definitions are operators over integers.  The M31 modulus           *)
(* P = 2^31 - 1 is scaled to P == 2 * PHalf + 1, and MaxK is the largest   *)
(* limb split the code admits (30, where 2^30 - 1 = P_HALF).               *)
(***************************************************************************)
EXTENDS Integers, FiniteSetsExt

CONSTANTS PHalf,      \* P_HALF = (p - 1) / 2, half the value field
          MaxK        \* MAX_K, the largest limb split

ASSUME FieldAssumption == PHalf \in Nat \ {0}
ASSUME LimbAssumption == MaxK \in Nat /\ 2^MaxK <= PHalf + 1

P == 2 * PHalf + 1

(***************************** centered encoding ****************************)

InSignedRange(x) == -PHalf <= x /\ x <= PHalf

\* rem_euclid: TLA+ % already yields the nonnegative remainder.
Encode(x) == x % P

\* Mutant: the boundary cell P_HALF read as negative.
DecodeHalfNegative(f) == IF f < PHalf THEN f ELSE f - P

Decode(f) == IF f <= PHalf THEN f ELSE f - P

(***************************** bounded integers *****************************)
\* The invariant every constructor of BoundedInt enforces.
BoundedInt == { b \in [value : -PHalf..PHalf, lo : -PHalf..PHalf, hi : -PHalf..PHalf] :
                  b.lo <= b.value /\ b.value <= b.hi }

Ok(b) == [err |-> "ok", val |-> b]
Fail(e) == [err |-> e]

NewBounded(value, lo, hi) ==
    IF lo > hi THEN Fail("InvertedBounds")
    ELSE IF value < lo \/ value > hi THEN Fail("ValueOutOfBounds")
    ELSE IF ~InSignedRange(lo) \/ ~InSignedRange(hi) THEN Fail("BoundsEscapeSignedRange")
    ELSE Ok([value |-> value, lo |-> lo, hi |-> hi])

\* Mutant: the value, not the propagated bound, decides overflow.
FinishOnValue(op, value, lo, hi) ==
    IF InSignedRange(value) THEN Ok([value |-> value, lo |-> lo, hi |-> hi]) ELSE Fail(op)

\* finish: the propagated bound, not the value, decides overflow.
FinishB(op, value, lo, hi) ==
    IF lo < -PHalf \/ hi > PHalf
    THEN Fail(op)
    ELSE Ok([value |-> value, lo |-> lo, hi |-> hi])

AddB(a, b) == FinishB("add", a.value + b.value, a.lo + b.lo, a.hi + b.hi)

SubB(a, b) == FinishB("sub", a.value - b.value, a.lo - b.hi, a.hi - b.lo)

\* The products of the bounds, whose extremes bound the product.
Corners(a, b) == { a.lo * b.lo, a.lo * b.hi, a.hi * b.lo, a.hi * b.hi }

MulB(a, b) == FinishB("mul", a.value * b.value, Min(Corners(a, b)), Max(Corners(a, b)))

\* le_witness is strict = 0, lt_witness is strict = 1.
DiffWitness(a, b, strict) ==
    LET d == b.value - a.value - strict
        w == NewBounded(d, 0, b.hi - a.lo - strict)
    IN  IF d < 0 THEN Fail("NotOrdered")
        ELSE IF w.err = "ok" THEN w ELSE Fail("compare")

(****************************** two-limb values *****************************)
\* Mutant: limbs only when both ends escape.
NeedsLimbsBothEnds(lo, hi) == lo < -PHalf /\ hi > PHalf

NeedsLimbs(lo, hi) == lo < -PHalf \/ hi > PHalf

\* Mutant: the high limb's own range is not checked.
SelectWithoutHighLimb(lo, hi, k) ==
    IF ~NeedsLimbs(lo, hi) THEN "SingleM31" ELSE IF k \notin 1..MaxK THEN "InvalidK" ELSE "TwoLimb"

SelectAccumRepr(lo, hi, k) ==
    IF ~NeedsLimbs(lo, hi) THEN "SingleM31"
    ELSE IF k \notin 1..MaxK THEN "InvalidK"
    ELSE IF lo \div 2^k < -PHalf \/ hi \div 2^k > PHalf THEN "ExceedsTwoLimbs"
    ELSE "TwoLimb"

Decompose(value, lo, hi, k) ==
    LET low  == NewBounded(value % 2^k, 0, 2^k - 1)
        high == NewBounded(value \div 2^k, lo \div 2^k, hi \div 2^k)
    IN  IF k \notin 1..MaxK THEN Fail("InvalidK")
        ELSE IF low.err # "ok" THEN Fail("InvalidK")
        ELSE IF high.err # "ok" THEN Fail("ExceedsTwoLimbs")
        ELSE Ok([low |-> low.val, high |-> high.val, k |-> k])

Reconstruct(limb) == limb.low.value + 2^limb.k * limb.high.value
=============================================================================
