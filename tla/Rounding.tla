------------------------------ MODULE Rounding ------------------------------
(***************************************************************************)
(* Requantization and integer division as pwm-core defines them            *)
(* (fixed_point.rs 213-345, predictor.rs 21-28): operators only.           *)
(***************************************************************************)
EXTENDS Integers

CONSTANT MaxShift     \* MAX_SHIFT (62), the largest usable right shift

ASSUME ShiftAssumption == MaxShift \in Nat

\* Rounding::from_discriminant knows 0 and 1; any other byte decodes to None.
Modes == {"NearestTiesToEven", "TruncateTowardZero"}

ValidShift(r) == r <= MaxShift

\* split_pow2: floor quotient and nonnegative remainder of n by 2^r.
SplitPow2(n, r) == [q |-> n \div 2^r, rem |-> n % 2^r]

\* round, with half = 2^(r-1); half is read only when the remainder is nonzero,
\* which needs r >= 1.
RoundSplit(split, half, n, mode) ==
    IF split.rem = 0 THEN split.q
    ELSE IF mode = "NearestTiesToEven"
         THEN IF split.rem < half THEN split.q
              ELSE IF split.rem > half THEN split.q + 1
              ELSE split.q + (split.q % 2)
         ELSE IF n >= 0 THEN split.q ELSE split.q + 1

Round(n, r, mode) ==
    RoundSplit(SplitPow2(n, r), IF r = 0 THEN 0 ELSE 2^(r - 1), n, mode)

\* i64::clamp, for lo <= hi.
Clamp(x, lo, hi) == IF x < lo THEN lo ELSE IF x > hi THEN hi ELSE x

Requantize(n, r, zeroPoint, lo, hi, mode) == Clamp(Round(n, r, mode) + zeroPoint, lo, hi)

\* round_div: nearest, ties away from zero, n > 0.
RoundDiv(a, n) ==
    IF a >= 0 THEN (a + n \div 2) \div n ELSE -((-a + n \div 2) \div n)

\* The machine's `/`: quotient truncated toward zero.
Magnitude(a) == IF a < 0 THEN -a ELSE a

TruncDiv(a, b) ==
    LET q == Magnitude(a) \div Magnitude(b) IN IF (a < 0) = (b < 0) THEN q ELSE -q
=============================================================================
