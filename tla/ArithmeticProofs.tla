-------------------------- MODULE ArithmeticProofs --------------------------
(***************************************************************************)
(* The arithmetic the statements rest on.  However long a chain of bounded *)
(* operations, it never wraps, a rejected step keeps its value within the  *)
(* bound it reports, and what the selector declares two-limb decomposes    *)
(* without loss.  The audit of a linear layer, for every modulus, bound,   *)
(* weight range, set of layers and set of claims: its type invariant,      *)
(* completeness under every challenge, that the range guard turns          *)
(* congruence into equality when no truncated weight is the int8 minimum,  *)
(* and that over a prime one challenge in p at most is fooled.             *)
(***************************************************************************)
EXTENDS LinearAudit, BoundedArith, KernelProofs, FiniteSetTheorems

(*********************** chains of bounded operations **********************)
LEMMA FieldSize ==
    PHalf \in Nat \ {0} /\ P \in Nat \ {0} /\ P = 2 * PHalf + 1
  BY FieldAssumption DEF P

\* Encoding and decoding a value of the signed range gives it back.
LEMMA DecodeEncode ==
    ASSUME NEW x \in -PHalf..PHalf
    PROVE  Decode(x % P) = x /\ x % P \in 0..(P - 1)
<1>1. CASE x >= 0
  <2>1. x = P * 0 + x /\ x \in 0..(P - 1)
    BY <1>1, FieldSize
  <2>2. x = x % P
    BY <2>1, FieldSize, ModUnique
  <2> QED BY <2>1, <2>2 DEF Decode
<1>2. CASE x < 0
  <2> DEFINE u == x + P
  <2>1. x = P * (-1) + u /\ u \in 0..(P - 1) /\ u > PHalf /\ u - P = x
    BY <1>2, FieldSize
  <2>2. u = x % P
    <3> HIDE DEF u
    <3> QED BY <2>1, FieldSize, ModUnique
  <2> HIDE DEF u
  <2> QED BY <2>1, <2>2, FieldSize DEF Decode
<1> QED BY <1>1, <1>2

\* The extremes of four integers.
LEMMA FourExtremes ==
    ASSUME NEW p \in Int, NEW q \in Int, NEW u \in Int, NEW s \in Int
    PROVE  /\ Min({p, q, u, s}) \in {p, q, u, s} /\ Max({p, q, u, s}) \in {p, q, u, s}
           /\ \A e \in {p, q, u, s} : Min({p, q, u, s}) <= e /\ e <= Max({p, q, u, s})
<1> DEFINE S == {p, q, u, s}
<1>1. \E e \in S : \A f \in S : e <= f
  <2>1. \E e \in {p, q} : e <= p /\ e <= q
    OBVIOUS
  <2>2. \E e \in {u, s} : e <= u /\ e <= s
    OBVIOUS
  <2> QED BY <2>1, <2>2
<1>2. \E e \in S : \A f \in S : e >= f
  <2>1. \E e \in {p, q} : e >= p /\ e >= q
    OBVIOUS
  <2>2. \E e \in {u, s} : e >= u /\ e >= s
    OBVIOUS
  <2> QED BY <2>1, <2>2
<1>3. S \subseteq Int
  OBVIOUS
<1> HIDE DEF S
<1>4. Min(S) \in S /\ \A f \in S : Min(S) <= f
  BY <1>1 DEF Min
<1>5. Max(S) \in S /\ \A f \in S : Max(S) >= f
  BY <1>2 DEF Max
<1>6. \A f \in S : f <= Max(S)
  BY <1>3, <1>5
<1> QED BY <1>4, <1>5, <1>6 DEF S

\* A product lies between the extremes of the products of the bounds.
LEMMA CornersEnclose ==
    ASSUME NEW a \in BoundedInt, NEW b \in BoundedInt
    PROVE  /\ Min(Corners(a, b)) \in Int /\ Max(Corners(a, b)) \in Int
           /\ Min(Corners(a, b)) <= a.value * b.value
           /\ a.value * b.value <= Max(Corners(a, b))
<1> DEFINE x == a.value
           al == a.lo
           ah == a.hi
           y == b.value
           bl == b.lo
           bh == b.hi
           C == Corners(a, b)
<1>1. /\ x \in Int /\ al \in Int /\ ah \in Int /\ al <= x /\ x <= ah
      /\ y \in Int /\ bl \in Int /\ bh \in Int /\ bl <= y /\ y <= bh
  BY FieldSize DEF BoundedInt
<1>2. C = {al * bl, al * bh, ah * bl, ah * bh}
  BY DEF Corners
<1> HIDE DEF x, al, ah, y, bl, bh, C
<1>4. /\ al * bl \in Int /\ al * bh \in Int /\ ah * bl \in Int /\ ah * bh \in Int /\ x * y \in Int
      /\ x * bl \in Int /\ x * bh \in Int
  BY <1>1
<1>5. /\ Min(C) \in Int /\ Max(C) \in Int
      /\ \A e \in {al * bl, al * bh, ah * bl, ah * bh} : Min(C) <= e /\ e <= Max(C)
  <2> DEFINE p == al * bl
             q == al * bh
             u == ah * bl
             s == ah * bh
  <2>1. p \in Int /\ q \in Int /\ u \in Int /\ s \in Int /\ C = {p, q, u, s}
    BY <1>2, <1>4
  <2> SUFFICES /\ Min(C) \in Int /\ Max(C) \in Int
               /\ \A e \in {p, q, u, s} : Min(C) <= e /\ e <= Max(C)
    OBVIOUS
  <2> HIDE DEF p, q, u, s
  <2>2. /\ Min({p, q, u, s}) \in {p, q, u, s} /\ Max({p, q, u, s}) \in {p, q, u, s}
        /\ \A e \in {p, q, u, s} : Min({p, q, u, s}) <= e /\ e <= Max({p, q, u, s})
    <3>1. p \in Int /\ q \in Int /\ u \in Int /\ s \in Int
      BY <2>1
    <3> QED BY <3>1, FourExtremes
  <2>3. Min(C) = Min({p, q, u, s}) /\ Max(C) = Max({p, q, u, s})
    BY <2>1
  <2> QED BY <2>1, <2>2, <2>3
\* x * y lies between x * bl and x * bh, and each of those between two corners.
<1>6. \A u, l, h, k \in Int : l <= u /\ u <= h =>
          \/ l * k <= u * k /\ u * k <= h * k
          \/ h * k <= u * k /\ u * k <= l * k
  <2> TAKE u \in Int, l \in Int, h \in Int, k \in Int
  <2> SUFFICES ASSUME l <= u, u <= h
               PROVE  \/ l * k <= u * k /\ u * k <= h * k
                      \/ h * k <= u * k /\ u * k <= l * k
    OBVIOUS
  <2>1. \A p, q \in Nat : p * q >= 0
    OBVIOUS
  <2>2. CASE k >= 0
    <3>1. (u - l) * k >= 0 /\ (h - u) * k >= 0
      BY <2>1, <2>2, u - l \in Nat, h - u \in Nat, k \in Nat
    <3>2. (u - l) * k = u * k - l * k /\ (h - u) * k = h * k - u * k
      OBVIOUS
    <3> QED BY <3>1, <3>2
  <2>3. CASE k < 0
    <3>1. (u - l) * (-k) >= 0 /\ (h - u) * (-k) >= 0
      BY <2>1, <2>3, u - l \in Nat, h - u \in Nat, -k \in Nat
    <3>2. (u - l) * (-k) = l * k - u * k /\ (h - u) * (-k) = u * k - h * k
      OBVIOUS
    <3> QED BY <3>1, <3>2
  <2> QED BY <2>2, <2>3
<1>7. Min(C) <= x * bl /\ x * bl <= Max(C)
  <2>1. \/ al * bl <= x * bl /\ x * bl <= ah * bl
        \/ ah * bl <= x * bl /\ x * bl <= al * bl
    BY <1>1, <1>6
  <2> QED BY <1>4, <1>5, <2>1
<1>8. Min(C) <= x * bh /\ x * bh <= Max(C)
  <2>1. \/ al * bh <= x * bh /\ x * bh <= ah * bh
        \/ ah * bh <= x * bh /\ x * bh <= al * bh
    BY <1>1, <1>6
  <2> QED BY <1>4, <1>5, <2>1
<1>9. Min(C) <= x * y /\ x * y <= Max(C)
  <2>1. \/ bl * x <= y * x /\ y * x <= bh * x
        \/ bh * x <= y * x /\ y * x <= bl * x
    BY <1>1, <1>6
  <2>2. bl * x = x * bl /\ bh * x = x * bh /\ y * x = x * y
    BY <1>1
  <2> QED BY <1>4, <1>5, <1>7, <1>8, <2>1, <2>2
<1> QED BY <1>5, <1>9 DEF C, x, y

\* What an operation keeps: a result in range is a bounded integer, whatever
\* error it would have been.
LEMMA FinishBounded ==
    ASSUME NEW op \in {"add", "sub", "mul"}, NEW n \in Int, NEW lo \in Int, NEW hi \in Int,
           lo <= n, n <= hi
    PROVE  /\ FinishB(op, n, lo, hi).err = "ok" =>
                /\ FinishB(op, n, lo, hi).val = [value |-> n, lo |-> lo, hi |-> hi]
                /\ FinishB(op, n, lo, hi).val \in BoundedInt
           /\ FinishB(op, n, lo, hi).err # "ok" =>
                FinishB(op, n, lo, hi).err = op /\ NeedsLimbs(lo, hi)
  BY FieldSize DEF FinishB, Ok, Fail, BoundedInt, NeedsLimbs

\* A value that fits two limbs decomposes into them.
LEMMA DecomposeExact ==
    ASSUME NEW n \in Int, NEW lo \in Int, NEW hi \in Int, lo <= n, n <= hi,
           NEW k \in Nat, SelectAccumRepr(lo, hi, k) = "TwoLimb"
    PROVE  /\ Decompose(n, lo, hi, k).err = "ok"
           /\ Decompose(n, lo, hi, k).val.low \in BoundedInt
           /\ Decompose(n, lo, hi, k).val.high \in BoundedInt
           /\ Reconstruct(Decompose(n, lo, hi, k).val) = n
<1> DEFINE m == 2^k
           low == n % m
           high == n \div m
           hl == lo \div m
           hh == hi \div m
<1>1. k \in 1..MaxK /\ ~(hl < -PHalf) /\ ~(hh > PHalf)
  BY DEF SelectAccumRepr
<1>2. m \in Nat \ {0} /\ m <= PHalf + 1
  <2>1. MaxK \in Nat /\ k <= MaxK /\ 2^MaxK <= PHalf + 1
    BY <1>1, LimbAssumption
  <2>2. 2^k \in Nat \ {0} /\ 2^MaxK \in Nat \ {0}
    BY <2>1, Power
  <2>3. 2^k <= 2^MaxK
    BY <2>1, PowerMonotone
  <2> QED BY <2>1, <2>2, <2>3, FieldSize
<1>3. Decompose(n, lo, hi, k) =
        LET l == NewBounded(low, 0, m - 1)
            h == NewBounded(high, hl, hh)
        IN  IF k \notin 1..MaxK THEN Fail("InvalidK")
            ELSE IF l.err # "ok" THEN Fail("InvalidK")
            ELSE IF h.err # "ok" THEN Fail("ExceedsTwoLimbs")
            ELSE Ok([low |-> l.val, high |-> h.val, k |-> k])
  BY DEF Decompose
<1>4. \A z : Reconstruct(z) = z.low.value + 2^z.k * z.high.value
  BY DEF Reconstruct
<1> HIDE DEF m
<1>5. /\ low \in 0..(m - 1) /\ high \in Int /\ n = m * high + low
      /\ hl \in Int /\ hh \in Int /\ hl <= high /\ high <= hh
  BY <1>2, DivMod, DivMonotone
<1> HIDE DEF low, high, hl, hh
<1>6. NewBounded(low, 0, m - 1) = Ok([value |-> low, lo |-> 0, hi |-> m - 1])
  BY <1>2, <1>5, FieldSize DEF NewBounded, InSignedRange
<1>7. NewBounded(high, hl, hh) = Ok([value |-> high, lo |-> hl, hi |-> hh])
  BY <1>1, <1>5, FieldSize DEF NewBounded, InSignedRange
<1> DEFINE l == [value |-> low, lo |-> 0, hi |-> m - 1]
           h == [value |-> high, lo |-> hl, hi |-> hh]
<1>8. l \in BoundedInt /\ h \in BoundedInt
  BY <1>1, <1>2, <1>5, FieldSize DEF BoundedInt
<1>9. Decompose(n, lo, hi, k) = Ok([low |-> l, high |-> h, k |-> k])
  BY <1>1, <1>3, <1>6, <1>7 DEF Ok
<1> DEFINE limbs == Decompose(n, lo, hi, k).val
<1>10. limbs.low.value + 2^limbs.k * limbs.high.value = n
  <2>1. limbs.low.value = low /\ limbs.high.value = high /\ limbs.k = k
    BY <1>9 DEF Ok
  <2>2. low + m * high = n
    BY <1>2, <1>5
  <2> HIDE DEF limbs
  <2> QED BY <2>1, <2>2 DEF m
<1>11. limbs.low = l /\ limbs.high = h /\ Decompose(n, lo, hi, k).err = "ok"
  BY <1>9 DEF Ok
<1> HIDE DEF l, h
<1> QED BY <1>4, <1>8, <1>10, <1>11

\* The invariant of a chain.
\* The field carries the tracked value's remainder.
Faithful == residue = acc.value % P

\* A selector's verdict and a decomposition are about the pending bound.
Selected ==
    /\ status # "running" => NeedsLimbs(pending.lo, pending.hi)
    /\ repr.verdict # "none" =>
         /\ status # "running"
         /\ repr.verdict = SelectAccumRepr(pending.lo, pending.hi, repr.k)
    /\ limb.err # "none" =>
         /\ repr.verdict # "none"
         /\ limb = Decompose(pending.value, pending.lo, pending.hi, repr.k)

BInv == ChainTypeOK /\ Faithful /\ PendingEnclosed /\ Selected

LEMMA InitBInv == ChainInit => BInv
<1> SUFFICES ASSUME ChainInit PROVE BInv
  OBVIOUS
<1>1. acc \in BoundedInt /\ pending = acc /\ residue = acc.value % P
  BY TermsAssumption DEF ChainInit, Encode
<1>2. acc.value \in -PHalf..PHalf /\ pending \in [value : Int, lo : Int, hi : Int]
  BY <1>1, FieldSize DEF BoundedInt
<1>3. ChainTypeOK
  BY <1>1, <1>2, DecodeEncode DEF ChainInit, ChainTypeOK, Statuses, Reprs
<1>4. PendingEnclosed
  BY <1>1 DEF BoundedInt, PendingEnclosed
<1>5. Selected
  BY DEF ChainInit, Selected, Fail
<1> QED BY <1>1, <1>3, <1>4, <1>5 DEF BInv, Faithful

\* One operation of the chain: enclosed bounds and a faithful residue suffice.
LEMMA ConcludeBInv ==
    ASSUME BInv, NEW op \in {"add", "sub", "mul"}, NEW n \in Int, NEW lo \in Int, NEW hi \in Int,
           NEW field, lo <= n, n <= hi, field = n % P,
           Conclude(FinishB(op, n, lo, hi), [value |-> n, lo |-> lo, hi |-> hi], field)
    PROVE  BInv'
<1> DEFINE res == FinishB(op, n, lo, hi)
           wide == [value |-> n, lo |-> lo, hi |-> hi]
<1>1. wide \in [value : Int, lo : Int, hi : Int] /\ wide.value = n /\ wide.lo = lo /\ wide.hi = hi
  OBVIOUS
<1>2. /\ res.err = "ok" => res.val = wide /\ res.val \in BoundedInt
      /\ res.err # "ok" => res.err = op /\ NeedsLimbs(lo, hi)
  <2>1. PICK f : f = FinishB(op, n, lo, hi)
    OBVIOUS
  <2>2. /\ f.err = "ok" => f.val = [value |-> n, lo |-> lo, hi |-> hi] /\ f.val \in BoundedInt
        /\ f.err # "ok" => f.err = op /\ NeedsLimbs(lo, hi)
    <3> HIDE DEF res, wide
    <3> QED BY <2>1, FinishBounded
  <2>3. res = f
    BY <2>1
  <2> HIDE DEF res
  <2> QED BY <2>2, <2>3
<1>3. field \in 0..(P - 1)
  BY FieldSize, DivMod
<1>4. /\ status = "running" /\ UNCHANGED <<repr, limb>>
      /\ IF res.err = "ok" THEN acc' = res.val /\ residue' = field /\ UNCHANGED <<status, pending>>
         ELSE status' = res.err /\ pending' = wide /\ UNCHANGED <<acc, residue>>
  BY DEF Conclude
<1> HIDE DEF res, wide
<1>5. CASE res.err = "ok"
  BY <1>1, <1>2, <1>3, <1>4, <1>5 DEF BInv, ChainTypeOK, Faithful, PendingEnclosed, Selected
<1>6. CASE res.err # "ok"
  <2>1. ChainTypeOK'
    BY <1>1, <1>2, <1>4, <1>6 DEF BInv, ChainTypeOK, Statuses
  <2>2. Faithful' /\ PendingEnclosed'
    BY <1>1, <1>4, <1>6 DEF BInv, Faithful, PendingEnclosed
  <2>3. Selected'
    BY <1>1, <1>2, <1>4, <1>6 DEF BInv, Selected
  <2> QED BY <2>1, <2>2, <2>3 DEF BInv
<1> QED BY <1>5, <1>6

\* The operands of an operation: bounds in order, and remainders of the values.
LEMMA Operands ==
    ASSUME BInv, NEW t \in Terms
    PROVE  /\ acc \in BoundedInt /\ t \in BoundedInt
           /\ acc.value \in Int /\ acc.lo \in Int /\ acc.hi \in Int
           /\ acc.lo <= acc.value /\ acc.value <= acc.hi
           /\ t.value \in Int /\ t.lo \in Int /\ t.hi \in Int
           /\ t.lo <= t.value /\ t.value <= t.hi
           /\ residue = acc.value % P /\ Encode(t.value) = t.value % P
  BY TermsAssumption, FieldSize DEF BInv, ChainTypeOK, Faithful, BoundedInt, Encode

LEMMA StepBInv == BInv /\ [ChainNext]_chainVars => BInv'
<1> SUFFICES ASSUME BInv, [ChainNext]_chainVars PROVE BInv'
  OBVIOUS
<1>1. ASSUME NEW t \in Terms, Add(t) PROVE BInv'
  <2> DEFINE n == acc.value + t.value
             lo == acc.lo + t.lo
             hi == acc.hi + t.hi
             field == (residue + Encode(t.value)) % P
  <2>1. n \in Int /\ lo \in Int /\ hi \in Int /\ lo <= n /\ n <= hi
    BY Operands
  <2>2. field = n % P
    BY Operands, FieldSize, ModRing
  <2>3. Conclude(FinishB("add", n, lo, hi), [value |-> n, lo |-> lo, hi |-> hi], field)
    BY <1>1 DEF Add, AddB
  <2> HIDE DEF n, lo, hi, field
  <2> QED BY <2>1, <2>2, <2>3, ConcludeBInv
<1>2. ASSUME NEW t \in Terms, Sub(t) PROVE BInv'
  <2> DEFINE n == acc.value - t.value
             lo == acc.lo - t.hi
             hi == acc.hi - t.lo
             field == (residue - Encode(t.value)) % P
  <2>1. n \in Int /\ lo \in Int /\ hi \in Int /\ lo <= n /\ n <= hi
    BY Operands
  <2>2. field = n % P
    <3> DEFINE a == acc.value
               b == t.value
    <3>1. a \in Int /\ b \in Int /\ residue = a % P /\ Encode(b) = b % P
      BY Operands
    <3> HIDE DEF a, b
    <3>2. ((a % P) - (b % P)) % P = (a - b) % P
      BY <3>1, FieldSize, ModRing
    <3> QED BY <3>1, <3>2 DEF a, b
  <2>3. Conclude(FinishB("sub", n, lo, hi), [value |-> n, lo |-> lo, hi |-> hi], field)
    BY <1>2 DEF Sub, SubB
  <2> HIDE DEF n, lo, hi, field
  <2> QED BY <2>1, <2>2, <2>3, ConcludeBInv
<1>3. ASSUME NEW t \in Terms, Mul(t) PROVE BInv'
  <2> DEFINE n == acc.value * t.value
             lo == Min(Corners(acc, t))
             hi == Max(Corners(acc, t))
             field == (residue * Encode(t.value)) % P
  <2>1. n \in Int /\ lo \in Int /\ hi \in Int /\ lo <= n /\ n <= hi
    BY Operands, CornersEnclose
  <2>2. field = n % P
    BY Operands, FieldSize, ModRing
  <2>3. Conclude(FinishB("mul", n, lo, hi), [value |-> n, lo |-> lo, hi |-> hi], field)
    BY <1>3 DEF Mul, MulB
  <2> HIDE DEF n, lo, hi, field
  <2> QED BY <2>1, <2>2, <2>3, ConcludeBInv
<1>4. ASSUME NEW k \in Splits, SelectRepr(k) PROVE BInv'
  <2>1. SelectAccumRepr(pending.lo, pending.hi, k) \in Reprs /\ k \in Nat
    BY SplitsAssumption DEF SelectAccumRepr, Reprs
  <2> QED BY <1>4, <2>1
        DEF SelectRepr, BInv, ChainTypeOK, Faithful, PendingEnclosed, Selected, Reprs
<1>5. ASSUME DecomposePending PROVE BInv'
  BY <1>5 DEF DecomposePending, BInv, ChainTypeOK, Faithful, PendingEnclosed, Selected
<1>6. CASE UNCHANGED chainVars
  BY <1>6 DEF chainVars, BInv, ChainTypeOK, Faithful, PendingEnclosed, Selected
<1> QED BY <1>1, <1>2, <1>3, <1>4, <1>5, <1>6 DEF ChainNext

LEMMA AlwaysBInv == ChainSpec => []BInv
<1> QED BY InitBInv, StepBInv, PTL DEF ChainSpec

\* Every accumulator a chain holds is a bounded integer (fixed_point.rs, the
\* constructor's invariant), for every field, bound and chain of operations.
THEOREM BoundedTypeOK == ChainSpec => []ChainTypeOK
<1>1. BInv => ChainTypeOK
  BY DEF BInv
<1> QED BY <1>1, AlwaysBInv, PTL

\* Overflow = reject keeps the centered encoding faithful: the tracked integer
\* is the decoding of what the field computes, however long the chain.
THEOREM ChainNeverWraps == ChainSpec => []NoWrap
<1>1. BInv => NoWrap
  BY FieldSize, DecodeEncode DEF BInv, ChainTypeOK, Faithful, BoundedInt, NoWrap
<1> QED BY <1>1, AlwaysBInv, PTL

\* A rejected step reports a bound that encloses its value.
THEOREM RejectedStaysEnclosed == ChainSpec => []PendingEnclosed
<1>1. BInv => PendingEnclosed
  BY DEF BInv
<1> QED BY <1>1, AlwaysBInv, PTL

\* decompose and reconstruct are inverse on what the selector declares two-limb,
\* and both limbs are bounded integers, for every field and every split.
THEOREM SelectedLimbsRoundTrip == ChainSpec => []TwoLimbRoundTrip
<1>1. ASSUME BInv PROVE TwoLimbRoundTrip
  <2> SUFFICES ASSUME repr.verdict = "TwoLimb", limb.err # "none"
               PROVE  /\ limb.err = "ok" /\ limb.val.low \in BoundedInt /\ limb.val.high \in BoundedInt
                      /\ Reconstruct(limb.val) = pending.value
    BY DEF TwoLimbRoundTrip
  <2>1. /\ SelectAccumRepr(pending.lo, pending.hi, repr.k) = "TwoLimb" /\ repr.k \in Nat
        /\ limb = Decompose(pending.value, pending.lo, pending.hi, repr.k)
        /\ pending.value \in Int /\ pending.lo \in Int /\ pending.hi \in Int
        /\ pending.lo <= pending.value /\ pending.value <= pending.hi
    BY <1>1 DEF BInv, ChainTypeOK, Selected, PendingEnclosed
  <2> QED BY <2>1, DecomposeExact
<1>2. BInv => TwoLimbRoundTrip
  BY <1>1
<1> QED BY <1>2, AlwaysBInv, PTL

\* The selector never answers with a single cell for a step that overflowed one.
THEOREM OverflowIsNeverOneCell == ChainSpec => []OverflowNeedsLimbs
<1>1. BInv => OverflowNeedsLimbs
  BY DEF BInv, Selected, OverflowNeedsLimbs, SelectAccumRepr
<1> QED BY <1>1, AlwaysBInv, PTL

(************************ the audit of a dense layer **********************)
\* The verifier holds v = r^T W from the draw on, and its verdict on a matrix is
\* that of check_linear under the r it drew.
IInv ==
    /\ TypeOK
    /\ out \in Seq(Int)
    /\ phase = "challenged" => IsMatrix /\ v = PrecomputeV(r, layer.w)
    /\ (phase = "done" /\ IsMatrix) =>
          /\ r \in Challenges(Rows(layer.w))
          /\ v = PrecomputeV(r, layer.w)
          /\ verdict = Audit(r, v)

\* A layer of the constant has the parts the audit reads, of the expected types.
LEMMA LayerType ==
    ASSUME NEW l \in Layers
    PROVE  /\ l.w \in [shape : Seq(Nat), cells : Seq(Int)]
           /\ Len(l.w.shape) = 2 => /\ Rows(l.w) \in Nat /\ Cols(l.w) \in Nat
                                    /\ Len(l.x) = Cols(l.w) => LayerData(l.w, l.x, l.bias)
  BY LayersAssumption DEF LayerData, Rows, Cols

\* precompute_v returns one field element per column.
LEMMA PrecomputeLength ==
    ASSUME NEW w, NEW c, Cols(w) \in Nat
    PROVE  Len(PrecomputeV(c, w)) = Cols(w)
  BY DEF PrecomputeV

\* The initial states satisfy the invariant.
LEMMA InitInv == Init => IInv
<1> SUFFICES ASSUME Init PROVE IInv
  OBVIOUS
<1> QED BY DEF Init, IInv, TypeOK

\* Every step of the prover and the verifier preserves it.
LEMMA NextInv == IInv /\ [Next]_vars => IInv'
<1> SUFFICES ASSUME IInv, [Next]_vars PROVE IInv'
  OBVIOUS
<1> USE DEF IInv, TypeOK
<1>1. layer \in Layers
  OBVIOUS
<1>2. CASE CommitHonest
  <2>1. LayerData(layer.w, layer.x, layer.bias)
    BY <1>1, <1>2, LayerType DEF CommitHonest
  <2>2. HonestOut \in Seq(Int)
    BY <2>1, LinearType DEF HonestOut
  <2> QED BY <1>2, <2>2 DEF CommitHonest, Commit, IsMatrix
<1>3. CASE \E z \in Claims : Commit(z)
  BY <1>3, ClaimsAssumption DEF Commit, IsMatrix
<1>4. CASE \E c \in DrawSpace : DrawChallenge(c)
  <2>1. PICK c \in DrawSpace : DrawChallenge(c)
    BY <1>4
  <2>2. CASE ~IsMatrix
    BY <2>1, <2>2 DEF DrawChallenge, Reject, IsMatrix
  <2>3. CASE IsMatrix
    <3>1. c \in Challenges(Rows(layer.w))
      BY <2>1, <2>3, DrawsAssumption DEF DrawSpace, IsMatrix, Challenges
    <3>2. /\ r' = c /\ v' = PrecomputeV(c, layer.w) /\ phase' = "challenged"
          /\ verdict' = verdict /\ layer' = layer /\ out' = out
      BY <2>1, <2>3 DEF DrawChallenge, IsMatrix
    <3>3. Len(v') = Cols(layer.w)
      BY <1>1, <2>3, <3>2, LayerType, PrecomputeLength DEF IsMatrix
    <3> QED BY <2>3, <3>1, <3>2, <3>3 DEF IsMatrix
  <2> QED BY <2>2, <2>3
<1>5. CASE CheckLinear
  <2>1. /\ phase' = "done" /\ verdict' = Audit(r, v) /\ layer' = layer /\ out' = out
        /\ r' = r /\ v' = v /\ phase = "challenged"
    BY <1>5 DEF CheckLinear
  <2>2. Audit(r, v) \in {"ok", "AccumulatorRange", "FreivaldsCheckFailed"}
    BY DEF Audit
  <2>3. Audit(r, v)' = Audit(r, v)
    BY <2>1 DEF Audit, ShapesMatch
  <2> QED BY <2>1, <2>2, <2>3 DEF IsMatrix
<1>6. CASE UNCHANGED vars
  BY <1>6 DEF vars, IsMatrix, Audit, ShapesMatch
<1> QED BY <1>2, <1>3, <1>4, <1>5, <1>6 DEF Next

\* The type invariant holds for every instance.
THEOREM TypeCorrect == Spec => []TypeOK
<1>1. IInv => TypeOK
  BY DEF IInv
<1> QED BY <1>1, InitInv, NextInv, PTL DEF Spec

\* Cells that truncation to i8 leaves alone are in the int8 range.
LEMMA Int8CellsOf ==
    ASSUME NEW w \in [shape : Seq(Nat), cells : Seq(Int)], Int8Weights(w)
    PROVE  Int8Cells(w)
<1> DEFINE cut == [i \in DOMAIN w.cells |-> AsI8(w.cells[i])]
<1>1. [w EXCEPT !.cells = cut].cells = cut
  OBVIOUS
<1>2. cut = w.cells
  BY <1>1 DEF Int8Weights, Truncated
<1>3. \A i \in DOMAIN w.cells : cut[i] = AsI8(w.cells[i])
  OBVIOUS
<1> QED BY <1>2, <1>3 DEF Int8Cells

\* An honest accumulator over int8 weights is never refused for the equation,
\* whatever challenge is drawn (freivalds.rs:9).
THEOREM Completeness == Spec => []HonestNeverFailsEquation
<1>1. IInv => HonestNeverFailsEquation
  <2> SUFFICES ASSUME IInv, phase = "done", WellShaped, Int8Weights(layer.w), out = HonestOut
               PROVE  verdict \in {"ok", "AccumulatorRange"}
    BY DEF HonestNeverFailsEquation
  <2>1. /\ layer \in Layers /\ IsMatrix /\ r \in Challenges(Rows(layer.w))
        /\ v = PrecomputeV(r, layer.w) /\ verdict = Audit(r, v)
    BY DEF IInv, TypeOK, WellShaped
  <2>2. /\ LayerData(layer.w, layer.x, layer.bias) /\ Cols(layer.w) \in Nat /\ Rows(layer.w) \in Nat
        /\ Len(layer.x) = Cols(layer.w)
    BY <2>1, LayerType DEF WellShaped, IsMatrix
  <2>3. Int8Cells(layer.w)
    BY <2>1, LayerType, Int8CellsOf
  <2>4. (Dot(v, layer.x) + Dot(r, layer.bias)) % AuditP = Dot(r, out)
    BY <2>1, <2>2, <2>3, KernelSatisfiesEquation DEF HonestOut
  <2>5. ShapesMatch(r, v)
    <3>1. Len(r) = Rows(layer.w)
      BY <2>1, <2>2 DEF Challenges
    <3>2. Len(v) = Cols(layer.w)
      BY <2>1, <2>2, PrecomputeLength
    <3> QED BY <3>1, <3>2 DEF ShapesMatch, WellShaped
  <2>6. RangeGuard(Cols(layer.w), layer.x, layer.bias, out) =>
            CheckLinearBiased(v, layer.x, layer.bias, r, out)
    BY <2>2, <2>4 DEF CheckLinearBiased
  <2> QED BY <2>1, <2>5, <2>6 DEF Audit
<1> QED BY <1>1, InitInv, NextInv, PTL DEF Spec

\* No truncated weight is the int8 minimum, as the symmetric exporter ensures.
SymmetricWeights ==
    \A l \in Layers : \A k \in DOMAIN l.w.cells : AsI8(l.w.cells[k]) # -(WMax + 1)

\* What the audit reads of the weights is their truncation.
LEMMA TruncatedAudit ==
    ASSUME NEW l \in Layers, Len(l.w.shape) = 2, Len(l.x) = Cols(l.w)
    PROVE  LET t == Truncated(l.w) IN
           /\ Rows(t) = Rows(l.w) /\ Cols(t) = Cols(l.w)
           /\ LayerData(t, l.x, l.bias) /\ Int8Cells(t)
           /\ SymmetricWeights => \A k \in DOMAIN t.cells : t.cells[k] \in -WMax..WMax
           /\ \A c \in Challenges(Rows(l.w)) : PrecomputeV(c, t) = PrecomputeV(c, l.w)
<1> DEFINE w == l.w
           t == Truncated(w)
           cut == [i \in DOMAIN w.cells |-> AsI8(w.cells[i])]
<1>1. w \in [shape : Seq(Nat), cells : Seq(Int)] /\ LayerData(w, l.x, l.bias) /\ Rows(w) \in Nat /\ Cols(w) \in Nat
  BY LayerType
<1>2. t.shape = w.shape /\ t.cells = cut
  BY <1>1 DEF Truncated
<1>3. Rows(t) = Rows(w) /\ Cols(t) = Cols(w)
  BY <1>2 DEF Rows, Cols
<1>4. \A k \in DOMAIN w.cells : /\ cut[k] \in Int /\ AsI8(cut[k]) = cut[k] /\ cut[k] \in -(WMax + 1)..WMax
                                /\ SymmetricWeights => cut[k] \in -WMax..WMax
  <2> TAKE k \in DOMAIN w.cells
  <2>1. w.cells[k] \in Int /\ cut[k] = AsI8(w.cells[k])
    BY <1>1
  <2>2. AsI8(w.cells[k]) \in -(WMax + 1)..WMax
    BY <2>1, AsI8Type
  <2>3. SymmetricWeights => AsI8(w.cells[k]) # -(WMax + 1)
    BY DEF SymmetricWeights
  <2> HIDE DEF cut
  <2>4. AsI8(cut[k]) = cut[k]
    BY <2>1, <2>2, AsI8Again
  <2> QED BY <2>1, <2>2, <2>3, <2>4, Constants
<1>5. cut \in Seq(Int) /\ Len(cut) = Len(w.cells) /\ DOMAIN cut = DOMAIN w.cells
  <2>1. DOMAIN w.cells = 1..Len(w.cells) /\ Len(w.cells) \in Nat
    BY <1>1
  <2>2. cut = [k \in 1..Len(w.cells) |-> cut[k]]
    BY <2>1
  <2>3. \A k \in 1..Len(w.cells) : cut[k] \in Int
    <3> HIDE DEF cut
    <3> QED BY <1>4, <2>1
  <2> HIDE DEF cut
  <2>4. cut \in Seq(Int) /\ Len(cut) = Len(w.cells)
    <3> HIDE DEF w
    <3> QED BY <2>1, <2>2, <2>3
  <2> QED BY <2>1, <2>2, <2>4
<1>6. LayerData(t, l.x, l.bias)
  BY <1>1, <1>2, <1>3, <1>5 DEF LayerData
<1>7. Int8Cells(t)
  <2> HIDE DEF cut
  <2> QED BY <1>2, <1>4, <1>5 DEF Int8Cells
<1>8. SymmetricWeights => \A k \in DOMAIN t.cells : t.cells[k] \in -WMax..WMax
  <2> HIDE DEF cut
  <2> QED BY <1>2, <1>4, <1>5
<1>9. ASSUME NEW c \in Challenges(Rows(w))
      PROVE  PrecomputeV(c, t) = PrecomputeV(c, w)
  <2>1. \A i \in 1..Rows(w), j \in 1..Cols(w) : AsI8(Cell(t, i, j)) = AsI8(Cell(w, i, j))
    <3> TAKE i \in 1..Rows(w), j \in 1..Cols(w)
    <3>1. (i - 1) * Cols(w) + j \in DOMAIN w.cells
      BY <1>1, CellType
    <3>2. Cell(t, i, j) = cut[(i - 1) * Cols(w) + j] /\ Cell(w, i, j) = w.cells[(i - 1) * Cols(w) + j]
      BY <1>2, <1>3 DEF Cell
    <3>3. cut[(i - 1) * Cols(w) + j] = AsI8(w.cells[(i - 1) * Cols(w) + j])
      BY <3>1
    <3> HIDE DEF cut
    <3> QED BY <1>4, <3>1, <3>2, <3>3
  <2> DEFINE F(u, j) == [i \in 1..Rows(u) |-> c[i] * FromInt(AsI8(Cell(u, i, j)))]
  <2>2. ASSUME NEW j \in 1..Cols(w)
        PROVE  F(t, j) = F(w, j)
    <3> HIDE DEF w, t
    <3> QED BY <1>3, <2>1
  <2>3. \A j \in 1..Cols(w) : SumTo(F(t, j), Rows(t)) % AuditP = SumTo(F(w, j), Rows(w)) % AuditP
    <3> HIDE DEF F, w, t
    <3> QED BY <1>3, <2>2
  <2> HIDE DEF w, t
  <2> QED BY <1>3, <2>3 DEF PrecomputeV
<1> HIDE DEF cut
<1> QED BY <1>3, <1>6, <1>7, <1>8, <1>9

\* Past the range guard, an accumulator congruent modulo p to the true one is the
\* true one, provided no weight is -128: the proviso the guard's own comment lacks.
THEOREM GuardSound == SymmetricWeights => (Spec => []CongruenceImpliesEquality)
<1> SUFFICES ASSUME SymmetricWeights PROVE Spec => []CongruenceImpliesEquality
  OBVIOUS
<1>1. IInv => CongruenceImpliesEquality
  <2> SUFFICES ASSUME IInv, Guarded, \A i \in DOMAIN out : (out[i] - TrueOut[i]) % AuditP = 0
               PROVE  out = TrueOut
    BY DEF CongruenceImpliesEquality
  <2> DEFINE t == Truncated(layer.w)
  <2>1. /\ layer \in Layers /\ out \in Seq(Int) /\ Len(layer.w.shape) = 2 /\ Len(out) = Rows(layer.w)
        /\ Len(layer.x) = Cols(layer.w)
    BY DEF IInv, TypeOK, Guarded, WellShaped, IsMatrix
  <2>2. /\ Rows(t) = Rows(layer.w) /\ Cols(t) = Cols(layer.w) /\ LayerData(t, layer.x, layer.bias)
        /\ \A k \in DOMAIN t.cells : t.cells[k] \in -WMax..WMax
    BY <2>1, TruncatedAudit
  <2>3. RangeGuard(Cols(t), layer.x, layer.bias, out)
    BY <2>2 DEF Guarded
  <2>4. TrueOut = Linear(t, layer.x, layer.bias) /\ TrueOut \in Seq(Int) /\ Len(TrueOut) = Rows(t)
    BY <2>2, LinearType DEF TrueOut
  <2> HIDE DEF t
  <2>5. \A i \in 1..Rows(t) : out[i] = TrueOut[i]
    <3> TAKE i \in 1..Rows(t)
    <3>1. Len(out) = Rows(t) /\ i \in DOMAIN out
      BY <2>1, <2>2
    <3>2. (out[i] - Linear(t, layer.x, layer.bias)[i]) % AuditP = 0
      BY <2>4, <3>1
    <3>3. out[i] = Linear(t, layer.x, layer.bias)[i]
      BY <2>1, <2>2, <2>3, <3>1, <3>2, MarginSeparates
    <3> QED BY <2>4, <3>3
  <2>6. out \in Seq(Int) /\ TrueOut \in Seq(Int) /\ Len(out) = Len(TrueOut)
        /\ \A i \in 1..Len(out) : out[i] = TrueOut[i]
    BY <2>1, <2>2, <2>4, <2>5
  <2> QED BY <2>6, SeqEqual
<1> QED BY <1>1, InitInv, NextInv, PTL DEF Spec

(***************************** the soundness error *************************)
\* The audit field has no zero divisors, its modulus being prime: the least
\* multiplier of b into a multiple of p divides p.
LEMMA NoZeroDivisors ==
    ASSUME NEW a \in Int, NEW b \in Int, (a * b) % AuditP = 0
    PROVE  a % AuditP = 0 \/ b % AuditP = 0
<1> SUFFICES ASSUME a % AuditP # 0 PROVE b % AuditP = 0
  OBVIOUS
<1>1. PICK p : p = AuditP
  OBVIOUS
<1>2. p \in Nat \ {0} /\ p > 1 /\ \A d \in 2..(p - 1) : p % d # 0
  BY <1>1, Constants, PrimeAssumption
<1> DEFINE T == { x \in 1..p : (x * b) % p = 0 }
<1>3. a % p \in T /\ a % p < p
  <2>1. a % p \in 1..(p - 1)
    BY <1>1, <1>2, DivMod
  <2>2. ((a % p) * b) % p = 0
    <3>1. Cong(a % p, a, p) /\ Cong(b, b, p) /\ a % p \in Int
      BY <1>2, CongRefl
    <3>2. Cong((a % p) * b, a * b, p)
      BY <1>2, <3>1, CongRing
    <3>3. PICK u \in Int, w \in Int : u = (a % p) * b /\ w = a * b
      BY <3>1
    <3>4. u % p = w % p
      BY <1>2, <3>2, <3>3, CongMod
    <3> QED BY <1>1, <3>3, <3>4
  <2>3. a % p \in 1..p /\ a % p < p
    BY <1>2, <2>1
  <2> QED BY <2>2, <2>3
<1>4. PICK m \in T : \A y \in T : m <= y
  <2>1. T \subseteq Nat
    BY <1>2
  <2>2. T # {}
    <3> HIDE DEF T
    <3> QED BY <1>3
  <2> HIDE DEF T
  <2> QED BY <2>1, <2>2, LeastNat
<1>5. m \in 1..p /\ (m * b) % p = 0 /\ m < p
  <2>1. m <= a % p
    BY <1>3, <1>4
  <2>2. m \in 1..p /\ (m * b) % p = 0
    BY <1>4
  <2>3. a % p \in Int
    BY <1>2, DivMod
  <2> QED BY <1>2, <1>3, <2>1, <2>2, <2>3
<1> DEFINE q == p \div m
           rest == p % m
<1>6. q \in Int /\ rest \in 0..(m - 1) /\ p = m * q + rest
  BY <1>2, <1>5, DivMod
<1>7. (rest * b) % p = 0
  <2> HIDE DEF q, rest
  <2>1. PICK k \in Int : m * b = p * k
    <3>1. PICK mb \in Int : mb = m * b
      BY <1>2, <1>5
    <3>2. mb = p * (mb \div p) + (mb % p) /\ mb \div p \in Int
      BY <1>2, <3>1, DivMod
    <3>3. mb = p * (mb \div p)
      BY <1>2, <1>5, <3>1, <3>2
    <3> QED BY <3>1, <3>2, <3>3
  <2>2. rest * b = p * (b - q * k)
    <3>1. rest = p - m * q
      BY <1>2, <1>5, <1>6
    <3>2. (p - m * q) * b = p * b - (m * b) * q
      BY <1>2, <1>5, <1>6
    <3>3. (m * b) * q = p * (q * k)
      BY <2>1, <1>2, <1>6
    <3>4. p * (b - q * k) = p * b - p * (q * k)
      BY <2>1, <1>2, <1>6
    <3> QED BY <3>1, <3>2, <3>3, <3>4
  <2>3. b - q * k \in Int /\ rest * b \in Int /\ 0 \in 0..(p - 1)
    BY <1>2, <1>5, <1>6, <2>1
  <2>4. rest * b = p * (b - q * k) + 0
    BY <1>2, <2>2, <2>3
  <2> HIDE DEF T
  <2> QED BY <1>2, <2>3, <2>4, ModUnique
<1>8. rest = 0
  <2> HIDE DEF q, rest
  <2>1. rest # 0 => rest \in T
    BY <1>2, <1>5, <1>6, <1>7
  <2> HIDE DEF T
  <2> QED BY <1>4, <1>5, <1>6, <2>1
<1>9. m = 1
  <2>1. m \notin 2..(p - 1)
    BY <1>2, <1>8
  <2> QED BY <1>2, <1>5, <2>1
<1>10. 1 * b = b
  OBVIOUS
<1> QED BY <1>1, <1>5, <1>9, <1>10

\* There are finitely many challenges.
LEMMA ChallengesFinite ==
    ASSUME NEW n \in Nat
    PROVE  IsFiniteSet(Challenges(n))
<1> DEFINE pairs == (1..n) \X FieldElems
           graph == [c \in Challenges(n) |-> { << j, c[j] >> : j \in 1..n }]
<1>1. IsFiniteSet(SUBSET pairs)
  <2>1. IsFiniteSet(1..n)
    BY FS_Interval
  <2>2. IsFiniteSet(FieldElems)
    BY Constants, FS_Interval DEF FieldElems
  <2> QED BY <2>1, <2>2, FS_Product, FS_SUBSET
<1>2. ASSUME NEW c \in Challenges(n), NEW e \in Challenges(n), graph[c] = graph[e]
      PROVE  c = e
  <2>1. ASSUME NEW j \in 1..n
        PROVE  c[j] = e[j]
    <3>1. << j, c[j] >> \in graph[e]
      BY <1>2
    <3>2. PICK k \in 1..n : << j, c[j] >> = << k, e[k] >>
      BY <3>1
    <3> QED BY <3>2
  <2> QED BY <2>1, <1>2 DEF Challenges
<1>3. graph \in [Challenges(n) -> SUBSET pairs]
  <2>1. ASSUME NEW c \in Challenges(n)
        PROVE  { << j, c[j] >> : j \in 1..n } \in SUBSET pairs
    BY <2>1 DEF Challenges
  <2> QED BY <2>1
<1> HIDE DEF graph, pairs
<1>4. graph \in Injection(Challenges(n), SUBSET pairs)
  BY <1>2, <1>3 DEF Injection, IsInjective
<1> QED BY <1>1, <1>4, FS_Injection

\* The challenges that a difference d of two outputs passes.
Weighted(c, d, n) == [k \in 1..n |-> c[k] * d[k]]
Zeros(d, n) == { c \in Challenges(n) : SumTo(Weighted(c, d, n), n) % AuditP = 0 }

\* Two of them that agree but for one place, where d is not zero, are the same.
LEMMA ZerosAgree ==
    ASSUME NEW n \in Nat, NEW d \in [1..n -> Int], NEW i \in 1..n, d[i] % AuditP # 0,
           NEW c \in Zeros(d, n), NEW e \in Zeros(d, n), \A j \in 1..n : j # i => c[j] = e[j]
    PROVE  c = e
<1> DEFINE x == Weighted(c, d, n)
           y == Weighted(e, d, n)
           h == [k \in 1..n |-> x[k] - y[k]]
           gap == (c[i] - e[i]) * d[i]
<1>1. AuditP \in Nat \ {0}
  BY Constants
<1>2. \A k \in 1..n : c[k] \in FieldElems /\ e[k] \in FieldElems /\ c[k] \in Int /\ e[k] \in Int
  BY <1>1 DEF Zeros, Challenges, FieldElems
<1>3. \A k \in 1..n : x[k] \in Int /\ y[k] \in Int /\ h[k] \in Int /\ x[k] = y[k] + h[k]
  <2> TAKE k \in 1..n
  <2>1. c[k] * d[k] \in Int /\ e[k] * d[k] \in Int
    BY <1>2
  <2> QED BY <2>1 DEF Weighted
<1>4. h[i] = gap /\ gap \in Int
  <2>1. c[i] \in Int /\ e[i] \in Int /\ d[i] \in Int
    BY <1>2
  <2>2. (c[i] - e[i]) * d[i] = c[i] * d[i] - e[i] * d[i]
    BY <2>1
  <2> QED BY <2>1, <2>2 DEF Weighted
<1>5. \A j \in 1..n : j # i => h[j] = 0
  <2> TAKE j \in 1..n
  <2>1. e[j] * d[j] \in Int
    BY <1>2
  <2> QED BY <2>1 DEF Weighted
<1>6. SumTo(x, n) \in Int /\ SumTo(y, n) \in Int /\ SumTo(x, n) % AuditP = 0 /\ SumTo(y, n) % AuditP = 0
  <2>1. SumTo(x, n) \in Int /\ SumTo(y, n) \in Int
    <3> HIDE DEF x, y, h
    <3> QED BY <1>3, SumType
  <2> QED BY <2>1 DEF Zeros
<1> HIDE DEF x, y, h, gap
<1>7. SumTo(h, n) = gap
  BY <1>4, <1>5, SumSpike
<1>8. SumTo(x, n) = SumTo(y, n) + gap
  BY <1>3, <1>7, SumAdd
<1>9. gap % AuditP = 0
  <2>1. PICK sx \in Int, sy \in Int : sx = SumTo(x, n) /\ sy = SumTo(y, n)
    BY <1>6
  <2>2. gap = sx - sy /\ sx % AuditP = 0 /\ sy % AuditP = 0
    BY <1>4, <1>6, <1>8, <2>1
  <2>3. ((sx % AuditP) - (sy % AuditP)) % AuditP = (sx - sy) % AuditP
    BY <1>1, ModRing
  <2>4. (0 - 0) % AuditP = 0
    BY <1>1
  <2> QED BY <2>2, <2>3, <2>4
<1>10. c[i] - e[i] \in Int /\ d[i] \in Int
  BY <1>2
<1>11. (c[i] - e[i]) % AuditP = 0
  BY <1>9, <1>10, NoZeroDivisors DEF gap
<1>12. c[i] = e[i]
  <2>1. c[i] - e[i] = AuditP * ((c[i] - e[i]) \div AuditP) + 0 /\ (c[i] - e[i]) \div AuditP \in Int
    BY <1>1, <1>10, <1>11, DivMod
  <2>2. -AuditP < c[i] - e[i] /\ c[i] - e[i] < AuditP
    BY <1>1, <1>2 DEF FieldElems
  <2>3. c[i] - e[i] = AuditP * ((c[i] - e[i]) \div AuditP)
    BY <1>1, <2>1
  <2>4. c[i] - e[i] = 0
    BY <1>1, <1>10, <2>1, <2>2, <2>3, SmallMultiple
  <2> QED BY <1>2, <2>4
<1>13. \A j \in 1..n : c[j] = e[j]
  BY <1>12
<1> QED BY <1>13 DEF Zeros, Challenges

\* A difference that is not zero everywhere is passed by one challenge in p at
\* most: adding anything at a place where it is not zero gives p challenges for
\* each, and no two of them the same.
LEMMA ZerosAreFew ==
    ASSUME NEW n \in Nat, NEW d \in [1..n -> Int], NEW i \in 1..n, d[i] % AuditP # 0
    PROVE  /\ IsFiniteSet(Zeros(d, n))
           /\ Cardinality(Zeros(d, n)) * AuditP <= Cardinality(Challenges(n))
<1> DEFINE Z == Zeros(d, n)
           C == Challenges(n)
           moved(c, k) == [c EXCEPT ![i] = (c[i] + k) % AuditP]
           f == [s \in Z \X FieldElems |-> moved(s[1], s[2])]
<1>1. AuditP \in Nat \ {0}
  BY Constants
<1>2. IsFiniteSet(C) /\ IsFiniteSet(Z)
  <2>1. Z \in SUBSET C
    BY DEF Zeros
  <2> QED BY <2>1, ChallengesFinite, FS_Subset
<1>3. IsFiniteSet(FieldElems) /\ Cardinality(FieldElems) = AuditP
  <2>1. 0 \in Int /\ AuditP - 1 \in Int /\ ~(0 > AuditP - 1) /\ (AuditP - 1) - 0 + 1 = AuditP
    BY <1>1
  <2> QED BY <2>1, FS_Interval DEF FieldElems
<1>4. Cardinality(Z \X FieldElems) = Cardinality(Z) * AuditP
  BY <1>2, <1>3, FS_Product
<1>5. ASSUME NEW c \in Z, NEW k \in FieldElems
      PROVE  /\ moved(c, k) \in C /\ moved(c, k)[i] = (c[i] + k) % AuditP
             /\ \A j \in 1..n : j # i => moved(c, k)[j] = c[j]
  <2>1. c \in [1..n -> FieldElems] /\ c[i] \in Int /\ k \in Int
    BY <1>1, <1>5 DEF Zeros, Challenges, FieldElems
  <2>2. (c[i] + k) % AuditP \in FieldElems
    <3>1. PICK x \in Int : x = c[i] + k
      BY <2>1
    <3>2. x % AuditP \in 0..(AuditP - 1)
      BY <1>1, DivMod
    <3> QED BY <3>1, <3>2 DEF FieldElems
  <2> QED BY <2>1, <2>2 DEF Challenges
<1>6. ASSUME NEW c \in Z, NEW e \in Z, NEW k \in FieldElems, NEW l \in FieldElems,
             moved(c, k) = moved(e, l)
      PROVE  c = e /\ k = l
  <2>1. \A j \in 1..n : j # i => c[j] = e[j]
    <3> HIDE DEF moved, Z, C
    <3> QED BY <1>5, <1>6
  <2>2. c = e
    <3> HIDE DEF moved
    <3> QED BY <2>1, ZerosAgree
  <2>3. (c[i] + k) % AuditP = (c[i] + l) % AuditP
    <3> HIDE DEF moved, Z, C
    <3> QED BY <1>5, <1>6, <2>2
  <2>4. c[i] \in Int /\ k \in 0..(AuditP - 1) /\ l \in 0..(AuditP - 1)
    BY <1>1, <1>6 DEF Zeros, Challenges, FieldElems
  <2>5. Cong(c[i] + k, c[i] + l, AuditP)
    <3> HIDE DEF moved, Z, C
    <3>1. PICK x \in Int, y \in Int : x = c[i] + k /\ y = c[i] + l
      <4>1. c[i] + k \in Int /\ c[i] + l \in Int
        BY <1>1, <2>4
      <4> QED BY <4>1
    <3>2. x % AuditP = y % AuditP
      BY <2>3, <3>1
    <3> QED BY <1>1, <3>1, <3>2, CongMod
  <2>6. PICK x \in Int : c[i] + k = (c[i] + l) + AuditP * x
    BY <2>5 DEF Cong
  <2>7. k - l = AuditP * x
    <3> HIDE DEF moved, Z, C
    <3>1. PICK y \in Int : y = AuditP * x
      <4>1. AuditP * x \in Int
        BY <1>1
      <4> QED BY <4>1
    <3>2. PICK z \in Int : z = c[i]
      BY <2>4
    <3>3. k \in Int /\ l \in Int /\ z + k = (z + l) + y
      BY <2>4, <2>6, <3>1, <3>2
    <3>4. k - l = y
      BY <3>3
    <3> QED BY <3>1, <3>4
  <2>8. k - l \in Int /\ -AuditP < k - l /\ k - l < AuditP
    BY <1>1, <2>4
  <2>9. k - l = 0
    BY <1>1, <2>7, <2>8, SmallMultiple
  <2> QED BY <2>2, <2>4, <2>9
<1>7. f \in [Z \X FieldElems -> C]
  <2> HIDE DEF moved, Z, C
  <2> QED BY <1>5
<1>8. ASSUME NEW s \in Z \X FieldElems, NEW t \in Z \X FieldElems, f[s] = f[t]
      PROVE  s = t
  <2> HIDE DEF moved, Z, C
  <2>1. s[1] \in Z /\ s[2] \in FieldElems /\ t[1] \in Z /\ t[2] \in FieldElems
        /\ s = << s[1], s[2] >> /\ t = << t[1], t[2] >>
    BY <1>8
  <2>2. moved(s[1], s[2]) = moved(t[1], t[2])
    BY <1>8
  <2>3. s[1] = t[1] /\ s[2] = t[2]
    BY <1>6, <2>1, <2>2
  <2> QED BY <2>1, <2>3
<1> HIDE DEF f, moved, Z, C
<1>9. f \in Injection(Z \X FieldElems, C)
  BY <1>7, <1>8 DEF Injection, IsInjective
<1>10. Cardinality(Z \X FieldElems) <= Cardinality(C)
  BY <1>2, <1>9, FS_Injection
<1>11. IsFiniteSet(Z) /\ Cardinality(Z) * AuditP <= Cardinality(C)
  BY <1>2, <1>4, <1>10
<1> QED BY <1>11 DEF Z, C

\* In the field, two outputs weigh alike when the challenge weighs their difference
\* to nothing.
LEMMA DotsDiffer ==
    ASSUME NEW n \in Nat, NEW c \in Challenges(n), NEW y \in Seq(Int), NEW z \in Seq(Int),
           Len(y) = n, Len(z) = n, Dot(c, y) = Dot(c, z)
    PROVE  c \in Zeros([k \in 1..n |-> y[k] - z[k]], n)
<1> DEFINE d == [k \in 1..n |-> y[k] - z[k]]
           py == Products(c, y)
           pz == Products(c, z)
           pd == Weighted(c, d, n)
<1>1. AuditP \in Nat \ {0} /\ c \in Seq(Int) /\ Len(c) = n
  BY Constants DEF Challenges, FieldElems
<1>2. /\ SumTo(py, n) \in Int /\ Cong(Dot(c, y), SumTo(py, n), AuditP)
      /\ SumTo(pz, n) \in Int /\ Cong(Dot(c, z), SumTo(pz, n), AuditP)
      /\ Dot(c, y) \in Int
  <2>1. \A q \in FieldElems : q \in Int
    BY <1>1 DEF FieldElems
  <2> HIDE DEF py, pz
  <2> QED BY <1>1, <2>1, DotReduces DEF py, pz
<1>3. \A k \in 1..n : /\ pd[k] \in Int /\ pz[k] \in Int /\ py[k] \in Int /\ py[k] = pz[k] + pd[k]
  <2> TAKE k \in 1..n
  <2>1. c[k] \in Int /\ y[k] \in Int /\ z[k] \in Int
    BY <1>1
  <2>2. /\ c[k] * y[k] \in Int /\ c[k] * z[k] \in Int /\ c[k] * (y[k] - z[k]) \in Int
        /\ c[k] * y[k] = c[k] * z[k] + c[k] * (y[k] - z[k])
    BY <2>1
  <2> QED BY <2>2 DEF Products, Weighted
<1> HIDE DEF py, pz, pd
<1>4. SumTo(pd, n) \in Int /\ SumTo(py, n) = SumTo(pz, n) + SumTo(pd, n)
  <2>1. SumTo(pd, n) \in Int
    BY <1>3, SumType
  <2>2. SumTo(py, n) = SumTo(pz, n) + SumTo(pd, n)
    BY <1>3, SumAdd
  <2> QED BY <2>1, <2>2
<1>5. PICK e \in Int, sy \in Int, sz \in Int, sd \in Int :
          e = Dot(c, y) /\ sy = SumTo(py, n) /\ sz = SumTo(pz, n) /\ sd = SumTo(pd, n)
  BY <1>2, <1>4
<1>6. sy % AuditP = sz % AuditP
  <2>1. Cong(e, sy, AuditP) /\ Cong(e, sz, AuditP)
    BY <1>2, <1>5
  <2> QED BY <1>1, <2>1, CongMod
<1>7. sd % AuditP = 0
  <2>1. sy = sz + sd
    BY <1>4, <1>5
  <2>2. Cong(sy, sz, AuditP)
    BY <1>1, <1>6, CongMod
  <2>3. PICK k \in Int : sy = sz + AuditP * k
    BY <2>2 DEF Cong
  <2>4. AuditP * k \in Int /\ 0 \in 0..(AuditP - 1)
    BY <1>1
  <2>5. sd = AuditP * k + 0
    BY <2>1, <2>3, <2>4
  <2> QED BY <1>1, <2>4, <2>5, ModUnique
<1> QED BY <1>5, <1>7 DEF Zeros, pd

\* The soundness error (freivalds.rs:10): however wrong the output, and whatever
\* the layer, at most one challenge in p accepts it, when p is prime and no weight
\* is -128.
THEOREM ErrorIsRare == SymmetricWeights => (Spec => []FewFoolingChallenges)
<1> SUFFICES ASSUME SymmetricWeights PROVE Spec => []FewFoolingChallenges
  OBVIOUS
<1>1. IInv => FewFoolingChallenges
  <2> SUFFICES ASSUME IInv, WellShaped, out # TrueOut
               PROVE  LET C == Challenges(Rows(layer.w))
                          fooling == { c \in C : Audit(c, PrecomputeV(c, layer.w)) = "ok" }
                      IN  Cardinality(fooling) * AuditP <= Cardinality(C)
    BY DEF FewFoolingChallenges
  <2>1. PICK n, t, z : n = Rows(layer.w) /\ t = Truncated(layer.w) /\ z = TrueOut
    OBVIOUS
  <2> DEFINE C == Challenges(n)
             fooling == { c \in C : Audit(c, PrecomputeV(c, layer.w)) = "ok" }
             d == [k \in 1..n |-> out[k] - z[k]]
  <2>2. /\ layer \in Layers /\ out \in Seq(Int) /\ Len(layer.w.shape) = 2 /\ Len(out) = n
        /\ Len(layer.x) = Cols(layer.w)
    BY <2>1 DEF IInv, TypeOK, WellShaped, IsMatrix
  <2>3. n \in Nat /\ Cols(layer.w) \in Nat
    BY <2>1, <2>2, LayerType
  <2>4. /\ Rows(t) = n /\ Cols(t) = Cols(layer.w) /\ LayerData(t, layer.x, layer.bias) /\ Int8Cells(t)
        /\ \A k \in DOMAIN t.cells : t.cells[k] \in -WMax..WMax
        /\ \A c \in C : PrecomputeV(c, t) = PrecomputeV(c, layer.w)
    BY <2>1, <2>2, TruncatedAudit
  <2>5. z = Linear(t, layer.x, layer.bias) /\ z \in Seq(Int) /\ Len(z) = n
    BY <2>1, <2>4, LinearType DEF TrueOut
  <2>6. ASSUME NEW c \in fooling
        PROVE  RangeGuard(Cols(layer.w), layer.x, layer.bias, out) /\ c \in Zeros(d, n)
    <3>1. c \in C /\ Audit(c, PrecomputeV(c, layer.w)) = "ok"
      BY <2>6
    <3>2. /\ RangeGuard(Cols(layer.w), layer.x, layer.bias, out)
          /\ CheckLinearBiased(PrecomputeV(c, layer.w), layer.x, layer.bias, c, out)
      BY <3>1 DEF Audit
    <3>3. (Dot(PrecomputeV(c, t), layer.x) + Dot(c, layer.bias)) % AuditP = Dot(c, out)
      BY <2>4, <3>1, <3>2 DEF CheckLinearBiased
    <3>4. (Dot(PrecomputeV(c, t), layer.x) + Dot(c, layer.bias)) % AuditP = Dot(c, z)
      BY <2>4, <2>5, <3>1, KernelSatisfiesEquation
    <3>5. Dot(c, out) = Dot(c, z)
      BY <3>3, <3>4
    <3> HIDE DEF fooling
    <3> QED BY <2>2, <2>3, <2>5, <3>1, <3>2, <3>5, DotsDiffer
  <2>7. IsFiniteSet(C) /\ Cardinality(C) \in Nat
    BY <2>3, ChallengesFinite, FS_CardinalityType
  <2>8. CASE fooling = {}
    <3>1. Cardinality(fooling) = 0 /\ AuditP \in Nat
      BY <2>8, FS_EmptySet, Constants
    <3>2. 0 * AuditP = 0
      BY <3>1
    <3> QED BY <2>1, <2>7, <3>1, <3>2
  <2>9. CASE fooling # {}
    <3>1. RangeGuard(Cols(t), layer.x, layer.bias, out)
      <4> HIDE DEF fooling
      <4> QED BY <2>4, <2>6, <2>9
    <3>2. PICK i \in 1..n : out[i] # z[i]
      <4>1. out # z /\ out \in Seq(Int) /\ z \in Seq(Int) /\ Len(out) = Len(z)
        BY <2>1, <2>2, <2>5
      <4> HIDE DEF d, fooling, C
      <4>2. \E i \in 1..Len(out) : out[i] # z[i]
        BY <4>1, SeqEqual
      <4> QED BY <2>2, <4>2
    <3>3. d \in [1..n -> Int] /\ d[i] = out[i] - z[i]
      <4>1. \A k \in 1..n : out[k] \in Int /\ z[k] \in Int
        BY <2>2, <2>5
      <4>2. \A k \in 1..n : out[k] - z[k] \in Int
        BY <4>1
      <4> QED BY <4>2
    <3>4. d[i] % AuditP # 0
      <4> SUFFICES ASSUME d[i] % AuditP = 0 PROVE FALSE
        OBVIOUS
      <4>1. (out[i] - Linear(t, layer.x, layer.bias)[i]) % AuditP = 0
        BY <2>5, <3>3
      <4>2. out[i] = Linear(t, layer.x, layer.bias)[i]
        BY <2>2, <2>4, <3>1, <4>1, MarginSeparates
      <4> QED BY <2>5, <3>2, <4>2
    <3>5. IsFiniteSet(Zeros(d, n)) /\ Cardinality(Zeros(d, n)) * AuditP <= Cardinality(C)
      <4> HIDE DEF d
      <4> QED BY <2>3, <3>3, <3>4, ZerosAreFew
    <3>6. fooling \in SUBSET Zeros(d, n)
      <4> HIDE DEF fooling, d
      <4> QED BY <2>6
    <3> HIDE DEF fooling, d, C
    <3>7. Cardinality(fooling) <= Cardinality(Zeros(d, n)) /\ IsFiniteSet(fooling)
      BY <3>5, <3>6, FS_Subset
    <3>8. Cardinality(fooling) \in Nat /\ Cardinality(Zeros(d, n)) \in Nat /\ AuditP \in Nat
      BY <3>5, <3>7, FS_CardinalityType, Constants
    <3>9. Cardinality(fooling) * AuditP <= Cardinality(Zeros(d, n)) * AuditP
      BY <3>7, <3>8
    <3>10. Cardinality(fooling) * AuditP <= Cardinality(C)
      BY <2>7, <3>5, <3>8, <3>9
    <3> QED BY <2>1, <3>10 DEF fooling, C
  <2> QED BY <2>8, <2>9
<1> QED BY <1>1, InitInv, NextInv, PTL DEF Spec
=============================================================================
