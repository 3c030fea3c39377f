---------------------------- MODULE BoundedArith ----------------------------
(***************************************************************************)
(* A chain of bounded-integer operations, as accumulate and the exporters  *)
(* run it: every step propagates the declared bound and rejects when the   *)
(* bound escapes the signed interval.  A rejected value is handed to the   *)
(* limb selector, which declares a representation at split k, and then     *)
(* decomposed.                                                             *)
(*                                                                         *)
(* residue is a history variable: what the same chain computes over the    *)
(* field encodings, where arithmetic wraps.                                *)
(***************************************************************************)
EXTENDS FixedPoint

CONSTANTS Terms,      \* the bounded operands a chain may meet
          Splits      \* the limb splits K a manifest may declare

ASSUME TermsAssumption == Terms \subseteq BoundedInt
ASSUME SplitsAssumption == Splits \subseteq Nat

VARIABLES acc,        \* the running BoundedInt
          residue,    \* the same chain over encodings, modulo P
          status,     \* "running", or the operation that overflowed
          pending,    \* the propagated value and bound that overflowed
          repr,       \* the selector's verdict, and the split it was given
          limb        \* the result of decompose

chainVars == <<acc, residue, status, pending, repr, limb>>

Statuses == {"running", "add", "sub", "mul"}
Reprs == {"none", "SingleM31", "InvalidK", "ExceedsTwoLimbs", "TwoLimb"}

ChainInit ==
    /\ acc \in Terms
    /\ residue = Encode(acc.value)
    /\ status = "running"
    /\ pending = acc
    /\ repr = [verdict |-> "none", k |-> 0]
    /\ limb = Fail("none")

\* Take over the result of one operation: the next accumulator, or the error
\* together with the value and bound that escaped.
Conclude(res, wide, field) ==
    /\ status = "running"
    /\ IF res.err = "ok"
       THEN /\ acc' = res.val
            /\ residue' = field
            /\ UNCHANGED <<status, pending>>
       ELSE /\ status' = res.err
            /\ pending' = wide
            /\ UNCHANGED <<acc, residue>>
    /\ UNCHANGED <<repr, limb>>

Add(t) ==
    Conclude(AddB(acc, t),
             [value |-> acc.value + t.value, lo |-> acc.lo + t.lo, hi |-> acc.hi + t.hi],
             (residue + Encode(t.value)) % P)

\* Mutant: the bounds are subtracted like to like.
SubLikeBounds(t) ==
    Conclude(SubB(acc, t),
             [value |-> acc.value - t.value, lo |-> acc.lo - t.lo, hi |-> acc.hi - t.hi],
             (residue - Encode(t.value)) % P)

Sub(t) ==
    Conclude(SubB(acc, t),
             [value |-> acc.value - t.value, lo |-> acc.lo - t.hi, hi |-> acc.hi - t.lo],
             (residue - Encode(t.value)) % P)

Mul(t) ==
    Conclude(MulB(acc, t),
             [value |-> acc.value * t.value,
              lo |-> Min(Corners(acc, t)), hi |-> Max(Corners(acc, t))],
             (residue * Encode(t.value)) % P)

SelectRepr(k) ==
    /\ status # "running" /\ repr.verdict = "none"
    /\ repr' = [verdict |-> SelectAccumRepr(pending.lo, pending.hi, k), k |-> k]
    /\ UNCHANGED <<acc, residue, status, pending, limb>>

\* decompose does not consult the selector: it runs whatever was selected.
DecomposePending ==
    /\ repr.verdict # "none" /\ limb.err = "none"
    /\ limb' = Decompose(pending.value, pending.lo, pending.hi, repr.k)
    /\ UNCHANGED <<acc, residue, status, pending, repr>>

ChainNext ==
    \/ \E t \in Terms : Add(t)
    \/ \E t \in Terms : Sub(t)
    \/ \E t \in Terms : Mul(t)
    \/ \E k \in Splits : SelectRepr(k)
    \/ DecomposePending

ChainSpec == ChainInit /\ [][ChainNext]_chainVars

-----------------------------------------------------------------------------
\* Every accumulator the chain holds satisfies the constructor's invariant and
\* the remaining variables have their types.
ChainTypeOK ==
    /\ acc \in BoundedInt
    /\ residue \in 0..(P - 1)
    /\ status \in Statuses
    /\ pending \in [value : Int, lo : Int, hi : Int]
    /\ repr \in [verdict : Reprs, k : Nat]

\* However long the chain, the tracked integer is what the field computes: the
\* residue of the wrapping arithmetic decodes to it (overflow = reject is what
\* makes the centered encoding a faithful image).
NoWrap == Decode(residue) = acc.value

\* The propagated bound of a rejected step still encloses its value, so the
\* selector, which sees only the bound, decides for the value as well.
PendingEnclosed == pending.lo <= pending.value /\ pending.value <= pending.hi

\* A value the selector declares two-limb always decomposes, to limbs that are
\* themselves bounded integers and that reconstruct it exactly.
TwoLimbRoundTrip ==
    repr.verdict = "TwoLimb" /\ limb.err # "none" =>
        /\ limb.err = "ok"
        /\ limb.val.low \in BoundedInt
        /\ limb.val.high \in BoundedInt
        /\ Reconstruct(limb.val) = pending.value

\* The selector never declares a single M31 cell for a value that overflowed one.
OverflowNeedsLimbs == repr.verdict # "SingleM31"

=============================================================================
