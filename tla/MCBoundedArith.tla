--------------------------- MODULE MCBoundedArith ---------------------------
(***************************************************************************)
(* Model-checking instance: the field of 15 elements (PHalf = 7) in place  *)
(* of 2^31 - 1, with limb splits up to 3 (2^3 - 1 = PHalf, as              *)
(* 2^30 - 1 = P_HALF in the code).                                         *)
(***************************************************************************)
EXTENDS BoundedArith

\* Constants, intervals around zero, one-sided intervals and the extreme cells.
MCTerms ==
    { b \in [value : {-3, 0, 2, 7}, lo : {-7, -3, 0, 2}, hi : {-1, 2, 3, 7}] :
        b.lo <= b.value /\ b.value <= b.hi }

MCSplits == 0..4
=============================================================================
