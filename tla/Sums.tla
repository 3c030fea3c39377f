-------------------------------- MODULE Sums --------------------------------
(***************************************************************************)
(* Finite sums over 1..n and the folds built from them.  Written as a      *)
(* recursive function, so that the modules that use it can be proved about *)
(* as well as evaluated (SumsProofs).                                      *)
(***************************************************************************)
EXTENDS Integers, Sequences

\* f[1] + ... + f[n]
SumTo(f, n) == LET s[k \in Nat] == IF k = 0 THEN 0 ELSE s[k - 1] + f[k] IN s[n]

SumSeq(s) == SumTo(s, Len(s))

\* Zip stops at the shorter sequence, as Iterator::zip does.
ZipLen(s, t) == IF Len(s) <= Len(t) THEN Len(s) ELSE Len(t)
=============================================================================
