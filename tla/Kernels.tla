------------------------------ MODULE Kernels -------------------------------
(***************************************************************************)
(* The exact integer kernels of the predictor (pwm-core predictor.rs and   *)
(* tables.rs): operators over sequences of integers, row-major where they  *)
(* stand for a matrix.                                                     *)
(***************************************************************************)
EXTENDS Rounding, Freivalds, FiniteSetsExt

(***************************** committed tables ****************************)
\* A table is [lo, outs]; eval is None outside lo..lo+Len(outs)-1.
InDomain(t, x) == t.lo <= x /\ x - t.lo < Len(t.outs)

Lookup(t, x) == t.outs[x - t.lo + 1]

(*************************** elementwise kernels ***************************)
\* q carries shift, lo, hi and rounding, as every rescaling op does.
Rescale(q, n) == Requantize(n, q.shift, 0, q.lo, q.hi, q.rounding)

ModulateVec(q, x, scale, shift) ==
    [i \in 1..Min({Len(x), Len(scale), Len(shift)}) |->
        Rescale(q, x[i] * (q.one + scale[i])) + shift[i]]

GateVec(q, g, x) == [i \in 1..ZipLen(g, x) |-> Rescale(q, g[i] * x[i])]

ResidualAdd(a, b) == [i \in 1..ZipLen(a, b) |-> a[i] + b[i]]

(****************************** reductions *********************************)
Mean(x) == RoundDiv(SumSeq(x), Len(x))

Centered(x) == LET m == Mean(x) IN [i \in DOMAIN x |-> x[i] - m]

Variance(x) ==
    LET c == Centered(x) IN RoundDiv(SumSeq([i \in DOMAIN c |-> c[i] * c[i]]), Len(x))

LayerNormDefined(x, t) == Len(x) = 0 \/ InDomain(t, Variance(x))

LayerNorm(q, x, t) ==
    LET c == Centered(x)
        s == Lookup(t, Variance(x))
    IN  [i \in DOMAIN x |-> Rescale(q, c[i] * s)]

MaxOf(x) == Max({ x[i] : i \in DOMAIN x })

Exps(x, t) == LET m == MaxOf(x) IN [i \in DOMAIN x |-> Lookup(t, x[i] - m)]

SoftmaxDefined(x, t) ==
    \/ Len(x) = 0
    \/ /\ \A i \in DOMAIN x : InDomain(t, x[i] - MaxOf(x))
       /\ SumSeq(Exps(x, t)) # 0

Softmax(x, t, one) ==
    LET e == Exps(x, t) IN [i \in DOMAIN x |-> TruncDiv(e[i] * one, SumSeq(e))]

(******************************* matrices **********************************)
\* The k-th row, from 1, of a row-major buffer with n columns.
RowOf(x, k, n) == SubSeq(x, (k - 1) * n + 1, k * n)

SoftmaxRowsDefined(x, n, t) ==
    /\ n > 0 /\ Len(x) % n = 0
    /\ \A k \in 1..(Len(x) \div n) : SoftmaxDefined(RowOf(x, k, n), t)

SoftmaxRows(x, n, t, one) ==
    [i \in DOMAIN x |-> Softmax(RowOf(x, (i - 1) \div n + 1, n), t, one)[((i - 1) % n) + 1]]

MatMulDefined(a, b, m) == Len(a) = m.rows * m.inner /\ Len(b) = m.cols * m.inner

MatMul(a, b, m) ==
    [e \in 1..(m.rows * m.cols) |->
        LET i == (e - 1) \div m.cols
            j == (e - 1) % m.cols
            right(k) == IF m.transpose_b THEN b[j * m.inner + k] ELSE b[(k - 1) * m.cols + j + 1]
        IN  SumTo([k \in 1..m.inner |-> a[i * m.inner + k] * right(k)], m.inner)]

\* One dense layer applied to each of the seq rows of x.
LinearRows(w, x, bias, seq) ==
    [e \in 1..(seq * Rows(w)) |->
        Linear(w, RowOf(x, (e - 1) \div Rows(w) + 1, Cols(w)), bias)[((e - 1) % Rows(w)) + 1]]
=============================================================================
