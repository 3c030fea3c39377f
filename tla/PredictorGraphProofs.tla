------------------------ MODULE PredictorGraphProofs ------------------------
(***************************************************************************)
(* The layout of the le-wm circuit.  Every buffer the builder names has    *)
(* one frac, FracAt, whatever the dims; every op of the program is aligned *)
(* under it, derives it for its own output, and reads buffers that earlier *)
(* ops wrote.                                                              *)
(***************************************************************************)
EXTENDS PredictorGraph, KernelProofs

(******************************* the models ********************************)
Depth(m) == Len(m.blocks)

LEMMA ModelFacts ==
    ASSUME NEW m \in Models
    PROVE  /\ m.dims.d \in Nat /\ m.dims.s \in Nat /\ m.dims.h \in Nat /\ m.dims.dh \in Nat
           /\ m.dims.mlp \in Nat /\ m.dims.depth \in Nat
           /\ m.x \in Seq(Int8) /\ m.c \in Seq(Int8)
           /\ Depth(m) \in Nat /\ DOMAIN m.blocks = 1..Depth(m)
           /\ HalfLog2(m.dims.dh) \in Int
           /\ Len(m.scheme.w_log2) \in Nat
           /\ DOMAIN m.scheme.w_log2 = 1..Len(m.scheme.w_log2)
           /\ \A b \in DOMAIN m.scheme.w_log2 : \A k \in 1..5 : m.scheme.w_log2[b][k] \in Int
           /\ DOMAIN Linears = 1..5
           /\ m.dims.d # 0 /\ m.dims.s # 0 /\ m.dims.h # 0 /\ m.dims.dh # 0 /\ m.dims.mlp # 0
<1>1. DOMAIN Linears = 1..5
  BY DEF Linears
<1>2. \A b \in DOMAIN m.scheme.w_log2 : m.scheme.w_log2[b] \in [DOMAIN Linears -> Int]
  BY ModelsAssumption
<1>3. HalfLog2(m.dims.dh) \in 0..m.dims.dh
  <2>1. \E n \in 0..m.dims.dh : 4^n = m.dims.dh
    BY ModelsAssumption
  <2> QED BY <2>1 DEF HalfLog2
<1>4. m.dims.depth \in Nat /\ \A size \in {"d", "s", "h", "dh", "mlp"} : m.dims[size] \in Nat \ {0}
  BY ModelsAssumption
<1>5. /\ m.dims.d \in Nat \ {0} /\ m.dims.s \in Nat \ {0} /\ m.dims.h \in Nat \ {0}
      /\ m.dims.dh \in Nat \ {0} /\ m.dims.mlp \in Nat \ {0}
  BY <1>4
<1>6. m.blocks \in Seq([DOMAIN Linears -> Seq(Int)]) /\ m.scheme.w_log2 \in Seq([DOMAIN Linears -> Int])
      /\ m.x \in Seq(Int8) /\ m.c \in Seq(Int8)
  BY ModelsAssumption
<1>7. /\ Depth(m) \in Nat /\ DOMAIN m.blocks = 1..Depth(m)
      /\ Len(m.scheme.w_log2) \in Nat /\ DOMAIN m.scheme.w_log2 = 1..Len(m.scheme.w_log2)
  BY <1>6 DEF Depth
<1>8. \A b \in DOMAIN m.scheme.w_log2 : \A k \in 1..5 : m.scheme.w_log2[b][k] \in Int
  BY <1>1, <1>2
<1> QED BY <1>1, <1>3, <1>4, <1>5, <1>6, <1>7, <1>8

LEMMA SchemeInts ==
    ASSUME NEW m \in Models
    PROVE  /\ m.scheme.f_x \in Int /\ m.scheme.f_c \in Int /\ m.scheme.f_ln \in Int
           /\ m.scheme.f_qkv \in Int /\ m.scheme.f_score \in Int /\ m.scheme.f_p \in Int
           /\ m.scheme.f_att \in Int /\ m.scheme.f_a \in Int /\ m.scheme.f_g1 \in Int
           /\ m.scheme.f_g2 \in Int /\ m.scheme.f_f \in Int /\ m.scheme.t_inv \in Int
           /\ m.scheme.f_e \in Int
<1>1. \A frac \in Fracs : m.scheme[frac] \in Int
  BY ModelsAssumption
<1> QED BY <1>1 DEF Fracs

(******************************* flat lists ********************************)
\* z is the entries of s, then those of t.
Joins(z, s, t) ==
    /\ IsList(z) /\ Len(z) = Len(s) + Len(t)
    /\ \A i \in 1..Len(s) : z[i] = s[i]
    /\ \A i \in 1..Len(t) : z[Len(s) + i] = t[i]

LEMMA ConcatJoins ==
    ASSUME NEW s, NEW t, IsList(s), IsList(t)
    PROVE  Joins(s \o t, s, t)
<1> DEFINE S == Range(s) \union Range(t)
<1>1. s \in Seq(S) /\ t \in Seq(S)
  <2>1. (\A i \in DOMAIN s : s[i] \in S) /\ (\A i \in DOMAIN t : t[i] \in S)
    BY DEF Range
  <2> HIDE DEF S
  <2> QED BY <2>1, ListIn
<1> HIDE DEF S
<1>2. PICK m, n : m = Len(s) /\ n = Len(t)
  OBVIOUS
<1>3. m \in Nat /\ n \in Nat
  BY <1>2, ListFacts
<1>4. /\ s \o t \in Seq(S) /\ Len(s \o t) = m + n
      /\ \A i \in 1..(m + n) : (s \o t)[i] = IF i <= m THEN s[i] ELSE t[i - m]
  BY <1>1, <1>2, ConcatProperties
<1>5. \A i \in 1..m : (s \o t)[i] = s[i]
  BY <1>3, <1>4
<1>6. ASSUME NEW i \in 1..n PROVE (s \o t)[m + i] = t[i]
  <2>1. m + i \in 1..(m + n) /\ ~(m + i <= m) /\ (m + i) - m = i
    BY <1>3
  <2> QED BY <1>4, <2>1
<1>7. IsList(s \o t)
  BY <1>4, ListOf
<1> QED BY <1>2, <1>4, <1>5, <1>6, <1>7 DEF Joins

\* Lists of one length, one after another: entry j of list i is at (i - 1) n + j.
EvenlyFlat(z, seqs, n) ==
    /\ IsList(z) /\ Len(z) = Len(seqs) * n
    /\ \A i \in 1..Len(seqs) : \A j \in 1..n : z[At(i, n, j)] = seqs[i][j]

LEMMA UniformFlat ==
    ASSUME NEW seqs, IsList(seqs), NEW n \in Nat,
           \A i \in DOMAIN seqs : IsList(seqs[i]) /\ Len(seqs[i]) = n
    PROVE  EvenlyFlat(FlattenSeq(seqs), seqs, n)
<1> DEFINE q == Len(seqs)
<1>1. q \in Nat /\ DOMAIN seqs = 1..q
  BY ListFacts
<1>2. CASE q = 0
  <2>1. FlattenSeq(seqs) = <<>> /\ q * n = 0 /\ 1..q = {}
    BY <1>1, <1>2, FlattenFlat
  <2>2. IsList(<<>>) /\ Len(<<>>) = 0
    BY <<>> \in Seq(Nat), ListOf
  <2> QED BY <1>2, <2>1, <2>2 DEF EvenlyFlat
<1>3. CASE q # 0
  <2>1. PICK g : Flat(seqs, q, g) /\ FlattenSeq(seqs) = g[q]
    BY <1>3, FlattenFlat
  <2>2. \A i \in 1..q : g[i] = IF i = 1 THEN seqs[i] ELSE g[i - 1] \o seqs[i]
    BY <2>1 DEF Flat
  <2> DEFINE Right(k) == /\ IsList(g[k]) /\ Len(g[k]) = k * n
                         /\ \A i \in 1..k : \A j \in 1..n : g[k][At(i, n, j)] = seqs[i][j]
             S == { k \in Nat : k + 1 <= q => Right(k + 1) }
  <2>3. 0 \in S
    <3> SUFFICES ASSUME 1 <= q PROVE Right(1)
      OBVIOUS
    <3>1. g[1] = seqs[1] /\ IsList(seqs[1]) /\ Len(seqs[1]) = n /\ 1 * n = n
      BY <1>1, <2>2, 1 \in 1..q
    <3>2. \A i \in 1..1 : \A j \in 1..n : i = 1 /\ At(i, n, j) = j
      BY DEF At
    <3> QED BY <3>1, <3>2
  <2>4. ASSUME NEW k \in Nat, k \in S
        PROVE  k + 1 \in S
    <3> SUFFICES ASSUME (k + 1) + 1 <= q
                 PROVE  Right((k + 1) + 1)
      OBVIOUS
    <3> DEFINE c == k + 1
               e == c + 1
    <3>1. c \in Nat /\ e \in 1..q /\ e # 1 /\ e - 1 = c /\ c <= q /\ 1..e = (1..c) \union {e} /\ e = c + 1
      BY <1>1
    <3>2. Right(c)
      BY <1>1, <2>4
    <3> HIDE DEF c, e
    <3>3. g[e] = g[c] \o seqs[e] /\ IsList(seqs[e]) /\ Len(seqs[e]) = n
      BY <1>1, <2>2, <3>1
    <3>4. c * n \in Nat /\ e * n = c * n + n
      BY <3>1
    <3>5. /\ IsList(g[e]) /\ Len(g[e]) = c * n + n
          /\ \A i \in 1..(c * n) : g[e][i] = g[c][i]
          /\ \A i \in 1..n : g[e][c * n + i] = seqs[e][i]
      <4>1. IsList(g[c]) /\ Len(g[c]) = c * n
        BY <3>2
      <4> HIDE DEF Right
      <4>2. Joins(g[e], g[c], seqs[e])
        BY <3>3, <4>1, ConcatJoins
      <4> QED BY <3>3, <4>1, <4>2 DEF Joins
    <3>6. ASSUME NEW i \in 1..c, NEW j \in 1..n
          PROVE  g[e][At(i, n, j)] = seqs[i][j]
      <4>1. At(i, n, j) \in 1..(c * n)
        BY <3>1, CellIndex DEF At
      <4> QED BY <3>2, <3>5, <4>1
    <3>7. ASSUME NEW j \in 1..n
          PROVE  g[e][At(e, n, j)] = seqs[e][j]
      <4>1. At(e, n, j) = c * n + j
        BY <3>1 DEF At
      <4> QED BY <3>5, <4>1
    <3>8. Right(e)
      BY <3>1, <3>4, <3>5, <3>6, <3>7
    <3> QED BY <3>8 DEF e, c
  <2>5. \A k \in Nat : k \in S
    <3> HIDE DEF S
    <3> QED BY <2>3, <2>4, SetInduction
  <2>6. PICK k \in Nat : k + 1 = q
    <3>1. q - 1 \in Nat /\ (q - 1) + 1 = q
      BY <1>1, <1>3
    <3> QED BY <3>1
  <2>7. Right(k + 1)
    BY <1>1, <2>5, <2>6
  <2>8. /\ IsList(g[q]) /\ Len(g[q]) = q * n
        /\ \A i \in 1..q : \A j \in 1..n : g[q][At(i, n, j)] = seqs[i][j]
    BY <2>6, <2>7
  <2> HIDE DEF Right, S
  <2> QED BY <2>1, <2>8 DEF EvenlyFlat
<1> QED BY <1>2, <1>3

(***************************** laid-out programs ***************************)
\* The frac of the value a name stands for, of a dense layer's accumulator, and
\* of any buffer.
WholeFrac(m, name) ==
    CASE name \in {"x", "g1", "sum1", "x1", "g2", "sum2"}            -> m.scheme.f_x
      [] name \in {"c", "silu_c"}                                    -> m.scheme.f_c
      [] name \in {"qkv", "q", "k", "v", "qh", "kh", "vh"}           -> m.scheme.f_qkv
      [] name = "qk"                                                 -> 2 * m.scheme.f_qkv + HalfLog2(m.dims.dh)
      [] name = "scores"                                             -> m.scheme.f_score
      [] name = "prob"                                               -> m.scheme.f_p
      [] name = "pv"                                                 -> m.scheme.f_p + m.scheme.f_qkv
      [] name \in {"oh", "attn_cat"}                                 -> m.scheme.f_att
      [] name = "a"                                                  -> m.scheme.f_a
      [] name = "h1"                                                 -> m.scheme.f_g1
      [] name = "g"                                                  -> m.scheme.f_g2
      [] name = "f"                                                  -> m.scheme.f_f
      [] OTHER                                                       -> m.scheme.f_ln

AccFrac(m, b, name) ==
    CASE name = "adaln" -> m.scheme.f_c - m.scheme.w_log2[b][1]
      [] name = "qkv"   -> m.scheme.f_ln - m.scheme.w_log2[b][2]
      [] name = "a"     -> m.scheme.f_att - m.scheme.w_log2[b][3]
      [] name = "h1"    -> m.scheme.f_ln - m.scheme.w_log2[b][4]
      [] OTHER          -> m.scheme.f_g2 - m.scheme.w_log2[b][5]

FracAt(m, buf) ==
    CASE buf.stage = "acc"                                   -> AccFrac(m, buf.block, buf.name)
      [] buf.stage = "norm"                                  -> m.scheme.f_ln
      [] buf.stage = "row" /\ buf.name \in {"n1", "n2", "z"} -> m.scheme.f_x
      [] OTHER                                               -> WholeFrac(m, buf.name)

FracsKnown(m, f) == \A buf \in DOMAIN f : f[buf] = FracAt(m, buf)

\* Over buffers at their fracs the op is aligned, and derives that of its output.
Fits(m, op) ==
    \A f : FracsKnown(m, f) /\ Range(op.args) \subseteq DOMAIN f =>
        Aligned(m, op, f) /\ FracOut(m, op, f) = FracAt(m, op.out_buf)

Outs(P) == { P[i].out_buf : i \in DOMAIN P }

\* Every op of P fits and reads buffers of D or of ops before it, and once P has
\* run over D the buffers of E are there.
Laid(m, P, D, E) ==
    /\ IsList(P)
    /\ \A i \in DOMAIN P : Fits(m, P[i])
    /\ \A i \in DOMAIN P : \A buf \in Range(P[i].args) :
           buf \in D \/ \E j \in 1..(i - 1) : P[j].out_buf = buf
    /\ E \subseteq D \union Outs(P)

LEMMA LaidNone ==
    ASSUME NEW m, NEW D
    PROVE  Laid(m, <<>>, D, D)
<1>1. IsList(<<>>)
  BY <<>> \in Seq(Nat), ListOf
<1>2. DOMAIN <<>> = {}
  OBVIOUS
<1> QED BY <1>1, <1>2 DEF Laid

\* One program after another.
LEMMA LaidThen ==
    ASSUME NEW m, NEW P, NEW Q, NEW D, NEW E, NEW F, Laid(m, P, D, E), Laid(m, Q, E, F)
    PROVE  Laid(m, P \o Q, D, F)
<1>1. PICK R, p, q : R = P \o Q /\ p = Len(P) /\ q = Len(Q)
  OBVIOUS
<1>2. IsList(P) /\ IsList(Q)
  BY DEF Laid
<1>3. /\ p \in Nat /\ q \in Nat /\ DOMAIN P = 1..p /\ DOMAIN Q = 1..q
  BY <1>1, <1>2, ListFacts
<1>4. Joins(R, P, Q)
  BY <1>1, <1>2, ConcatJoins
<1>5. /\ IsList(R) /\ DOMAIN R = 1..(p + q)
      /\ \A i \in 1..p : R[i] = P[i]
      /\ \A i \in 1..q : R[p + i] = Q[i]
  <2>1. IsList(R) /\ Len(R) = p + q
    BY <1>1, <1>4 DEF Joins
  <2>2. DOMAIN R = 1..(p + q)
    BY <2>1, ListFacts
  <2> QED BY <1>1, <1>4, <2>1, <2>2 DEF Joins
<1>6. \A i \in DOMAIN R : i \in 1..p \/ \E k \in 1..q : i = p + k
  <2> SUFFICES ASSUME NEW i \in 1..(p + q), i \notin 1..p PROVE \E k \in 1..q : i = p + k
    BY <1>5
  <2>1. i - p \in 1..q /\ i = p + (i - p)
    BY <1>3
  <2> QED BY <2>1
<1>7. Outs(R) = Outs(P) \union Outs(Q)
  <2>1. ASSUME NEW i \in 1..q PROVE p + i \in DOMAIN R
    BY <1>3, <1>5
  <2>2. \A i \in 1..p : i \in DOMAIN R
    BY <1>3, <1>5
  <2>3. Outs(P) \union Outs(Q) \subseteq Outs(R)
    <3>1. \A i \in 1..p : R[i].out_buf = P[i].out_buf
      BY <1>5
    <3>2. \A i \in 1..q : R[p + i].out_buf = Q[i].out_buf
      BY <1>5
    <3>3. Outs(P) \subseteq Outs(R)
      BY <1>3, <2>2, <3>1 DEF Outs
    <3>4. Outs(Q) \subseteq Outs(R)
      BY <1>3, <2>1, <3>2 DEF Outs
    <3> QED BY <3>3, <3>4
  <2>4. ASSUME NEW i \in DOMAIN R PROVE R[i].out_buf \in Outs(P) \union Outs(Q)
    <3>1. CASE i \in 1..p
      BY <1>3, <1>5, <3>1 DEF Outs
    <3>2. ASSUME NEW k \in 1..q, i = p + k PROVE R[i].out_buf \in Outs(Q)
      BY <1>3, <1>5, <3>2 DEF Outs
    <3> QED BY <1>6, <3>1, <3>2
  <2> QED BY <2>3, <2>4 DEF Outs
<1>8. ASSUME NEW i \in DOMAIN R PROVE Fits(m, R[i])
  <2>1. CASE i \in 1..p
    BY <1>3, <1>5, <2>1 DEF Laid
  <2>2. ASSUME NEW k \in 1..q, i = p + k PROVE Fits(m, R[i])
    BY <1>3, <1>5, <2>2 DEF Laid
  <2> QED BY <1>6, <2>1, <2>2
<1>9. ASSUME NEW i \in DOMAIN R, NEW buf \in Range(R[i].args)
      PROVE  buf \in D \/ \E j \in 1..(i - 1) : R[j].out_buf = buf
  <2>1. CASE i \in 1..p
    <3>1. R[i] = P[i] /\ i \in DOMAIN P
      BY <1>3, <1>5, <2>1
    <3>2. buf \in D \/ \E j \in 1..(i - 1) : P[j].out_buf = buf
      BY <3>1 DEF Laid
    <3>3. \A j \in 1..(i - 1) : R[j] = P[j]
      BY <1>3, <1>5, <2>1
    <3> QED BY <3>2, <3>3
  <2>2. ASSUME NEW k \in 1..q, i = p + k
        PROVE  buf \in D \/ \E j \in 1..(i - 1) : R[j].out_buf = buf
    <3>1. R[i] = Q[k] /\ k \in DOMAIN Q
      BY <1>3, <1>5, <2>2
    <3>2. buf \in E \/ \E j \in 1..(k - 1) : Q[j].out_buf = buf
      BY <3>1 DEF Laid
    <3>3. \A j \in 1..p : j \in 1..(i - 1) /\ R[j] = P[j]
      BY <1>3, <1>5, <2>2
    <3>4. ASSUME NEW j \in 1..(k - 1) PROVE p + j \in 1..(i - 1) /\ R[p + j] = Q[j]
      BY <1>3, <1>5, <2>2
    <3>5. buf \in E => buf \in D \/ \E j \in 1..p : P[j].out_buf = buf
      BY <1>3 DEF Laid, Outs
    <3> QED BY <3>2, <3>3, <3>4, <3>5
  <2> QED BY <1>6, <2>1, <2>2
<1>10. F \subseteq D \union Outs(R)
  BY <1>7 DEF Laid
<1>11. Laid(m, R, D, F)
  BY <1>5, <1>8, <1>9, <1>10 DEF Laid
<1> QED BY <1>1, <1>11

\* More buffers before, fewer asked for after.
LEMMA LaidMore ==
    ASSUME NEW m, NEW P, NEW D, NEW E, NEW C, NEW F, Laid(m, P, D, E), D \subseteq C, F \subseteq E \union C
    PROVE  Laid(m, P, C, F)
  BY DEF Laid

\* Ops that read nothing of each other.
LEMMA LaidApart ==
    ASSUME NEW m, NEW P, IsList(P), NEW D,
           \A i \in DOMAIN P : Fits(m, P[i]) /\ Range(P[i].args) \subseteq D
    PROVE  Laid(m, P, D, D \union Outs(P))
  BY DEF Laid

LEMMA LaidOne ==
    ASSUME NEW m, NEW op, Fits(m, op), NEW D, Range(op.args) \subseteq D, NEW E,
           E \subseteq D \union {op.out_buf}
    PROVE  Laid(m, << op >>, D, E)
<1>1. << op >> \in Seq({op}) /\ DOMAIN << op >> = {1} /\ << op >>[1] = op
  OBVIOUS
<1>2. IsList(<< op >>)
  BY <1>1, ListOf
<1>3. Outs(<< op >>) = {op.out_buf}
  BY <1>1 DEF Outs
<1>4. PICK P : P = << op >>
  OBVIOUS
<1> QED BY <1>1, <1>2, <1>3, <1>4 DEF Laid

\* Programs one after another, D[i] the buffers after the first i.
LEMMA LaidFlat ==
    ASSUME NEW m, NEW seqs, IsList(seqs), NEW D,
           \A i \in DOMAIN seqs : Laid(m, seqs[i], D[i - 1], D[i])
    PROVE  Laid(m, FlattenSeq(seqs), D[0], D[Len(seqs)])
<1> DEFINE n == Len(seqs)
<1>1. n \in Nat /\ DOMAIN seqs = 1..n
  BY ListFacts
<1>2. CASE n = 0
  BY <1>2, FlattenFlat, LaidNone
<1>3. CASE n # 0
  <2>1. PICK g : Flat(seqs, n, g) /\ FlattenSeq(seqs) = g[n]
    BY <1>3, FlattenFlat
  <2>2. \A i \in 1..n : g[i] = IF i = 1 THEN seqs[i] ELSE g[i - 1] \o seqs[i]
    BY <2>1 DEF Flat
  <2> DEFINE S == { k \in Nat : k + 1 <= n => Laid(m, g[k + 1], D[0], D[k + 1]) }
  <2>3. 0 \in S
    <3> SUFFICES ASSUME 1 <= n PROVE Laid(m, g[1], D[0], D[1])
      OBVIOUS
    <3>1. g[1] = seqs[1] /\ Laid(m, seqs[1], D[1 - 1], D[1]) /\ 1 - 1 = 0
      BY <1>1, <2>2, 1 \in 1..n
    <3> QED BY <3>1
  <2>4. ASSUME NEW k \in Nat, k \in S
        PROVE  k + 1 \in S
    <3> SUFFICES ASSUME (k + 1) + 1 <= n
                 PROVE  Laid(m, g[(k + 1) + 1], D[0], D[(k + 1) + 1])
      OBVIOUS
    <3> DEFINE c == k + 1
               e == c + 1
    <3>1. c \in Nat /\ e \in 1..n /\ e # 1 /\ e - 1 = c /\ c <= n
      BY <1>1
    <3>2. Laid(m, g[c], D[0], D[c])
      BY <1>1, <2>4
    <3> HIDE DEF c
    <3>3. g[e] = g[c] \o seqs[e] /\ Laid(m, seqs[e], D[c], D[e])
      BY <1>1, <2>2, <3>1
    <3> HIDE DEF e
    <3>4. Laid(m, g[e], D[0], D[e])
      BY <3>2, <3>3, LaidThen
    <3> QED BY <3>4 DEF e, c
  <2>5. \A k \in Nat : k \in S
    <3> HIDE DEF S
    <3> QED BY <2>3, <2>4, SetInduction
  <2>6. PICK k \in Nat : k + 1 = n
    <3>1. n - 1 \in Nat /\ (n - 1) + 1 = n
      BY <1>1, <1>3
    <3> QED BY <3>1
  <2> QED BY <1>1, <2>1, <2>5, <2>6
<1> QED BY <1>2, <1>3

(***************************** the parameters ******************************)
LEMMA TwoList ==
    ASSUME NEW a, NEW b
    PROVE  IsList(<<a, b>>) /\ Len(<<a, b>>) = 2 /\ DOMAIN <<a, b>> = {1, 2}
<1>1. <<a, b>> \in Seq({a, b})
  OBVIOUS
<1>2. IsList(<<a, b>>)
  BY <1>1, ListOf
<1>3. Len(<<a, b>>) = 2 /\ DOMAIN <<a, b>> = {1, 2}
  OBVIOUS
<1> QED BY <1>2, <1>3

LEMMA ThreeList ==
    ASSUME NEW a, NEW b, NEW c
    PROVE  IsList(<<a, b, c>>) /\ Len(<<a, b, c>>) = 3 /\ DOMAIN <<a, b, c>> = {1, 2, 3}
<1>1. <<a, b, c>> \in Seq({a, b, c})
  OBVIOUS
<1>2. IsList(<<a, b, c>>)
  BY <1>1, ListOf
<1>3. Len(<<a, b, c>>) = 3 /\ DOMAIN <<a, b, c>> = {1, 2, 3}
  OBVIOUS
<1> QED BY <1>2, <1>3

LEMMA FiveList ==
    ASSUME NEW a, NEW b, NEW c, NEW d, NEW e
    PROVE  IsList(<<a, b, c, d, e>>) /\ Len(<<a, b, c, d, e>>) = 5 /\ DOMAIN <<a, b, c, d, e>> = 1..5
<1>1. <<a, b, c, d, e>> \in Seq({a, b, c, d, e})
  OBVIOUS
<1>2. IsList(<<a, b, c, d, e>>)
  BY <1>1, ListOf
<1>3. Len(<<a, b, c, d, e>>) = 5 /\ DOMAIN <<a, b, c, d, e>> = 1..5
  OBVIOUS
<1> QED BY <1>2, <1>3

\* What derive checks before anything is built.
Built(m) ==
    Len(m.scheme.w_log2) = m.dims.depth /\ Len(m.blocks) = m.dims.depth /\ ~HasNegativeSite(m)

LEMMA BuiltDepth ==
    ASSUME NEW m \in Models, Built(m)
    PROVE  /\ DOMAIN m.scheme.w_log2 = 1..Depth(m) /\ Len(m.scheme.w_log2) = Depth(m)
           /\ Depth(m) \in Nat /\ DOMAIN m.blocks = 1..Depth(m)
           /\ \A b \in 1..Depth(m) : \A k \in 1..5 : m.scheme.w_log2[b][k] \in Int
  BY ModelFacts DEF Built, Depth

\* No site has a negative shift.
LEMMA SitesFit ==
    ASSUME NEW m \in Models, Built(m)
    PROVE  /\ \A b \in 1..Depth(m) : \A k \in 1..5 : BlockSites(m.scheme, b)[k][2] >= 0
           /\ \A j \in 1..5 : SharedSites(m.scheme, m.dims.dh)[j][2] >= 0
<1> DEFINE n == Depth(m)
           sc == m.scheme
           seqs == [b \in DOMAIN sc.w_log2 |-> BlockSites(sc, b)]
           shared == SharedSites(sc, m.dims.dh)
<1>1. n \in Nat /\ seqs = [b \in 1..n |-> BlockSites(sc, b)]
  BY BuiltDepth
<1>2. \A b \in 1..n : IsList(BlockSites(sc, b)) /\ Len(BlockSites(sc, b)) = 5
  BY FiveList DEF BlockSites
<1>3. IsList(shared) /\ Len(shared) = 5
  BY FiveList DEF SharedSites
<1>4. IsList(seqs) /\ Len(seqs) = n /\ DOMAIN seqs = 1..n /\ \A b \in 1..n : seqs[b] = BlockSites(sc, b)
  BY <1>1, MakeList
<1>5. \A b \in 1..n : \A k \in 1..5 : BlockSites(sc, b)[k][2] \in Int
  <2> TAKE b \in 1..n
  <2>1. \A k \in 1..5 : sc.w_log2[b][k] \in Int
    BY BuiltDepth
  <2>2. /\ BlockSites(sc, b)[1][2] \in Int /\ BlockSites(sc, b)[2][2] \in Int
        /\ BlockSites(sc, b)[3][2] \in Int /\ BlockSites(sc, b)[4][2] \in Int
        /\ BlockSites(sc, b)[5][2] \in Int
    BY <2>1, SchemeInts DEF BlockSites
  <2>3. \A k \in 1..5 : k \in {1, 2, 3, 4, 5}
    OBVIOUS
  <2> QED BY <2>2, <2>3
<1>6. \A j \in 1..5 : shared[j][2] \in Int
  <2>1. HalfLog2(m.dims.dh) \in Int
    BY ModelFacts
  <2>2. /\ shared[1][2] \in Int /\ shared[2][2] \in Int /\ shared[3][2] \in Int
        /\ shared[4][2] \in Int /\ shared[5][2] \in Int
    BY <2>1, SchemeInts DEF SharedSites
  <2>3. \A k \in 1..5 : k \in {1, 2, 3, 4, 5}
    OBVIOUS
  <2> QED BY <2>2, <2>3
<1>7. Sites(m) = FlattenSeq(seqs) \o shared
  BY DEF Sites
<1>8. \A i \in DOMAIN Sites(m) : ~(Sites(m)[i][2] < 0)
  BY DEF Built, HasNegativeSite
<1> HIDE DEF seqs, shared
<1>9. /\ IsList(FlattenSeq(seqs)) /\ Len(FlattenSeq(seqs)) = n * 5
      /\ \A b \in 1..n : \A k \in 1..5 : FlattenSeq(seqs)[At(b, 5, k)] = BlockSites(sc, b)[k]
  <2>1. IsList(seqs) /\ \A b \in DOMAIN seqs : IsList(seqs[b]) /\ Len(seqs[b]) = 5
    BY <1>2, <1>4
  <2>2. EvenlyFlat(FlattenSeq(seqs), seqs, 5)
    BY <2>1, UniformFlat
  <2> QED BY <1>4, <2>2 DEF EvenlyFlat
<1>10. PICK flat, sites : flat = FlattenSeq(seqs) /\ sites = Sites(m)
  OBVIOUS
<1>11. Joins(sites, flat, shared)
  BY <1>3, <1>7, <1>9, <1>10, ConcatJoins
<1>12. /\ DOMAIN sites = 1..(n * 5 + 5) /\ \A i \in 1..(n * 5) : sites[i] = flat[i]
       /\ \A j \in 1..5 : sites[n * 5 + j] = shared[j]
  <2>1. IsList(sites) /\ Len(sites) = n * 5 + 5
    BY <1>3, <1>9, <1>10, <1>11 DEF Joins
  <2> QED BY <1>3, <1>9, <1>10, <1>11, <2>1, ListFacts DEF Joins
<1>13. ASSUME NEW b \in 1..n, NEW k \in 1..5
       PROVE  BlockSites(sc, b)[k][2] >= 0
  <2>1. At(b, 5, k) \in 1..(n * 5)
    BY <1>1, CellIndex DEF At
  <2>2. At(b, 5, k) \in DOMAIN sites /\ sites[At(b, 5, k)] = BlockSites(sc, b)[k]
    <3>1. At(b, 5, k) \in 1..(n * 5 + 5)
      BY <1>1, <2>1
    <3>2. sites[At(b, 5, k)] = flat[At(b, 5, k)]
      BY <1>12, <2>1
    <3> QED BY <1>9, <1>10, <1>12, <3>1, <3>2
  <2> QED BY <1>5, <1>8, <1>10, <2>2
<1>14. ASSUME NEW j \in 1..5
       PROVE  shared[j][2] >= 0
  <2>1. n * 5 + j \in DOMAIN sites /\ sites[n * 5 + j] = shared[j]
    <3>1. n * 5 + j \in 1..(n * 5 + 5)
      BY <1>1
    <3> QED BY <1>12, <3>1
  <2> QED BY <1>6, <1>8, <1>10, <2>1
<1> QED BY <1>13, <1>14 DEF shared

\* What derive hands to the builder.
LEMMA DerivedFacts ==
    ASSUME NEW m \in Models, Built(m)
    PROVE  LET qp == Derived(m)
               sc == m.scheme
           IN  /\ qp.ln_shift = sc.t_inv - sc.f_ln /\ qp.ln_shift >= 0
               /\ qp.score_shift = 2 * sc.f_qkv + HalfLog2(m.dims.dh) - sc.f_score /\ qp.score_shift >= 0
               /\ qp.oh_shift = sc.f_p + sc.f_qkv - sc.f_att /\ qp.oh_shift >= 0
               /\ qp.gate_msa_bits = sc.f_ln + sc.f_a - sc.f_x /\ qp.gate_msa_bits >= 0
               /\ qp.gate_mlp_bits = sc.f_ln + sc.f_f - sc.f_x /\ qp.gate_mlp_bits >= 0
               /\ qp.mod_one = 2^sc.f_ln /\ qp.mod_bits = sc.f_ln /\ qp.softmax_one = 2^sc.f_p
               /\ \A b \in 1..Depth(m) :
                     /\ \A k \in 1..5 : qp.blocks[b][k] >= 0
                     /\ qp.blocks[b][1] = sc.f_c - sc.w_log2[b][1] - sc.f_ln
                     /\ qp.blocks[b][2] = sc.f_ln - sc.w_log2[b][2] - sc.f_qkv
                     /\ qp.blocks[b][3] = sc.f_att - sc.w_log2[b][3] - sc.f_a
                     /\ qp.blocks[b][4] = sc.f_ln - sc.w_log2[b][4] - sc.f_g1
                     /\ qp.blocks[b][5] = sc.f_g2 - sc.w_log2[b][5] - sc.f_f
<1> DEFINE sc == m.scheme
           shared == SharedSites(sc, m.dims.dh)
           qp == Derived(m)
<1>1. \A j \in 1..5 : shared[j][2] >= 0
  BY SitesFit
<1>2. /\ qp.ln_shift = shared[1][2] /\ qp.score_shift = shared[2][2] /\ qp.oh_shift = shared[3][2]
      /\ qp.gate_msa_bits = shared[4][2] /\ qp.gate_mlp_bits = shared[5][2]
      /\ qp.mod_one = 2^sc.f_ln /\ qp.mod_bits = sc.f_ln /\ qp.softmax_one = 2^sc.f_p
  BY DEF Derived
<1>3. /\ shared[1][2] = sc.t_inv - sc.f_ln
      /\ shared[2][2] = 2 * sc.f_qkv + HalfLog2(m.dims.dh) - sc.f_score
      /\ shared[3][2] = sc.f_p + sc.f_qkv - sc.f_att
      /\ shared[4][2] = sc.f_ln + sc.f_a - sc.f_x
      /\ shared[5][2] = sc.f_ln + sc.f_f - sc.f_x
  BY DEF SharedSites
<1>4. ASSUME NEW b \in 1..Depth(m)
      PROVE  /\ \A k \in 1..5 : qp.blocks[b][k] >= 0
             /\ qp.blocks[b][1] = sc.f_c - sc.w_log2[b][1] - sc.f_ln
             /\ qp.blocks[b][2] = sc.f_ln - sc.w_log2[b][2] - sc.f_qkv
             /\ qp.blocks[b][3] = sc.f_att - sc.w_log2[b][3] - sc.f_a
             /\ qp.blocks[b][4] = sc.f_ln - sc.w_log2[b][4] - sc.f_g1
             /\ qp.blocks[b][5] = sc.f_g2 - sc.w_log2[b][5] - sc.f_f
  <2>1. b \in DOMAIN sc.w_log2 /\ DOMAIN Linears = 1..5
    BY BuiltDepth, ModelFacts
  <2>2. \A k \in 1..5 : qp.blocks[b][k] = BlockSites(sc, b)[k][2]
    BY <2>1 DEF Derived
  <2>3. \A k \in 1..5 : BlockSites(sc, b)[k][2] >= 0
    BY SitesFit
  <2>4. \A k \in 1..5 : sc.w_log2[b][k] \in Int
    BY BuiltDepth
  <2>5. /\ BlockSites(sc, b)[1][2] = sc.f_c - sc.w_log2[b][1] - sc.f_ln
        /\ BlockSites(sc, b)[2][2] = sc.f_ln - sc.w_log2[b][2] - sc.f_qkv
        /\ BlockSites(sc, b)[3][2] = sc.f_att - sc.w_log2[b][3] - sc.f_a
        /\ BlockSites(sc, b)[4][2] = sc.f_ln - sc.w_log2[b][4] - sc.f_g1
        /\ BlockSites(sc, b)[5][2] = sc.f_g2 - sc.w_log2[b][5] - sc.f_f
    BY <2>4, SchemeInts DEF BlockSites
  <2>6. 1 \in 1..5 /\ 2 \in 1..5 /\ 3 \in 1..5 /\ 4 \in 1..5 /\ 5 \in 1..5
    OBVIOUS
  <2>7. \A k \in 1..5 : qp.blocks[b][k] >= 0
    BY <2>2, <2>3
  <2>8. /\ qp.blocks[b][1] = sc.f_c - sc.w_log2[b][1] - sc.f_ln
        /\ qp.blocks[b][2] = sc.f_ln - sc.w_log2[b][2] - sc.f_qkv
        /\ qp.blocks[b][3] = sc.f_att - sc.w_log2[b][3] - sc.f_a
    BY <2>2, <2>5, <2>6
  <2>9. /\ qp.blocks[b][4] = sc.f_ln - sc.w_log2[b][4] - sc.f_g1
        /\ qp.blocks[b][5] = sc.f_g2 - sc.w_log2[b][5] - sc.f_f
    BY <2>2, <2>5, <2>6
  <2> HIDE DEF qp, sc
  <2> QED BY <2>7, <2>8, <2>9
<1>5. /\ shared[1][2] >= 0 /\ shared[2][2] >= 0 /\ shared[3][2] >= 0
      /\ shared[4][2] >= 0 /\ shared[5][2] >= 0
  <2> HIDE DEF shared
  <2> QED BY <1>1
<1>6. /\ qp.ln_shift = sc.t_inv - sc.f_ln /\ qp.ln_shift >= 0
      /\ qp.score_shift = 2 * sc.f_qkv + HalfLog2(m.dims.dh) - sc.f_score /\ qp.score_shift >= 0
      /\ qp.oh_shift = sc.f_p + sc.f_qkv - sc.f_att /\ qp.oh_shift >= 0
  <2> HIDE DEF shared, qp, sc
  <2> QED BY <1>2, <1>3, <1>5
<1>7. /\ qp.gate_msa_bits = sc.f_ln + sc.f_a - sc.f_x /\ qp.gate_msa_bits >= 0
      /\ qp.gate_mlp_bits = sc.f_ln + sc.f_f - sc.f_x /\ qp.gate_mlp_bits >= 0
      /\ qp.mod_one = 2^sc.f_ln /\ qp.mod_bits = sc.f_ln /\ qp.softmax_one = 2^sc.f_p
  <2> HIDE DEF shared, qp, sc
  <2> QED BY <1>2, <1>3, <1>5
<1> QED BY <1>4, <1>6, <1>7

(******************************* the scales ********************************)
LEMMA EvenIndex ==
    ASSUME NEW q \in Nat, NEW n \in Nat, NEW e \in 1..(q * n)
    PROVE  \E i \in 1..q : \E j \in 1..n : (i - 1) * n + j = e
<1>1. /\ (e - 1) \div n + 1 \in 1..q /\ ((e - 1) % n) + 1 \in 1..n
      /\ (((e - 1) \div n + 1) - 1) * n + (((e - 1) % n) + 1) = e
  BY RowIndex
<1>2. PICK i, j : i = (e - 1) \div n + 1 /\ j = ((e - 1) % n) + 1
  OBVIOUS
<1>3. i \in 1..q /\ j \in 1..n /\ (i - 1) * n + j = e
  BY <1>1, <1>2, Zenon
<1> QED BY <1>3, Zenon

LEMMA EvenEntry ==
    ASSUME NEW z, NEW seqs, NEW n \in Nat, IsList(seqs), EvenlyFlat(z, seqs, n), NEW e \in DOMAIN z
    PROVE  \E i \in 1..Len(seqs) : \E j \in 1..n : e = At(i, n, j) /\ z[e] = seqs[i][j]
<1>1. PICK q \in Nat : q = Len(seqs)
  BY ListFacts
<1>2. DOMAIN z = 1..(q * n)
  BY <1>1 DEF EvenlyFlat
<1>3. e \in 1..(q * n)
  BY <1>2
<1>4. PICK i \in 1..q, j \in 1..n : (i - 1) * n + j = e
  BY <1>3, EvenIndex
<1>5. e = At(i, n, j) /\ z[At(i, n, j)] = seqs[i][j]
  BY <1>1, <1>4 DEF At, EvenlyFlat
<1> QED BY <1>1, <1>4, <1>5

\* A lookup by a key that one entry has.
LEMMA OnlyLeast ==
    ASSUME NEW T, NEW e \in Nat, e \in T, \A y \in T : y = e
    PROVE  Min(T) = e
  BY LeastIs

LEMMA WeightFound ==
    ASSUME NEW m \in Models, Built(m), NEW b \in 1..Depth(m), NEW k \in 1..5
    PROVE  /\ Find(Weights(m), WeightId(b, k)).scale_id = 9 + At(b, 5, k)
           /\ Find(Weights(m), WeightId(b, k)).shape = WeightShape(m, k)
<1> DEFINE n == Depth(m)
           entry(i, j) == [id |-> WeightId(i, j), scale_id |-> 10 + 5 * (i - 1) + j - 1,
                           shape |-> WeightShape(m, j), cells |-> m.blocks[i][j]]
           seqs == [i \in DOMAIN m.blocks |-> [j \in DOMAIN Linears |-> entry(i, j)]]
<1>1. n \in Nat /\ DOMAIN m.blocks = 1..n /\ DOMAIN Linears = 1..5
  BY BuiltDepth, ModelFacts
<1>2. seqs = [i \in 1..n |-> [j \in 1..5 |-> entry(i, j)]]
  BY <1>1
<1>3. Weights(m) = FlattenSeq(seqs)
  BY DEF Weights
<1>4. \A i \in 1..n : \A j \in 1..5 : seqs[i][j].id = 999 + At(i, 5, j)
                                      /\ seqs[i][j].scale_id = 9 + At(i, 5, j)
                                      /\ seqs[i][j].shape = WeightShape(m, j)
  <2> TAKE i \in 1..n
  <2> TAKE j \in 1..5
  <2>1. seqs[i][j] = entry(i, j)
    BY <1>2
  <2> QED BY <2>1 DEF At, WeightId
<1>5. IsList(seqs) /\ Len(seqs) = n
  <2> HIDE DEF entry
  <2>1. seqs = [i \in 1..n |-> seqs[i]]
    BY <1>2
  <2> HIDE DEF seqs
  <2> QED BY <1>1, <2>1, MakeList
<1>6. \A i \in 1..n : IsList(seqs[i]) /\ Len(seqs[i]) = 5
  <2> TAKE i \in 1..n
  <2> HIDE DEF entry
  <2>1. seqs[i] = [j \in 1..5 |-> seqs[i][j]]
    BY <1>2
  <2> HIDE DEF seqs
  <2> QED BY <2>1, 5 \in Nat, MakeList
<1> HIDE DEF seqs
<1>7. EvenlyFlat(Weights(m), seqs, 5)
  <2>1. \A i \in DOMAIN seqs : IsList(seqs[i]) /\ Len(seqs[i]) = 5
    BY <1>5, <1>6, ListFacts
  <2> QED BY <1>3, <1>5, <2>1, UniformFlat
<1>8. PICK w, e : w = Weights(m) /\ e = At(b, 5, k)
  OBVIOUS
<1>9. \A i \in DOMAIN w : i \in Nat /\ w[i].id = 999 + i
  <2> SUFFICES ASSUME NEW i \in DOMAIN w PROVE i \in Nat /\ w[i].id = 999 + i
    OBVIOUS
  <2>1. \E a \in 1..n : \E j \in 1..5 : i = At(a, 5, j) /\ w[i] = seqs[a][j]
    BY <1>5, <1>7, <1>8, EvenEntry
  <2>2. \A a \in 1..n : \A j \in 1..5 : At(a, 5, j) \in Nat
    BY <1>1 DEF At
  <2> QED BY <1>4, <2>1, <2>2
<1>10. e \in DOMAIN w /\ w[e] = seqs[b][k] /\ e \in Nat
  <2>1. e \in 1..(n * 5)
    BY <1>1, <1>8, CellIndex DEF At
  <2>2. DOMAIN w = 1..(n * 5)
    BY <1>5, <1>7, <1>8, ListFacts DEF EvenlyFlat
  <2> QED BY <1>5, <1>7, <1>8, <2>1, <2>2 DEF EvenlyFlat
<1>11. WeightId(b, k) = 999 + e
  BY <1>1, <1>8 DEF WeightId, At
<1> DEFINE T == { i \in DOMAIN w : w[i].id = WeightId(b, k) }
<1>12. e \in T /\ \A y \in T : y = e
  BY <1>9, <1>10, <1>11
<1>13. Min(T) = e
  <2> HIDE DEF T
  <2> QED BY <1>10, <1>12, OnlyLeast
<1>14. Find(w, WeightId(b, k)) = w[e]
  BY <1>13 DEF Find
<1> QED BY <1>4, <1>8, <1>10, <1>14

\* What the committed scales declare of the inputs, the output and every weight.
LEMMA ScalesDeclared ==
    ASSUME NEW m \in Models, Built(m)
    PROVE  /\ ScaleLog2(m, 0) = -m.scheme.f_x /\ ScaleLog2(m, 2) = -m.scheme.f_ln
           /\ \A b \in 1..Depth(m) : \A k \in 1..5 :
                  DeclaredLog2(m, WeightId(b, k)) = m.scheme.w_log2[b][k]
<1> DEFINE n == Depth(m)
           sc == m.scheme
           entry(i, j) == [scale_id |-> 10 + 5 * (i - 1) + j - 1, log2 |-> sc.w_log2[i][j]]
           seqs == [i \in DOMAIN sc.w_log2 |-> [j \in DOMAIN Linears |-> entry(i, j)]]
           three == << [scale_id |-> 0, log2 |-> -sc.f_x], [scale_id |-> 1, log2 |-> -sc.f_c],
                       [scale_id |-> 2, log2 |-> -sc.f_ln] >>
<1>1. n \in Nat /\ DOMAIN sc.w_log2 = 1..n /\ DOMAIN Linears = 1..5
  BY BuiltDepth, ModelFacts
<1>2. seqs = [i \in 1..n |-> [j \in 1..5 |-> entry(i, j)]]
  BY <1>1
<1>3. Scales(m) = three \o FlattenSeq(seqs)
  BY DEF Scales
<1>4. \A i \in 1..n : \A j \in 1..5 : seqs[i][j].scale_id = 9 + At(i, 5, j)
                                      /\ seqs[i][j].log2 = sc.w_log2[i][j]
  <2> TAKE i \in 1..n
  <2> TAKE j \in 1..5
  <2>1. seqs[i][j] = entry(i, j)
    BY <1>2
  <2> QED BY <2>1 DEF At
<1>5. IsList(seqs) /\ Len(seqs) = n
  <2> HIDE DEF entry
  <2>1. seqs = [i \in 1..n |-> seqs[i]]
    BY <1>2
  <2> HIDE DEF seqs
  <2> QED BY <1>1, <2>1, MakeList
<1>6. \A i \in 1..n : IsList(seqs[i]) /\ Len(seqs[i]) = 5
  <2> TAKE i \in 1..n
  <2> HIDE DEF entry
  <2>1. seqs[i] = [j \in 1..5 |-> seqs[i][j]]
    BY <1>2
  <2> HIDE DEF seqs
  <2> QED BY <2>1, 5 \in Nat, MakeList
<1>7. /\ IsList(three) /\ Len(three) = 3
      /\ three[1].scale_id = 0 /\ three[2].scale_id = 1 /\ three[3].scale_id = 2
      /\ three[1].log2 = -sc.f_x /\ three[3].log2 = -sc.f_ln
  BY ThreeList
<1> HIDE DEF seqs, three
<1>8. EvenlyFlat(FlattenSeq(seqs), seqs, 5)
  <2>1. \A i \in DOMAIN seqs : IsList(seqs[i]) /\ Len(seqs[i]) = 5
    BY <1>5, <1>6, ListFacts
  <2> QED BY <1>5, <2>1, UniformFlat
<1>9. PICK z, flat : z = Scales(m) /\ flat = FlattenSeq(seqs)
  OBVIOUS
<1>10. /\ IsList(flat) /\ Len(flat) = n * 5 /\ DOMAIN flat = 1..(n * 5)
       /\ \A i \in 1..n : \A j \in 1..5 : flat[At(i, 5, j)] = seqs[i][j]
  <2>1. IsList(flat) /\ Len(flat) = n * 5
    BY <1>5, <1>8, <1>9 DEF EvenlyFlat
  <2> QED BY <1>5, <1>8, <1>9, <2>1, ListFacts DEF EvenlyFlat
<1>11. /\ DOMAIN z = 1..(3 + n * 5) /\ \A i \in 1..3 : z[i] = three[i]
       /\ \A i \in 1..(n * 5) : z[3 + i] = flat[i]
  <2>1. Joins(z, three, flat)
    BY <1>3, <1>7, <1>9, <1>10, ConcatJoins
  <2>2. IsList(z) /\ Len(z) = 3 + n * 5
    BY <1>7, <1>10, <2>1 DEF Joins
  <2> QED BY <1>7, <1>10, <2>1, <2>2, ListFacts DEF Joins
<1>12. \A i \in 1..(n * 5) : flat[i].scale_id = 9 + i
  <2> SUFFICES ASSUME NEW i \in 1..(n * 5) PROVE flat[i].scale_id = 9 + i
    OBVIOUS
  <2>1. \E a \in 1..n : \E j \in 1..5 : i = At(a, 5, j) /\ flat[i] = seqs[a][j]
    <3>1. EvenlyFlat(flat, seqs, 5) /\ i \in DOMAIN flat /\ 5 \in Nat
      BY <1>8, <1>9, <1>10
    <3> QED BY <1>5, <3>1, EvenEntry
  <2> QED BY <1>4, <2>1
<1>13. ASSUME NEW i \in DOMAIN z
       PROVE  /\ i \in Nat
              /\ \/ i \in 1..3 /\ z[i].scale_id = i - 1
                 \/ i > 3 /\ z[i].scale_id = 6 + i
  <2>1. CASE i \in 1..3
    <3>1. i = 1 \/ i = 2 \/ i = 3
      BY <2>1
    <3> QED BY <1>7, <1>11, <2>1, <3>1
  <2>2. CASE i \notin 1..3
    <3>1. PICK c \in 1..(n * 5) : i = 3 + c
      <4>1. n * 5 \in Nat /\ i \in 1..(3 + n * 5)
        BY <1>1, <1>11
      <4>2. i - 3 \in 1..(n * 5) /\ i = 3 + (i - 3)
        BY <2>2, <4>1
      <4> QED BY <4>2
    <3> QED BY <1>1, <1>11, <1>12, <3>1
  <2> QED BY <2>1, <2>2
<1>14. ASSUME NEW id, NEW e \in DOMAIN z, z[e].scale_id = id
       PROVE  ScaleLog2(m, id) = z[e].log2
  <2> DEFINE T == { i \in DOMAIN z : z[i].scale_id = id }
  <2>1. e \in Nat /\ e \in T /\ \A y \in T : y = e
    BY <1>13, <1>14
  <2>2. Min(T) = e
    <3> HIDE DEF T
    <3> QED BY <2>1, OnlyLeast
  <2> QED BY <1>9, <2>2 DEF ScaleLog2
<1>15. ScaleLog2(m, 0) = -sc.f_x /\ ScaleLog2(m, 2) = -sc.f_ln
  <2>1. n * 5 \in Nat
    BY <1>1
  <2>2. 1 \in DOMAIN z /\ 3 \in DOMAIN z /\ z[1] = three[1] /\ z[3] = three[3]
    BY <1>11, <2>1
  <2> QED BY <1>7, <1>14, <2>2
<1>16. ASSUME NEW b \in 1..n, NEW k \in 1..5
       PROVE  DeclaredLog2(m, WeightId(b, k)) = sc.w_log2[b][k]
  <2>1. PICK e : e = At(b, 5, k)
    OBVIOUS
  <2>2. e \in 1..(n * 5)
    BY <1>1, <2>1, CellIndex DEF At
  <2>3. 3 + e \in DOMAIN z /\ z[3 + e] = flat[e] /\ flat[e] = seqs[b][k]
    <3>1. n * 5 \in Nat
      BY <1>1
    <3> QED BY <1>10, <1>11, <2>1, <2>2, <3>1
  <2>4. z[3 + e].scale_id = 9 + e /\ z[3 + e].log2 = sc.w_log2[b][k]
    BY <1>4, <1>12, <2>2, <2>3
  <2>5. Find(Weights(m), WeightId(b, k)).scale_id = 9 + e
    BY <2>1, WeightFound
  <2> QED BY <1>14, <2>3, <2>4, <2>5 DEF DeclaredLog2
<1> QED BY <1>15, <1>16

(*************************** the fracs of names ****************************)
LEMMA NameFracs ==
    ASSUME NEW m
    PROVE  LET sc == m.scheme
               is(name) == WholeFrac(m, name)
           IN  /\ is("x") = sc.f_x /\ is("g1") = sc.f_x /\ is("sum1") = sc.f_x /\ is("x1") = sc.f_x
               /\ is("g2") = sc.f_x /\ is("sum2") = sc.f_x
               /\ is("c") = sc.f_c /\ is("silu_c") = sc.f_c
               /\ is("qkv") = sc.f_qkv /\ is("q") = sc.f_qkv /\ is("k") = sc.f_qkv
               /\ is("v") = sc.f_qkv /\ is("qh") = sc.f_qkv /\ is("kh") = sc.f_qkv /\ is("vh") = sc.f_qkv
               /\ is("qk") = 2 * sc.f_qkv + HalfLog2(m.dims.dh) /\ is("scores") = sc.f_score
               /\ is("prob") = sc.f_p /\ is("pv") = sc.f_p + sc.f_qkv
               /\ is("oh") = sc.f_att /\ is("attn_cat") = sc.f_att /\ is("a") = sc.f_a
               /\ is("h1") = sc.f_g1 /\ is("g") = sc.f_g2 /\ is("f") = sc.f_f
               /\ is("adaln") = sc.f_ln /\ is("shift_msa") = sc.f_ln /\ is("scale_msa") = sc.f_ln
               /\ is("gate_msa") = sc.f_ln /\ is("shift_mlp") = sc.f_ln /\ is("scale_mlp") = sc.f_ln
               /\ is("gate_mlp") = sc.f_ln /\ is("n1") = sc.f_ln /\ is("n2") = sc.f_ln
               /\ is("m1") = sc.f_ln /\ is("m2") = sc.f_ln /\ is("a0") = sc.f_ln
               /\ is("f0") = sc.f_ln /\ is("z") = sc.f_ln
  BY DEF WholeFrac

\* The frac of a buffer and of the parts of its rows.
LEMMA BufFracs ==
    ASSUME NEW m, NEW b, NEW name, NEW h, NEW p
    PROVE  LET buf == Buf(b, name, h)
           IN  /\ FracAt(m, buf) = WholeFrac(m, name)
               /\ FracAt(m, Part(buf, "acc", p)) = AccFrac(m, b, name)
               /\ FracAt(m, Part(buf, "norm", p)) = m.scheme.f_ln
               /\ FracAt(m, Part(buf, "part", p)) = WholeFrac(m, name)
               /\ FracAt(m, Part(buf, "row", p)) =
                      IF name \in {"n1", "n2", "z"} THEN m.scheme.f_x ELSE WholeFrac(m, name)
<1>1. /\ Buf(b, name, h).stage = "whole" /\ Buf(b, name, h).name = name
      /\ \A stage : /\ Part(Buf(b, name, h), stage, p).stage = stage
                    /\ Part(Buf(b, name, h), stage, p).name = name
                    /\ Part(Buf(b, name, h), stage, p).block = b
  BY DEF Buf, Part
<1> QED BY <1>1 DEF FracAt

LEMMA WholeAt ==
    ASSUME NEW m
    PROVE  \A b, name, h : FracAt(m, Buf(b, name, h)) = WholeFrac(m, name)
<1> TAKE b, name, h
<1>1. Buf(b, name, h).stage = "whole" /\ Buf(b, name, h).name = name
  BY DEF Buf
<1> QED BY <1>1 DEF FracAt

LEMMA AccFracs ==
    ASSUME NEW m, NEW b
    PROVE  /\ AccFrac(m, b, "adaln") = m.scheme.f_c - m.scheme.w_log2[b][1]
           /\ AccFrac(m, b, "qkv") = m.scheme.f_ln - m.scheme.w_log2[b][2]
           /\ AccFrac(m, b, "a") = m.scheme.f_att - m.scheme.w_log2[b][3]
           /\ AccFrac(m, b, "h1") = m.scheme.f_ln - m.scheme.w_log2[b][4]
           /\ AccFrac(m, b, "f") = m.scheme.f_g2 - m.scheme.w_log2[b][5]
  BY DEF AccFrac

(******************************* the ops fit *******************************)
LEMMA OneArg ==
    ASSUME NEW in
    PROVE  Range(<<in>>) = {in} /\ <<in>>[1] = in
<1>1. DOMAIN <<in>> = {1} /\ <<in>>[1] = in
  OBVIOUS
<1> QED BY <1>1 DEF Range

LEMMA TwoArgs ==
    ASSUME NEW a, NEW b
    PROVE  Range(<<a, b>>) = {a, b} /\ <<a, b>>[1] = a /\ <<a, b>>[2] = b
<1>1. DOMAIN <<a, b>> = {1, 2} /\ <<a, b>>[1] = a /\ <<a, b>>[2] = b
  BY TwoList
<1>2. \A y : y \in Range(<<a, b>>) <=> \E i \in DOMAIN <<a, b>> : <<a, b>>[i] = y
  BY DEF Range
<1> QED BY <1>1, <1>2

LEMMA ThreeArgs ==
    ASSUME NEW a, NEW b, NEW c
    PROVE  /\ Range(<<a, b, c>>) = {a, b, c}
           /\ <<a, b, c>>[1] = a /\ <<a, b, c>>[2] = b /\ <<a, b, c>>[3] = c
<1>1. DOMAIN <<a, b, c>> = {1, 2, 3} /\ <<a, b, c>>[1] = a /\ <<a, b, c>>[2] = b /\ <<a, b, c>>[3] = c
  BY ThreeList
<1>2. \A y : y \in Range(<<a, b, c>>) <=> \E i \in DOMAIN <<a, b, c>> : <<a, b, c>>[i] = y
  BY DEF Range
<1> QED BY <1>1, <1>2

\* An op that fits, reads args and writes out.
FitsOver(m, op, args, out) == Fits(m, op) /\ Range(op.args) = args /\ op.out_buf = out

LEMMA SliceFits ==
    ASSUME NEW m, NEW in, NEW out, NEW start, NEW len, FracAt(m, out) = FracAt(m, in)
    PROVE  FitsOver(m, Slice(in, out, start, len), {in}, out)
<1> DEFINE op == Slice(in, out, start, len)
<1>1. op.kind = "Slice" /\ op.args = <<in>> /\ op.out_buf = out
  BY DEF Slice
<1> HIDE DEF op
<1>2. Range(op.args) = {in} /\ op.args[1] = in
  BY <1>1, OneArg
<1>3. ASSUME NEW f, FracsKnown(m, f), Range(op.args) \subseteq DOMAIN f
      PROVE  Aligned(m, op, f) /\ FracOut(m, op, f) = FracAt(m, op.out_buf)
  <2>1. f[op.args[1]] = FracAt(m, in)
    BY <1>2, <1>3 DEF FracsKnown
  <2> QED BY <1>1, <2>1 DEF Aligned, FracOut, Shifts
<1>4. Fits(m, op)
  BY <1>3 DEF Fits
<1> QED BY <1>1, <1>2, <1>4 DEF op, FitsOver

LEMMA RequantFits ==
    ASSUME NEW m, NEW in, NEW out, NEW shift, FracAt(m, out) = FracAt(m, in) - shift, shift >= 0
    PROVE  FitsOver(m, Requant(in, out, shift), {in}, out)
<1> DEFINE op == Requant(in, out, shift)
<1>1. op.kind = "Requant" /\ op.args = <<in>> /\ op.out_buf = out /\ op.shift = shift
  BY DEF Requant
<1> HIDE DEF op
<1>2. Range(op.args) = {in} /\ op.args[1] = in
  BY <1>1, OneArg
<1>3. ASSUME NEW f, FracsKnown(m, f), Range(op.args) \subseteq DOMAIN f
      PROVE  Aligned(m, op, f) /\ FracOut(m, op, f) = FracAt(m, op.out_buf)
  <2>1. f[op.args[1]] = FracAt(m, in)
    BY <1>2, <1>3 DEF FracsKnown
  <2> QED BY <1>1, <2>1 DEF Aligned, FracOut, Shifts
<1>4. Fits(m, op)
  BY <1>3 DEF Fits
<1> QED BY <1>1, <1>2, <1>4 DEF op, FitsOver

LEMMA BatchedFits ==
    ASSUME NEW m, NEW b, NEW k, NEW in, NEW out,
           FracAt(m, out) = FracAt(m, in) - DeclaredLog2(m, WeightId(b, k))
    PROVE  FitsOver(m, Batched(m, b, k, in, out), {in}, out)
<1> DEFINE op == Batched(m, b, k, in, out)
<1>1. op.kind = "BatchedLinear" /\ op.args = <<in>> /\ op.out_buf = out /\ op.weight = WeightId(b, k)
  BY DEF Batched
<1> HIDE DEF op
<1>2. Range(op.args) = {in} /\ op.args[1] = in
  BY <1>1, OneArg
<1>3. ASSUME NEW f, FracsKnown(m, f), Range(op.args) \subseteq DOMAIN f
      PROVE  Aligned(m, op, f) /\ FracOut(m, op, f) = FracAt(m, op.out_buf)
  <2>1. f[op.args[1]] = FracAt(m, in)
    BY <1>2, <1>3 DEF FracsKnown
  <2> QED BY <1>1, <2>1 DEF Aligned, FracOut, Shifts
<1>4. Fits(m, op)
  BY <1>3 DEF Fits
<1> QED BY <1>1, <1>2, <1>4 DEF op, FitsOver

LEMMA ActivateFits ==
    ASSUME NEW m, NEW table, NEW in, NEW out,
           \/ table = TableSilu /\ FracAt(m, in) = m.scheme.f_c /\ FracAt(m, out) = m.scheme.f_c
           \/ table = TableGelu /\ FracAt(m, in) = m.scheme.f_g1 /\ FracAt(m, out) = m.scheme.f_g2
    PROVE  FitsOver(m, Activate(table, in, out), {in}, out)
<1> DEFINE op == Activate(table, in, out)
<1>1. op.kind = "Activation" /\ op.args = <<in>> /\ op.out_buf = out /\ op.table = table
  BY DEF Activate
<1> HIDE DEF op
<1>2. Range(op.args) = {in} /\ op.args[1] = in
  BY <1>1, OneArg
<1>3. ASSUME NEW f, FracsKnown(m, f), Range(op.args) \subseteq DOMAIN f
      PROVE  Aligned(m, op, f) /\ FracOut(m, op, f) = FracAt(m, op.out_buf)
  <2>1. f[op.args[1]] = FracAt(m, in)
    BY <1>2, <1>3 DEF FracsKnown
  <2> QED BY <1>1, <2>1 DEF Aligned, FracOut, TableSilu, TableGelu
<1>4. Fits(m, op)
  BY <1>3 DEF Fits
<1> QED BY <1>1, <1>2, <1>4 DEF op, FitsOver

LEMMA NormFits ==
    ASSUME NEW m, NEW in, NEW out, NEW shift, FracAt(m, out) = m.scheme.t_inv - shift, shift >= 0
    PROVE  FitsOver(m, Norm(in, out, shift), {in}, out)
<1> DEFINE op == Norm(in, out, shift)
<1>1. op.kind = "LayerNorm" /\ op.args = <<in>> /\ op.out_buf = out /\ op.shift = shift
  BY DEF Norm
<1> HIDE DEF op
<1>2. Range(op.args) = {in} /\ op.args[1] = in
  BY <1>1, OneArg
<1>3. ASSUME NEW f, FracsKnown(m, f), Range(op.args) \subseteq DOMAIN f
      PROVE  Aligned(m, op, f) /\ FracOut(m, op, f) = FracAt(m, op.out_buf)
  BY <1>1 DEF Aligned, FracOut, Shifts
<1>4. Fits(m, op)
  BY <1>3 DEF Fits
<1> QED BY <1>1, <1>2, <1>4 DEF op, FitsOver

LEMMA ModulateFits ==
    ASSUME NEW m, NEW x, NEW scale, NEW shift, NEW out, NEW qp,
           m.scheme.f_ln \in Int, qp.mod_bits = m.scheme.f_ln, qp.mod_one = 2^m.scheme.f_ln,
           FracAt(m, x) = m.scheme.f_ln, FracAt(m, scale) = m.scheme.f_ln,
           FracAt(m, shift) = m.scheme.f_ln, FracAt(m, out) = m.scheme.f_ln
    PROVE  FitsOver(m, Modulate(x, scale, shift, out, qp), {x, scale, shift}, out)
<1> DEFINE op == Modulate(x, scale, shift, out, qp)
<1>1. /\ op.kind = "Modulate" /\ op.args = <<x, scale, shift>> /\ op.out_buf = out
      /\ op.shift = qp.mod_bits /\ op.one = qp.mod_one
  BY DEF Modulate
<1> HIDE DEF op
<1>2. /\ Range(op.args) = {x, scale, shift}
      /\ op.args[1] = x /\ op.args[2] = scale /\ op.args[3] = shift
  BY <1>1, ThreeArgs
<1>3. ASSUME NEW f, FracsKnown(m, f), Range(op.args) \subseteq DOMAIN f
      PROVE  Aligned(m, op, f) /\ FracOut(m, op, f) = FracAt(m, op.out_buf)
  <2>1. f[op.args[1]] = m.scheme.f_ln /\ f[op.args[2]] = m.scheme.f_ln /\ f[op.args[3]] = m.scheme.f_ln
    BY <1>2, <1>3 DEF FracsKnown
  <2>2. FracOut(m, op, f) = m.scheme.f_ln
    BY <1>1, <2>1 DEF FracOut
  <2> QED BY <1>1, <2>1, <2>2 DEF Aligned
<1>4. Fits(m, op)
  BY <1>3 DEF Fits
<1> QED BY <1>1, <1>2, <1>4 DEF op, FitsOver

LEMMA GateFits ==
    ASSUME NEW m, NEW g, NEW x, NEW out, NEW bits,
           FracAt(m, out) = FracAt(m, g) + FracAt(m, x) - bits, bits >= 0
    PROVE  FitsOver(m, Gate(g, x, out, bits), {g, x}, out)
<1> DEFINE op == Gate(g, x, out, bits)
<1>1. op.kind = "Gate" /\ op.args = <<g, x>> /\ op.out_buf = out /\ op.shift = bits
  BY DEF Gate
<1> HIDE DEF op
<1>2. Range(op.args) = {g, x} /\ op.args[1] = g /\ op.args[2] = x
  BY <1>1, TwoArgs
<1>3. ASSUME NEW f, FracsKnown(m, f), Range(op.args) \subseteq DOMAIN f
      PROVE  Aligned(m, op, f) /\ FracOut(m, op, f) = FracAt(m, op.out_buf)
  <2>1. f[op.args[1]] = FracAt(m, g) /\ f[op.args[2]] = FracAt(m, x)
    BY <1>2, <1>3 DEF FracsKnown
  <2> QED BY <1>1, <2>1 DEF Aligned, FracOut, Shifts
<1>4. Fits(m, op)
  BY <1>3 DEF Fits
<1> QED BY <1>1, <1>2, <1>4 DEF op, FitsOver

LEMMA AddFits ==
    ASSUME NEW m, NEW a, NEW b, NEW out, FracAt(m, out) = FracAt(m, a), FracAt(m, a) = FracAt(m, b)
    PROVE  FitsOver(m, Add(a, b, out), {a, b}, out)
<1> DEFINE op == Add(a, b, out)
<1>1. op.kind = "Add" /\ op.args = <<a, b>> /\ op.out_buf = out
  BY DEF Add
<1> HIDE DEF op
<1>2. Range(op.args) = {a, b} /\ op.args[1] = a /\ op.args[2] = b
  BY <1>1, TwoArgs
<1>3. ASSUME NEW f, FracsKnown(m, f), Range(op.args) \subseteq DOMAIN f
      PROVE  Aligned(m, op, f) /\ FracOut(m, op, f) = FracAt(m, op.out_buf)
  <2>1. f[op.args[1]] = FracAt(m, a) /\ f[op.args[2]] = FracAt(m, b)
    BY <1>2, <1>3 DEF FracsKnown
  <2> QED BY <1>1, <2>1 DEF Aligned, FracOut
<1>4. Fits(m, op)
  BY <1>3 DEF Fits
<1> QED BY <1>1, <1>2, <1>4 DEF op, FitsOver

LEMMA MatMulFits ==
    ASSUME NEW m, NEW a, NEW b, NEW out, NEW rows, NEW inner, NEW cols, NEW t \in BOOLEAN,
           FracAt(m, out) = FracAt(m, a) + FracAt(m, b) + (IF t THEN HalfLog2(m.dims.dh) ELSE 0)
    PROVE  FitsOver(m, MatMulOp(a, b, out, rows, inner, cols, t), {a, b}, out)
<1> DEFINE op == MatMulOp(a, b, out, rows, inner, cols, t)
<1>1. op.kind = "MatMul" /\ op.args = <<a, b>> /\ op.out_buf = out /\ op.transpose_b = t
  BY DEF MatMulOp
<1> HIDE DEF op
<1>2. Range(op.args) = {a, b} /\ op.args[1] = a /\ op.args[2] = b
  BY <1>1, TwoArgs
<1>3. ASSUME NEW f, FracsKnown(m, f), Range(op.args) \subseteq DOMAIN f
      PROVE  Aligned(m, op, f) /\ FracOut(m, op, f) = FracAt(m, op.out_buf)
  <2>1. f[op.args[1]] = FracAt(m, a) /\ f[op.args[2]] = FracAt(m, b)
    BY <1>2, <1>3 DEF FracsKnown
  <2>2. Aligned(m, op, f)
    BY <1>1 DEF Aligned, Shifts
  <2>3. FracOut(m, op, f) = f[op.args[1]] + f[op.args[2]] + IF op.transpose_b THEN HalfLog2(m.dims.dh) ELSE 0
    BY <1>1 DEF FracOut
  <2> QED BY <1>1, <2>1, <2>2, <2>3
<1>4. Fits(m, op)
  BY <1>3 DEF Fits
<1> QED BY <1>1, <1>2, <1>4 DEF op, FitsOver

LEMMA SoftmaxFits ==
    ASSUME NEW m, NEW in, NEW out, NEW n, NEW one, one = 2^m.scheme.f_p,
           FracAt(m, in) = m.scheme.f_score, FracAt(m, out) = m.scheme.f_p
    PROVE  FitsOver(m, SoftmaxOp(in, out, n, one), {in}, out)
<1> DEFINE op == SoftmaxOp(in, out, n, one)
<1>1. op.kind = "Softmax" /\ op.args = <<in>> /\ op.out_buf = out /\ op.one = one
  BY DEF SoftmaxOp
<1> HIDE DEF op
<1>2. Range(op.args) = {in} /\ op.args[1] = in
  BY <1>1, OneArg
<1>3. ASSUME NEW f, FracsKnown(m, f), Range(op.args) \subseteq DOMAIN f
      PROVE  Aligned(m, op, f) /\ FracOut(m, op, f) = FracAt(m, op.out_buf)
  <2>1. f[op.args[1]] = FracAt(m, in)
    BY <1>2, <1>3 DEF FracsKnown
  <2> QED BY <1>1, <2>1 DEF Aligned, FracOut
<1>4. Fits(m, op)
  BY <1>3 DEF Fits
<1> QED BY <1>1, <1>2, <1>4 DEF op, FitsOver

LEMMA ConcatFits ==
    ASSUME NEW m, NEW args, NEW out, 1 \in DOMAIN args, \A i \in DOMAIN args : FracAt(m, args[i]) = FracAt(m, out)
    PROVE  Fits(m, Concat(args, out)) /\ Concat(args, out).args = args
           /\ Concat(args, out).out_buf = out
<1> DEFINE op == Concat(args, out)
<1>1. op.kind = "Concat" /\ op.args = args /\ op.out_buf = out
  BY DEF Concat
<1> HIDE DEF op
<1>3. ASSUME NEW f, FracsKnown(m, f), Range(op.args) \subseteq DOMAIN f
      PROVE  Aligned(m, op, f) /\ FracOut(m, op, f) = FracAt(m, op.out_buf)
  <2>1. \A i \in DOMAIN op.args : f[op.args[i]] = FracAt(m, out)
    BY <1>1, <1>3 DEF FracsKnown, Range
  <2> QED BY <1>1, <2>1 DEF Aligned, FracOut
<1>4. Fits(m, op)
  BY <1>3 DEF Fits
<1> QED BY <1>1, <1>4 DEF op

(************************** the builder's programs *************************)
LEMMA TwoJoin ==
    ASSUME NEW a, NEW b
    PROVE  <<a, b>> = <<a>> \o <<b>>
<1>1. PICK s, t, z : s = <<a>> /\ t = <<b>> /\ z = s \o t
  OBVIOUS
<1>2. s \in Seq({a, b}) /\ t \in Seq({a, b}) /\ Len(s) = 1 /\ Len(t) = 1 /\ s[1] = a /\ t[1] = b
  BY <1>1
<1>3. Joins(z, s, t)
  BY <1>1, <1>2, ListOf, ConcatJoins
<1>4. IsList(z) /\ Len(z) = 2 /\ z[1] = a /\ z[2] = b
  BY <1>2, <1>3 DEF Joins
<1>5. z = [i \in 1..2 |-> z[i]]
  BY <1>4, ListFacts
<1>6. z = <<a, b>>
  BY <1>4, <1>5
<1> QED BY <1>1, <1>6

LEMMA ThreeJoin ==
    ASSUME NEW a, NEW b, NEW c
    PROVE  <<a, b, c>> = <<a, b>> \o <<c>>
  OBVIOUS

LEMMA LaidTwo ==
    ASSUME NEW m, NEW a, NEW b, NEW D, NEW E, Fits(m, a), Fits(m, b), Range(a.args) \subseteq D,
           Range(b.args) \subseteq D \union {a.out_buf},
           E \subseteq D \union {a.out_buf, b.out_buf}
    PROVE  Laid(m, <<a, b>>, D, E)
<1>1. Laid(m, <<a>>, D, D \union {a.out_buf})
  BY LaidOne
<1>2. Laid(m, <<b>>, D \union {a.out_buf}, E)
  BY LaidOne
<1> QED BY <1>1, <1>2, LaidThen, TwoJoin

LEMMA LaidThree ==
    ASSUME NEW m, NEW a, NEW b, NEW c, NEW D, NEW E, Fits(m, a), Fits(m, b), Fits(m, c),
           Range(a.args) \subseteq D, Range(b.args) \subseteq D \union {a.out_buf},
           Range(c.args) \subseteq D \union {a.out_buf, b.out_buf},
           E \subseteq D \union {a.out_buf, b.out_buf, c.out_buf}
    PROVE  Laid(m, <<a, b, c>>, D, E)
<1>1. Laid(m, <<a, b>>, D, D \union {a.out_buf, b.out_buf})
  BY LaidTwo
<1>2. Laid(m, <<c>>, D \union {a.out_buf, b.out_buf}, E)
  BY LaidOne
<1> QED BY <1>1, <1>2, LaidThen, ThreeJoin

LEMMA FiveJoin ==
    ASSUME NEW a, NEW b, NEW c, NEW d, NEW e, NEW s, NEW t, s = <<a, b, c>>, t = <<d, e>>
    PROVE  <<a, b, c, d, e>> = s \o t
<1>1. PICK z, w : z = s \o t /\ w = <<a, b, c, d, e>>
  OBVIOUS
<1>2. /\ IsList(s) /\ Len(s) = 3 /\ s[1] = a /\ s[2] = b /\ s[3] = c
      /\ IsList(t) /\ Len(t) = 2 /\ t[1] = d /\ t[2] = e
  BY TwoList, ThreeList
<1>3. IsList(w) /\ Len(w) = 5 /\ w[1] = a /\ w[2] = b /\ w[3] = c /\ w[4] = d /\ w[5] = e
  BY <1>1, FiveList
<1>4. Joins(z, s, t)
  BY <1>1, <1>2, ConcatJoins
<1>5. IsList(z) /\ Len(z) = 5 /\ z[1] = a /\ z[2] = b /\ z[3] = c /\ z[4] = d /\ z[5] = e
  BY <1>2, <1>4 DEF Joins
<1>6. \A i \in 1..5 : z[i] = w[i]
  <2>1. \A i \in 1..5 : i \in {1, 2, 3, 4, 5}
    OBVIOUS
  <2> QED BY <1>3, <1>5, <2>1
<1>7. z = w
  BY <1>3, <1>5, <1>6, SameList
<1> QED BY <1>1, <1>7

LEMMA LaidFive ==
    ASSUME NEW m, NEW a, NEW b, NEW c, NEW d, NEW e, NEW D, NEW E, NEW F,
           Laid(m, <<a, b, c>>, D, E), Laid(m, <<d, e>>, E, F)
    PROVE  Laid(m, <<a, b, c, d, e>>, D, F)
<1>1. PICK s, t, z, w : s = <<a, b, c>> /\ t = <<d, e>> /\ z = s \o t /\ w = <<a, b, c, d, e>>
  OBVIOUS
<1>2. Laid(m, z, D, F)
  BY <1>1, LaidThen
<1>3. w = z
  <2>1. s = <<a, b, c>> /\ t = <<d, e>>
    BY <1>1
  <2>2. <<a, b, c, d, e>> = s \o t
    BY <2>1, FiveJoin
  <2> QED BY <1>1, <2>2
<1> QED BY <1>1, <1>2, <1>3

\* Ops that read nothing of each other, and the concatenation of what they write.
LEMMA LaidJoin ==
    ASSUME NEW m, NEW P, IsList(P), NEW D, NEW args, NEW out,
           \A i \in DOMAIN P : Fits(m, P[i]) /\ Range(P[i].args) \subseteq D,
           1 \in DOMAIN args, \A i \in DOMAIN args : FracAt(m, args[i]) = FracAt(m, out),
           Range(args) \subseteq Outs(P)
    PROVE  Laid(m, P \o << Concat(args, out) >>, D, D \union {out})
<1>1. Laid(m, P, D, D \union Outs(P))
  BY LaidApart
<1>2. /\ Fits(m, Concat(args, out)) /\ Concat(args, out).args = args
      /\ Concat(args, out).out_buf = out
  BY ConcatFits
<1>3. Laid(m, << Concat(args, out) >>, D \union Outs(P), D \union {out})
  BY <1>2, LaidOne
<1> QED BY <1>1, <1>3, LaidThen

\* extract_cols keeps the frac of the rows it slices.
LEMMA LaidCols ==
    ASSUME NEW m \in Models, NEW src, NEW b, NEW name, NEW h, NEW width, NEW col, NEW len, NEW D,
           src \in D, name \notin {"n1", "n2", "z"}, FracAt(m, src) = WholeFrac(m, name)
    PROVE  Laid(m, ExtractCols(m, src, Buf(b, name, h), width, col, len), D, D \union {Buf(b, name, h)})
<1> DEFINE out == Buf(b, name, h)
           s == m.dims.s
           op(p) == Slice(src, Part(out, "row", p), (p - 1) * width + col, len)
           P == [p \in 1..s |-> op(p)]
           args == [p \in 1..s |-> Part(out, "row", p)]
<1>1. s \in Nat /\ 1 \in 1..s
  BY ModelFacts
<1>2. \A p \in 1..s : /\ Fits(m, op(p)) /\ Range(op(p).args) = {src}
                      /\ op(p).out_buf = Part(out, "row", p)
                      /\ FracAt(m, Part(out, "row", p)) = FracAt(m, out)
  <2> TAKE p \in 1..s
  <2>1. FracAt(m, Part(out, "row", p)) = WholeFrac(m, name) /\ FracAt(m, out) = WholeFrac(m, name)
    BY BufFracs
  <2> HIDE DEF out
  <2>2. PICK row, start : row = Part(out, "row", p) /\ start = (p - 1) * width + col
    OBVIOUS
  <2>3. FracAt(m, row) = FracAt(m, src)
    BY <2>1, <2>2
  <2>4. FitsOver(m, Slice(src, row, start, len), {src}, row)
    BY <2>3, SliceFits
  <2> QED BY <2>1, <2>2, <2>4 DEF FitsOver
<1>3. ExtractCols(m, src, out, width, col, len) = P \o << Concat(args, out) >>
  BY DEF ExtractCols
<1> HIDE DEF op, out
<1>4. IsList(P)
  <2>1. P = [p \in 1..s |-> P[p]]
    OBVIOUS
  <2> HIDE DEF P
  <2> QED BY <1>1, <2>1, MakeList
<1>5. /\ \A i \in DOMAIN P : Fits(m, P[i]) /\ Range(P[i].args) \subseteq D
      /\ 1 \in DOMAIN args /\ \A i \in DOMAIN args : FracAt(m, args[i]) = FracAt(m, out)
  <2>1. \A p \in 1..s : Fits(m, op(p)) /\ Range(op(p).args) \subseteq D
    BY <1>2
  <2>2. \A i \in DOMAIN P : Fits(m, P[i]) /\ Range(P[i].args) \subseteq D
    BY <2>1
  <2>3. 1 \in DOMAIN args /\ \A i \in DOMAIN args : FracAt(m, args[i]) = FracAt(m, out)
    BY <1>1, <1>2
  <2> HIDE DEF P, args
  <2> QED BY <2>2, <2>3
<1>6. Range(args) \subseteq Outs(P)
  BY <1>2 DEF Range, Outs
<1> HIDE DEF P, args
<1>7. Laid(m, P \o << Concat(args, out) >>, D, D \union {out})
  BY <1>4, <1>5, <1>6, LaidJoin
<1> QED BY <1>3, <1>7 DEF out

\* ln_per_pos: rows at the frac of their source, normalized to f_ln.
LEMMA LaidNorm ==
    ASSUME NEW m \in Models, Built(m), NEW x, NEW b, NEW name, NEW D, x \in D,
           FracAt(m, x) = IF name \in {"n1", "n2", "z"} THEN m.scheme.f_x ELSE m.scheme.f_ln,
           WholeFrac(m, name) = m.scheme.f_ln
    PROVE  Laid(m, LnPerPos(m, x, Buf(b, name, 0), Derived(m)), D, D \union {Buf(b, name, 0)})
<1> DEFINE out == Buf(b, name, 0)
           s == m.dims.s
           row(p) == Part(out, "row", p)
           norm(p) == Part(out, "norm", p)
           cut(p) == Slice(x, row(p), (p - 1) * m.dims.d, m.dims.d)
           ln(p) == Norm(row(p), norm(p), Derived(m).ln_shift)
           seqs == [p \in 1..s |-> << cut(p), ln(p) >>]
           args == [p \in 1..s |-> norm(p)]
           avail == [p \in 0..s |-> D \union { norm(i) : i \in 1..p }]
<1>1. s \in Nat /\ 1 \in 1..s
  BY ModelFacts
<1>2. /\ Derived(m).ln_shift = m.scheme.t_inv - m.scheme.f_ln /\ Derived(m).ln_shift >= 0
      /\ m.scheme.t_inv \in Int /\ m.scheme.f_ln \in Int
  BY DerivedFacts, SchemeInts
<1>3. \A p \in 1..s : /\ FracAt(m, row(p)) = FracAt(m, x) /\ FracAt(m, norm(p)) = m.scheme.f_ln
                      /\ FracAt(m, out) = m.scheme.f_ln
  BY BufFracs
<1>4. LnPerPos(m, x, out, Derived(m)) = FlattenSeq(seqs) \o << Concat(args, out) >>
  BY DEF LnPerPos
<1> HIDE DEF out, row, norm
<1>5. \A p \in 1..s : /\ Fits(m, cut(p)) /\ Range(cut(p).args) = {x} /\ cut(p).out_buf = row(p)
                      /\ Fits(m, ln(p)) /\ Range(ln(p).args) = {row(p)} /\ ln(p).out_buf = norm(p)
  <2> TAKE p \in 1..s
  <2>1. PICK r, z, start, d, shift :
            /\ r = row(p) /\ z = norm(p) /\ start = (p - 1) * m.dims.d /\ d = m.dims.d
            /\ shift = Derived(m).ln_shift
    OBVIOUS
  <2>2. /\ FracAt(m, r) = FracAt(m, x) /\ FracAt(m, z) = m.scheme.t_inv - shift /\ shift >= 0
    BY <1>2, <1>3, <2>1
  <2>3. FitsOver(m, Slice(x, r, start, d), {x}, r)
    BY <2>2, SliceFits
  <2>4. FitsOver(m, Norm(r, z, shift), {r}, z)
    BY <2>2, NormFits
  <2> QED BY <2>1, <2>3, <2>4 DEF FitsOver
<1> HIDE DEF cut, ln
<1>6. ASSUME NEW p \in 1..s PROVE Laid(m, seqs[p], avail[p - 1], avail[p])
  <2>1. /\ seqs[p] = << cut(p), ln(p) >>
        /\ avail[p - 1] = D \union { norm(i) : i \in 1..(p - 1) }
        /\ avail[p] = D \union { norm(i) : i \in 1..p }
    <3>1. seqs[p] = << cut(p), ln(p) >>
      OBVIOUS
    <3>2. p - 1 \in 0..s /\ p \in 0..s
      BY <1>1
    <3>3. \A i \in 0..s : avail[i] = D \union { norm(j) : j \in 1..i }
      OBVIOUS
    <3> HIDE DEF avail, seqs
    <3> QED BY <3>1, <3>2, <3>3
  <2>2. avail[p] \subseteq avail[p - 1] \union {norm(p)} /\ x \in avail[p - 1]
    <3>1. \A i \in 1..p : i \in 1..(p - 1) \/ i = p
      BY <1>1
    <3> QED BY <2>1, <3>1
  <2> HIDE DEF seqs, avail
  <2> QED BY <1>5, <2>1, <2>2, LaidTwo
<1>7. IsList(seqs) /\ Len(seqs) = s /\ DOMAIN seqs = 1..s
  <2>1. seqs = [p \in 1..s |-> seqs[p]]
    OBVIOUS
  <2> HIDE DEF seqs
  <2> QED BY <1>1, <2>1, MakeList, ListFacts
<1>8. avail[0] = D /\ avail[s] = D \union { norm(i) : i \in 1..s }
  <2>1. 0 \in 0..s /\ s \in 0..s /\ 1..0 = {}
    BY <1>1
  <2> QED BY <2>1
<1>9. Range(args) \subseteq avail[s] /\ 1 \in DOMAIN args /\ \A i \in DOMAIN args : FracAt(m, args[i]) = FracAt(m, out)
  BY <1>1, <1>3, <1>8 DEF Range
<1> HIDE DEF seqs, avail, args
<1>10. Laid(m, FlattenSeq(seqs), D, avail[s])
  BY <1>6, <1>7, <1>8, LaidFlat
<1>11. Laid(m, << Concat(args, out) >>, avail[s], D \union {out})
  <2>1. /\ Fits(m, Concat(args, out)) /\ Concat(args, out).args = args
        /\ Concat(args, out).out_buf = out
    BY <1>9, ConcatFits
  <2>2. D \union {out} \subseteq avail[s] \union {out}
    BY <1>8
  <2> QED BY <1>9, <2>1, <2>2, LaidOne
<1>12. Laid(m, FlattenSeq(seqs) \o << Concat(args, out) >>, D, D \union {out})
  BY <1>10, <1>11, LaidThen
<1> QED BY <1>4, <1>12 DEF out

\* A linear and its requantization.
LEMMA LaidProject ==
    ASSUME NEW m \in Models, Built(m), NEW b \in 1..Depth(m), NEW k \in 1..5, NEW in, NEW name, NEW D,
           in \in D,
           AccFrac(m, b, name) = FracAt(m, in) - m.scheme.w_log2[b][k],
           WholeFrac(m, name) = AccFrac(m, b, name) - Derived(m).blocks[b][k]
    PROVE  Laid(m, Project(m, b, k, in, Buf(b, name, 0), Derived(m)), D, D \union {Buf(b, name, 0)})
<1> DEFINE out == Buf(b, name, 0)
           acc == Part(out, "acc", 0)
           lin == Batched(m, b, k, in, acc)
           rq == Requant(acc, out, Derived(m).blocks[b][k])
<1>1. FracAt(m, acc) = AccFrac(m, b, name) /\ FracAt(m, out) = WholeFrac(m, name)
  BY BufFracs
<1>2. Project(m, b, k, in, out, Derived(m)) = << lin, rq >>
  BY DEF Project
<1>3. DeclaredLog2(m, WeightId(b, k)) = m.scheme.w_log2[b][k] /\ Derived(m).blocks[b][k] >= 0
  BY ScalesDeclared, DerivedFacts
<1> HIDE DEF out, acc
<1>4. FitsOver(m, lin, {in}, acc)
  <2>1. FracAt(m, acc) = FracAt(m, in) - DeclaredLog2(m, WeightId(b, k))
    BY <1>1, <1>3
  <2> QED BY <2>1, BatchedFits
<1>5. FitsOver(m, rq, {acc}, out)
  <2>1. PICK shift : shift = Derived(m).blocks[b][k]
    OBVIOUS
  <2>2. FracAt(m, out) = FracAt(m, acc) - shift /\ shift >= 0
    BY <1>1, <1>3, <2>1
  <2>3. FitsOver(m, Requant(acc, out, shift), {acc}, out)
    BY <2>2, RequantFits
  <2> QED BY <2>1, <2>3
<1> HIDE DEF lin, rq
<1>6. Laid(m, << lin, rq >>, D, D \union {out})
  BY <1>4, <1>5, LaidTwo DEF FitsOver
<1> QED BY <1>2, <1>6 DEF out

\* One attention head.
LEMMA LaidHead ==
    ASSUME NEW m \in Models, Built(m), NEW b, NEW h, NEW D,
           {Buf(b, "q", 0), Buf(b, "k", 0), Buf(b, "v", 0)} \subseteq D
    PROVE  Laid(m, HeadOps(m, b, h, Derived(m)), D, D \union {Buf(b, "oh", h)})
<1> DEFINE at(name) == Buf(b, name, h)
           qp == Derived(m)
           sc == m.scheme
           dh == m.dims.dh
           s == m.dims.s
           band(all, name) == ExtractCols(m, Buf(b, all, 0), at(name), Inner(m), (h - 1) * dh, dh)
           qk == MatMulOp(at("qh"), at("kh"), at("qk"), s, dh, s, TRUE)
           scores == Requant(at("qk"), at("scores"), qp.score_shift)
           prob == SoftmaxOp(at("scores"), at("prob"), s, qp.softmax_one)
           pv == MatMulOp(at("prob"), at("vh"), at("pv"), s, s, dh, FALSE)
           oh == Requant(at("pv"), at("oh"), qp.oh_shift)
<1>1. \A name, i : FracAt(m, Buf(b, name, i)) = WholeFrac(m, name)
  BY WholeAt
<1>2. /\ sc.f_qkv \in Int /\ sc.f_score \in Int /\ sc.f_p \in Int /\ sc.f_att \in Int
      /\ HalfLog2(dh) \in Int
  BY SchemeInts, ModelFacts
<1>3. /\ qp.score_shift = 2 * sc.f_qkv + HalfLog2(dh) - sc.f_score /\ qp.score_shift >= 0
      /\ qp.oh_shift = sc.f_p + sc.f_qkv - sc.f_att /\ qp.oh_shift >= 0
      /\ qp.softmax_one = 2^sc.f_p
  BY DerivedFacts
<1>4. HeadOps(m, b, h, qp) = band("q", "qh") \o band("k", "kh") \o band("v", "vh")
                             \o << qk, scores, prob, pv, oh >>
  BY DEF HeadOps
<1>5. /\ FracAt(m, at("qh")) = sc.f_qkv /\ FracAt(m, at("kh")) = sc.f_qkv
      /\ FracAt(m, at("vh")) = sc.f_qkv
      /\ FracAt(m, at("qk")) = 2 * sc.f_qkv + HalfLog2(dh) /\ FracAt(m, at("scores")) = sc.f_score
      /\ FracAt(m, at("prob")) = sc.f_p /\ FracAt(m, at("pv")) = sc.f_p + sc.f_qkv
      /\ FracAt(m, at("oh")) = sc.f_att
  BY <1>1, NameFracs
<1> DEFINE D1 == D \union {at("qh")}
           D2 == D1 \union {at("kh")}
           D3 == D2 \union {at("vh")}
           D4 == D3 \union {at("qk"), at("scores"), at("prob")}
           D5 == D4 \union {at("pv"), at("oh")}
<1>6. /\ Laid(m, band("q", "qh"), D, D1)
      /\ Laid(m, band("k", "kh"), D1, D2)
      /\ Laid(m, band("v", "vh"), D2, D3)
  <2>1. /\ FracAt(m, Buf(b, "q", 0)) = WholeFrac(m, "qh")
        /\ FracAt(m, Buf(b, "k", 0)) = WholeFrac(m, "kh")
        /\ FracAt(m, Buf(b, "v", 0)) = WholeFrac(m, "vh")
    BY <1>1, NameFracs
  <2>2. PICK width, col : width = Inner(m) /\ col = (h - 1) * dh
    OBVIOUS
  <2>3. \A all, name, A : /\ Buf(b, all, 0) \in A /\ name \notin {"n1", "n2", "z"}
                          /\ FracAt(m, Buf(b, all, 0)) = WholeFrac(m, name)
            => Laid(m, ExtractCols(m, Buf(b, all, 0), Buf(b, name, h), width, col, dh), A,
                    A \union {Buf(b, name, h)})
    BY LaidCols
  <2>4. Buf(b, "q", 0) \in D /\ Buf(b, "k", 0) \in D1 /\ Buf(b, "v", 0) \in D2
    OBVIOUS
  <2> HIDE DEF dh
  <2>5. Laid(m, band("q", "qh"), D, D1)
    BY <2>1, <2>2, <2>3, <2>4
  <2>6. Laid(m, band("k", "kh"), D1, D2)
    <3> HIDE DEF D1
    <3> QED BY <2>1, <2>2, <2>3, <2>4
  <2>7. Laid(m, band("v", "vh"), D2, D3)
    <3> HIDE DEF D2
    <3> QED BY <2>1, <2>2, <2>3, <2>4
  <2> QED BY <2>5, <2>6, <2>7
<1> HIDE DEF at, qp, sc, dh, s
<1>7. FitsOver(m, qk, {at("qh"), at("kh")}, at("qk"))
  <2>1. FracAt(m, at("qk")) = FracAt(m, at("qh")) + FracAt(m, at("kh"))
                              + (IF TRUE THEN HalfLog2(m.dims.dh) ELSE 0)
    BY <1>2, <1>5 DEF dh
  <2> QED BY <2>1, MatMulFits, TRUE \in BOOLEAN
<1>8. FitsOver(m, scores, {at("qk")}, at("scores"))
  <2>1. FracAt(m, at("scores")) = FracAt(m, at("qk")) - qp.score_shift
    BY <1>2, <1>3, <1>5
  <2> QED BY <1>3, <2>1, RequantFits
<1>9. FitsOver(m, prob, {at("scores")}, at("prob"))
  BY <1>3, <1>5, SoftmaxFits DEF sc
<1>10. FitsOver(m, pv, {at("prob"), at("vh")}, at("pv"))
  <2>1. FracAt(m, at("pv")) = FracAt(m, at("prob")) + FracAt(m, at("vh"))
                              + (IF FALSE THEN HalfLog2(m.dims.dh) ELSE 0)
    BY <1>2, <1>5
  <2> QED BY <2>1, MatMulFits, FALSE \in BOOLEAN
<1>11. FitsOver(m, oh, {at("pv")}, at("oh"))
  <2>1. FracAt(m, at("oh")) = FracAt(m, at("pv")) - qp.oh_shift
    BY <1>2, <1>3, <1>5
  <2> QED BY <1>3, <2>1, RequantFits
<1> HIDE DEF qk, scores, prob, pv, oh, band
<1>12. Laid(m, << qk, scores, prob >>, D3, D4)
  BY <1>7, <1>8, <1>9, LaidThree DEF FitsOver
<1>13. Laid(m, << pv, oh >>, D4, D5)
  BY <1>10, <1>11, LaidTwo DEF FitsOver
<1>14. D \union {at("oh")} \subseteq D5
  OBVIOUS
<1> HIDE DEF D1, D2, D3, D4, D5
<1>15. Laid(m, << qk, scores, prob, pv, oh >>, D3, D5)
  BY <1>12, <1>13, LaidFive
<1>16. Laid(m, band("q", "qh") \o band("k", "kh"), D, D2)
  BY <1>6, LaidThen
<1>17. Laid(m, band("q", "qh") \o band("k", "kh") \o band("v", "vh"), D, D3)
  BY <1>6, <1>16, LaidThen
<1>18. Laid(m, HeadOps(m, b, h, qp), D, D5)
  BY <1>4, <1>15, <1>17, LaidThen
<1>19. Laid(m, HeadOps(m, b, h, qp), D, D \union {at("oh")})
  BY <1>14, <1>18, LaidMore
<1> QED BY <1>19 DEF at, qp

\* The slices of all heads, position by position.
LEMMA LaidHeads ==
    ASSUME NEW m \in Models, NEW b, NEW D, \A h \in 1..m.dims.h : Buf(b, "oh", h) \in D
    PROVE  Laid(m, JoinHeads(m, b), D, D \union {Buf(b, "attn_cat", 0)})
<1> DEFINE H == m.dims.h
           pos(e) == ((e - 1) \div H) + 1
           head(e) == ((e - 1) % H) + 1
           part(e) == Part(Buf(b, "oh", head(e)), "part", pos(e))
           places == 1..(m.dims.s * H)
           op(e) == Slice(Buf(b, "oh", head(e)), part(e), (pos(e) - 1) * m.dims.dh, m.dims.dh)
           P == [e \in places |-> op(e)]
           args == [e \in places |-> part(e)]
           out == Buf(b, "attn_cat", 0)
<1>1. /\ m.dims.s \in Nat /\ H \in Nat /\ m.dims.s * H \in Nat /\ 1 \in places
  <2>1. m.dims.s \in Nat /\ H \in Nat /\ m.dims.s # 0 /\ H # 0
    BY ModelFacts
  <2>2. 1 \in 1..m.dims.s /\ 1 \in 1..H
    BY <2>1
  <2>3. (1 - 1) * H + 1 \in 1..(m.dims.s * H)
    BY <2>1, <2>2, CellIndex
  <2>4. (1 - 1) * H = 0
    BY <2>1
  <2> QED BY <2>1, <2>3, <2>4
<1>2. JoinHeads(m, b) = P \o << Concat(args, out) >>
  BY DEF JoinHeads
<1>3. \A e \in places : head(e) \in 1..H
  BY <1>1, RowIndex
<1>4. FracAt(m, out) = m.scheme.f_att
  <2>1. FracAt(m, out) = WholeFrac(m, "attn_cat")
    BY WholeAt
  <2> QED BY <2>1, NameFracs
<1> HIDE DEF out
<1>5. \A e \in places : /\ FitsOver(m, op(e), {Buf(b, "oh", head(e))}, part(e))
                        /\ FracAt(m, part(e)) = FracAt(m, out) /\ Buf(b, "oh", head(e)) \in D
  <2> SUFFICES ASSUME NEW e \in places
               PROVE  /\ FitsOver(m, op(e), {Buf(b, "oh", head(e))}, part(e))
                      /\ FracAt(m, part(e)) = FracAt(m, out) /\ Buf(b, "oh", head(e)) \in D
    OBVIOUS
  <2>1. PICK h, p, start, len : /\ h = head(e) /\ p = pos(e)
                                /\ start = (pos(e) - 1) * m.dims.dh /\ len = m.dims.dh
    OBVIOUS
  <2> DEFINE src == Buf(b, "oh", h)
             to == Part(src, "part", p)
  <2>2. h \in 1..H
    BY <1>3, <2>1
  <2> HIDE DEF head, pos, H
  <2>3. FracAt(m, to) = m.scheme.f_att /\ FracAt(m, src) = m.scheme.f_att
    <3>1. FracAt(m, to) = WholeFrac(m, "oh") /\ FracAt(m, src) = WholeFrac(m, "oh")
      BY BufFracs
    <3> QED BY <3>1, NameFracs
  <2>4. src \in D
    BY <2>2 DEF H
  <2> HIDE DEF src
  <2>5. PICK t : t = to
    OBVIOUS
  <2>6. FracAt(m, t) = FracAt(m, src)
    BY <2>3, <2>5
  <2>7. FitsOver(m, Slice(src, t, start, len), {src}, t)
    BY <2>6, SliceFits
  <2>8. part(e) = t /\ Buf(b, "oh", head(e)) = src /\ op(e) = Slice(src, t, start, len)
    BY <2>1, <2>5 DEF src
  <2> HIDE DEF part, op
  <2> QED BY <1>4, <2>3, <2>4, <2>5, <2>7, <2>8
<1> HIDE DEF op, part, head, pos, H
<1>6. IsList(P)
  <2>1. P = [e \in places |-> P[e]]
    OBVIOUS
  <2> HIDE DEF P
  <2> QED BY <1>1, <2>1, MakeList
<1>7. /\ \A i \in DOMAIN P : Fits(m, P[i]) /\ Range(P[i].args) \subseteq D
      /\ 1 \in DOMAIN args /\ \A i \in DOMAIN args : FracAt(m, args[i]) = FracAt(m, out)
  <2>1. \A e \in places : Fits(m, op(e)) /\ Range(op(e).args) \subseteq D
    BY <1>5 DEF FitsOver
  <2>2. \A e \in places : FracAt(m, part(e)) = FracAt(m, out)
    BY <1>5
  <2> HIDE DEF places
  <2>3. \A i \in DOMAIN P : Fits(m, P[i]) /\ Range(P[i].args) \subseteq D
    BY <2>1
  <2>4. 1 \in DOMAIN args /\ \A i \in DOMAIN args : FracAt(m, args[i]) = FracAt(m, out)
    BY <1>1, <2>2
  <2> QED BY <2>3, <2>4
<1>8. Range(args) \subseteq Outs(P)
  BY <1>5 DEF Range, Outs, FitsOver
<1> HIDE DEF P, args
<1>9. Laid(m, P \o << Concat(args, out) >>, D, D \union {out})
  BY <1>6, <1>7, <1>8, LaidJoin
<1> QED BY <1>2, <1>9 DEF out

\* x + gate * sublayer, at the frac of the stream.
LEMMA LaidResidual ==
    ASSUME NEW m \in Models, NEW x, NEW gate, NEW sub, NEW gated, NEW sum, NEW out, NEW bits, NEW D,
           {x, gate, sub} \subseteq D, bits >= 0, m.scheme.f_x \in Int,
           FracAt(m, x) = m.scheme.f_x, FracAt(m, gated) = m.scheme.f_x,
           FracAt(m, sum) = m.scheme.f_x, FracAt(m, out) = m.scheme.f_x,
           m.scheme.f_x = FracAt(m, gate) + FracAt(m, sub) - bits
    PROVE  Laid(m, Residual(x, gate, sub, gated, sum, out, bits), D, D \union {out})
<1> DEFINE g == Gate(gate, sub, gated, bits)
           a == Add(x, gated, sum)
           r == Requant(sum, out, 0)
<1>1. FitsOver(m, g, {gate, sub}, gated)
  <2>1. FracAt(m, gated) = FracAt(m, gate) + FracAt(m, sub) - bits
    OBVIOUS
  <2> QED BY <2>1, GateFits
<1>2. FitsOver(m, a, {x, gated}, sum)
  BY AddFits
<1>3. FitsOver(m, r, {sum}, out)
  <2>1. PICK zero \in Nat : zero = 0
    OBVIOUS
  <2>2. FracAt(m, out) = FracAt(m, sum) - zero /\ zero >= 0
    BY <2>1
  <2>3. FitsOver(m, Requant(sum, out, zero), {sum}, out)
    BY <2>2, RequantFits
  <2> QED BY <2>1, <2>3
<1>4. Residual(x, gate, sub, gated, sum, out, bits) = << g, a, r >>
  BY DEF Residual
<1> HIDE DEF g, a, r
<1>5. Laid(m, << g, a, r >>, D, D \union {out})
  BY <1>1, <1>2, <1>3, LaidThree DEF FitsOver
<1> QED BY <1>4, <1>5

LEMMA LaidAllHeads ==
    ASSUME NEW m \in Models, Built(m), NEW b, NEW D,
           {Buf(b, "q", 0), Buf(b, "k", 0), Buf(b, "v", 0)} \subseteq D
    PROVE  Laid(m, FlattenSeq([h \in 1..m.dims.h |-> HeadOps(m, b, h, Derived(m))]), D,
                D \union { Buf(b, "oh", h) : h \in 1..m.dims.h })
<1> DEFINE H == m.dims.h
           oh(h) == Buf(b, "oh", h)
           headOps(h) == HeadOps(m, b, h, Derived(m))
           seqs == [h \in 1..H |-> headOps(h)]
           avail == [h \in 0..H |-> D \union { oh(i) : i \in 1..h }]
<1>1. H \in Nat
  BY ModelFacts
<1>2. IsList(seqs) /\ Len(seqs) = H /\ DOMAIN seqs = 1..H
  <2>1. seqs = [h \in 1..H |-> seqs[h]]
    OBVIOUS
  <2> HIDE DEF seqs
  <2> QED BY <1>1, <2>1, MakeList, ListFacts
<1>3. \A i \in 0..H : avail[i] = D \union { oh(j) : j \in 1..i }
  OBVIOUS
<1>4. ASSUME NEW h \in 1..H PROVE Laid(m, seqs[h], avail[h - 1], avail[h])
  <2>1. seqs[h] = headOps(h)
    OBVIOUS
  <2>2. h - 1 \in 0..H /\ h \in 0..H /\ \A i \in 1..h : i \in 1..(h - 1) \/ i = h
    BY <1>1
  <2>3. {Buf(b, "q", 0), Buf(b, "k", 0), Buf(b, "v", 0)} \subseteq avail[h - 1]
    BY <1>3, <2>2
  <2>4. avail[h] \subseteq (avail[h - 1] \union {oh(h)}) \union avail[h - 1]
    <3> HIDE DEF avail, oh
    <3> QED BY <1>3, <2>2
  <2> HIDE DEF avail, seqs
  <2>5. Laid(m, headOps(h), avail[h - 1], avail[h - 1] \union {oh(h)})
    BY <2>3, LaidHead
  <2> HIDE DEF headOps, oh
  <2>6. Laid(m, headOps(h), avail[h - 1], avail[h])
    BY <2>4, <2>5, LaidMore
  <2> QED BY <2>1, <2>6
<1>5. avail[0] = D /\ avail[H] = D \union { oh(i) : i \in 1..H }
  <2>1. 0 \in 0..H /\ H \in 0..H /\ 1..0 = {}
    BY <1>1
  <2> HIDE DEF avail
  <2>2. avail[H] = D \union { oh(i) : i \in 1..H }
    BY <1>3, <2>1
  <2>3. avail[0] = D \union { oh(i) : i \in 1..0 }
    BY <1>3, <2>1
  <2> QED BY <2>1, <2>2, <2>3
<1> HIDE DEF seqs, avail
<1>6. Laid(m, FlattenSeq(seqs), D, avail[H])
  BY <1>2, <1>4, <1>5, LaidFlat
<1> QED BY <1>5, <1>6 DEF seqs

\* The attention sublayer.
LEMMA LaidAttn ==
    ASSUME NEW m \in Models, Built(m), NEW b \in 1..Depth(m), NEW x, NEW D, x \in D,
           FracAt(m, x) = m.scheme.f_ln
    PROVE  Laid(m, Attn(m, b, x, Derived(m)), D, D \union {Buf(b, "a", 0)})
<1> DEFINE at(name) == Buf(b, name, 0)
           qp == Derived(m)
           sc == m.scheme
           third(j, name) == ExtractCols(m, at("qkv"), at(name), 3 * Inner(m), j * Inner(m), Inner(m))
           P1 == LnPerPos(m, x, at("a0"), qp)
           P2 == Project(m, b, 2, at("a0"), at("qkv"), qp)
           P3 == third(0, "q")
           P4 == third(1, "k")
           P5 == third(2, "v")
           P6 == FlattenSeq([h \in 1..m.dims.h |-> HeadOps(m, b, h, qp)])
           P7 == JoinHeads(m, b)
           P8 == Project(m, b, 3, at("attn_cat"), at("a"), qp)
           D1 == D \union {at("a0")}
           D2 == D1 \union {at("qkv")}
           D3 == D2 \union {at("q")}
           D4 == D3 \union {at("k")}
           D5 == D4 \union {at("v")}
           D6 == D5 \union { Buf(b, "oh", h) : h \in 1..m.dims.h }
           D7 == D6 \union {at("attn_cat")}
           D8 == D7 \union {at("a")}
<1>1. Attn(m, b, x, qp) = P1 \o P2 \o P3 \o P4 \o P5 \o P6 \o P7 \o P8
  BY DEF Attn
<1>2. \A name, h : FracAt(m, Buf(b, name, h)) = WholeFrac(m, name)
  BY WholeAt
<1>3. /\ sc.f_ln \in Int /\ sc.f_qkv \in Int /\ sc.f_att \in Int /\ sc.f_a \in Int
      /\ sc.w_log2[b][2] \in Int /\ sc.w_log2[b][3] \in Int
  BY SchemeInts, BuiltDepth
<1>4. /\ qp.blocks[b][2] = sc.f_ln - sc.w_log2[b][2] - sc.f_qkv
      /\ qp.blocks[b][3] = sc.f_att - sc.w_log2[b][3] - sc.f_a
  BY DerivedFacts
<1>5. Laid(m, P1, D, D1)
  <2>1. WholeFrac(m, "a0") = m.scheme.f_ln
    BY NameFracs
  <2>2. FracAt(m, x) = IF "a0" \in {"n1", "n2", "z"} THEN m.scheme.f_x ELSE m.scheme.f_ln
    OBVIOUS
  <2> QED BY <2>1, <2>2, LaidNorm
<1>6. Laid(m, P2, D1, D2)
  <2>1. at("a0") \in D1
    OBVIOUS
  <2> HIDE DEF D1
  <2>2. /\ FracAt(m, at("a0")) = sc.f_ln /\ AccFrac(m, b, "qkv") = sc.f_ln - sc.w_log2[b][2]
        /\ WholeFrac(m, "qkv") = sc.f_qkv
    BY <1>2, NameFracs, AccFracs
  <2>3. AccFrac(m, b, "qkv") = FracAt(m, at("a0")) - m.scheme.w_log2[b][2]
    BY <2>2
  <2>4. WholeFrac(m, "qkv") = AccFrac(m, b, "qkv") - Derived(m).blocks[b][2]
    BY <1>3, <1>4, <2>2
  <2> QED BY <2>1, <2>3, <2>4, 2 \in 1..5, LaidProject
<1>7. Laid(m, P3, D2, D3) /\ Laid(m, P4, D3, D4) /\ Laid(m, P5, D4, D5)
  <2>1. at("qkv") \in D2 /\ at("qkv") \in D3 /\ at("qkv") \in D4
    OBVIOUS
  <2>2. /\ FracAt(m, at("qkv")) = WholeFrac(m, "q") /\ FracAt(m, at("qkv")) = WholeFrac(m, "k")
        /\ FracAt(m, at("qkv")) = WholeFrac(m, "v")
    BY <1>2, NameFracs
  <2>3. PICK width, c0, c1, c2, len : /\ width = 3 * Inner(m) /\ len = Inner(m)
                                      /\ c0 = 0 * Inner(m) /\ c1 = 1 * Inner(m) /\ c2 = 2 * Inner(m)
    OBVIOUS
  <2>4. Laid(m, ExtractCols(m, at("qkv"), at("q"), width, c0, len), D2, D3)
    <3> HIDE DEF D2
    <3> QED BY <2>1, <2>2, LaidCols
  <2>5. Laid(m, ExtractCols(m, at("qkv"), at("k"), width, c1, len), D3, D4)
    <3> HIDE DEF D3
    <3> QED BY <2>1, <2>2, LaidCols
  <2>6. Laid(m, ExtractCols(m, at("qkv"), at("v"), width, c2, len), D4, D5)
    <3> HIDE DEF D4
    <3> QED BY <2>1, <2>2, LaidCols
  <2> HIDE DEF D2, D3, D4, D5
  <2> QED BY <2>3, <2>4, <2>5, <2>6
<1>8. Laid(m, P6, D5, D6)
  <2>1. {Buf(b, "q", 0), Buf(b, "k", 0), Buf(b, "v", 0)} \subseteq D5
    OBVIOUS
  <2> HIDE DEF D5
  <2> QED BY <2>1, LaidAllHeads
<1>9. Laid(m, P7, D6, D7)
  <2>1. \A h \in 1..m.dims.h : Buf(b, "oh", h) \in D6
    OBVIOUS
  <2> HIDE DEF D6
  <2> QED BY <2>1, LaidHeads
<1>10. Laid(m, P8, D7, D8)
  <2>1. at("attn_cat") \in D7
    OBVIOUS
  <2> HIDE DEF D7
  <2>2. /\ FracAt(m, at("attn_cat")) = sc.f_att /\ AccFrac(m, b, "a") = sc.f_att - sc.w_log2[b][3]
        /\ WholeFrac(m, "a") = sc.f_a
    BY <1>2, NameFracs, AccFracs
  <2>3. AccFrac(m, b, "a") = FracAt(m, at("attn_cat")) - m.scheme.w_log2[b][3]
    BY <2>2
  <2>4. WholeFrac(m, "a") = AccFrac(m, b, "a") - Derived(m).blocks[b][3]
    BY <1>3, <1>4, <2>2
  <2> QED BY <2>1, <2>3, <2>4, 3 \in 1..5, LaidProject
<1>11. D \union {at("a")} \subseteq D8
  OBVIOUS
<1> HIDE DEF P1, P2, P3, P4, P5, P6, P7, P8, D1, D2, D3, D4, D5, D6, D7, D8, at, qp
<1>12. Laid(m, P1 \o P2, D, D2)
  BY <1>5, <1>6, LaidThen
<1>13. Laid(m, P1 \o P2 \o P3, D, D3)
  BY <1>7, <1>12, LaidThen
<1>14. Laid(m, P1 \o P2 \o P3 \o P4, D, D4)
  BY <1>7, <1>13, LaidThen
<1>15. Laid(m, P1 \o P2 \o P3 \o P4 \o P5, D, D5)
  BY <1>7, <1>14, LaidThen
<1>16. Laid(m, P1 \o P2 \o P3 \o P4 \o P5 \o P6, D, D6)
  BY <1>8, <1>15, LaidThen
<1>17. Laid(m, P1 \o P2 \o P3 \o P4 \o P5 \o P6 \o P7, D, D7)
  BY <1>9, <1>16, LaidThen
<1>18. Laid(m, P1 \o P2 \o P3 \o P4 \o P5 \o P6 \o P7 \o P8, D, D8)
  BY <1>10, <1>17, LaidThen
<1>19. Laid(m, Attn(m, b, x, qp), D, D \union {at("a")})
  BY <1>1, <1>11, <1>18, LaidMore
<1> QED BY <1>19 DEF at, qp

\* The feed-forward sublayer.
LEMMA LaidFfn ==
    ASSUME NEW m \in Models, Built(m), NEW b \in 1..Depth(m), NEW x, NEW D, x \in D,
           FracAt(m, x) = m.scheme.f_ln
    PROVE  Laid(m, Ffn(m, b, x, Derived(m)), D, D \union {Buf(b, "f", 0)})
<1> DEFINE at(name) == Buf(b, name, 0)
           qp == Derived(m)
           sc == m.scheme
           P1 == LnPerPos(m, x, at("f0"), qp)
           P2 == Project(m, b, 4, at("f0"), at("h1"), qp)
           P3 == << Activate(TableGelu, at("h1"), at("g")) >>
           P4 == Project(m, b, 5, at("g"), at("f"), qp)
           D1 == D \union {at("f0")}
           D2 == D1 \union {at("h1")}
           D3 == D2 \union {at("g")}
           D4 == D3 \union {at("f")}
<1>1. Ffn(m, b, x, qp) = P1 \o P2 \o P3 \o P4
  BY DEF Ffn
<1>2. \A name, h : FracAt(m, Buf(b, name, h)) = WholeFrac(m, name)
  BY WholeAt
<1>3. /\ sc.f_ln \in Int /\ sc.f_g1 \in Int /\ sc.f_g2 \in Int /\ sc.f_f \in Int
      /\ sc.w_log2[b][4] \in Int /\ sc.w_log2[b][5] \in Int
  BY SchemeInts, BuiltDepth
<1>4. /\ qp.blocks[b][4] = sc.f_ln - sc.w_log2[b][4] - sc.f_g1
      /\ qp.blocks[b][5] = sc.f_g2 - sc.w_log2[b][5] - sc.f_f
  BY DerivedFacts
<1>5. Laid(m, P1, D, D1)
  <2>1. WholeFrac(m, "f0") = m.scheme.f_ln
    BY NameFracs
  <2>2. FracAt(m, x) = IF "f0" \in {"n1", "n2", "z"} THEN m.scheme.f_x ELSE m.scheme.f_ln
    OBVIOUS
  <2> QED BY <2>1, <2>2, LaidNorm
<1>6. Laid(m, P2, D1, D2)
  <2>1. at("f0") \in D1
    OBVIOUS
  <2> HIDE DEF D1
  <2>2. /\ FracAt(m, at("f0")) = sc.f_ln /\ AccFrac(m, b, "h1") = sc.f_ln - sc.w_log2[b][4]
        /\ WholeFrac(m, "h1") = sc.f_g1
    BY <1>2, NameFracs, AccFracs
  <2>3. AccFrac(m, b, "h1") = FracAt(m, at("f0")) - m.scheme.w_log2[b][4]
    BY <2>2
  <2>4. WholeFrac(m, "h1") = AccFrac(m, b, "h1") - Derived(m).blocks[b][4]
    BY <1>3, <1>4, <2>2
  <2> QED BY <2>1, <2>3, <2>4, 4 \in 1..5, LaidProject
<1>7. Laid(m, P3, D2, D3)
  <2>1. at("h1") \in D2
    OBVIOUS
  <2>2. FracAt(m, at("h1")) = sc.f_g1 /\ FracAt(m, at("g")) = sc.f_g2
    BY <1>2, NameFracs
  <2>3. FitsOver(m, Activate(TableGelu, at("h1"), at("g")), {at("h1")}, at("g"))
    BY <2>2, ActivateFits
  <2> HIDE DEF at, D2
  <2> QED BY <2>1, <2>3, LaidOne DEF FitsOver
<1>8. Laid(m, P4, D3, D4)
  <2>1. at("g") \in D3
    OBVIOUS
  <2> HIDE DEF D3
  <2>2. /\ FracAt(m, at("g")) = sc.f_g2 /\ AccFrac(m, b, "f") = sc.f_g2 - sc.w_log2[b][5]
        /\ WholeFrac(m, "f") = sc.f_f
    BY <1>2, NameFracs, AccFracs
  <2>3. AccFrac(m, b, "f") = FracAt(m, at("g")) - m.scheme.w_log2[b][5]
    BY <2>2
  <2>4. WholeFrac(m, "f") = AccFrac(m, b, "f") - Derived(m).blocks[b][5]
    BY <1>3, <1>4, <2>2
  <2> QED BY <2>1, <2>3, <2>4, 5 \in 1..5, LaidProject
<1>9. D \union {at("f")} \subseteq D4
  OBVIOUS
<1> HIDE DEF P1, P2, P3, P4, D1, D2, D3, D4, at, qp
<1>10. Laid(m, P1 \o P2, D, D2)
  BY <1>5, <1>6, LaidThen
<1>11. Laid(m, P1 \o P2 \o P3, D, D3)
  BY <1>7, <1>10, LaidThen
<1>12. Laid(m, P1 \o P2 \o P3 \o P4, D, D4)
  BY <1>8, <1>11, LaidThen
<1>13. Laid(m, Ffn(m, b, x, qp), D, D \union {at("f")})
  BY <1>1, <1>9, <1>12, LaidMore
<1> QED BY <1>13 DEF at, qp

\* A block, from the stream before it and the conditioning to the stream after it.
LEMMA LaidBlock ==
    ASSUME NEW m \in Models, Built(m), NEW b \in 1..Depth(m), NEW x, NEW D, x \in D, BufC \in D,
           FracAt(m, x) = m.scheme.f_x
    PROVE  Laid(m, ConditionalBlock(m, b, x, Derived(m)), D, D \union {Buf(b, "x", 0)})
<1> DEFINE at(name) == Buf(b, name, 0)
           qp == Derived(m)
           sc == m.scheme
           d == m.dims.d
           chunk(j, name) == ExtractCols(m, at("adaln"), at(name), 6 * d, j * d, d)
           P1 == << Activate(TableSilu, BufC, at("silu_c")) >>
           P2 == Project(m, b, 1, at("silu_c"), at("adaln"), qp)
           P3 == chunk(0, "shift_msa")
           P4 == chunk(1, "scale_msa")
           P5 == chunk(2, "gate_msa")
           P6 == chunk(3, "shift_mlp")
           P7 == chunk(4, "scale_mlp")
           P8 == chunk(5, "gate_mlp")
           P9 == LnPerPos(m, x, at("n1"), qp)
           P10 == << Modulate(at("n1"), at("scale_msa"), at("shift_msa"), at("m1"), qp) >>
           P11 == Attn(m, b, at("m1"), qp)
           P12 == Residual(x, at("gate_msa"), at("a"), at("g1"), at("sum1"), at("x1"), qp.gate_msa_bits)
           P13 == LnPerPos(m, at("x1"), at("n2"), qp)
           P14 == << Modulate(at("n2"), at("scale_mlp"), at("shift_mlp"), at("m2"), qp) >>
           P15 == Ffn(m, b, at("m2"), qp)
           P16 == Residual(at("x1"), at("gate_mlp"), at("f"), at("g2"), at("sum2"), at("x"), qp.gate_mlp_bits)
           D1 == D \union {at("silu_c")}
           D2 == D1 \union {at("adaln")}
           D3 == D2 \union {at("shift_msa")}
           D4 == D3 \union {at("scale_msa")}
           D5 == D4 \union {at("gate_msa")}
           D6 == D5 \union {at("shift_mlp")}
           D7 == D6 \union {at("scale_mlp")}
           D8 == D7 \union {at("gate_mlp")}
           D9 == D8 \union {at("n1")}
           D10 == D9 \union {at("m1")}
           D11 == D10 \union {at("a")}
           D12 == D11 \union {at("x1")}
           D13 == D12 \union {at("n2")}
           D14 == D13 \union {at("m2")}
           D15 == D14 \union {at("f")}
           D16 == D15 \union {at("x")}
           T2 == P1 \o P2
           T3 == T2 \o P3
           T4 == T3 \o P4
           T5 == T4 \o P5
           T6 == T5 \o P6
           T7 == T6 \o P7
           T8 == T7 \o P8
           T9 == T8 \o P9
           T10 == T9 \o P10
           T11 == T10 \o P11
           T12 == T11 \o P12
           T13 == T12 \o P13
           T14 == T13 \o P14
           T15 == T14 \o P15
           T16 == T15 \o P16
<1>1. ConditionalBlock(m, b, x, qp) = T16
  BY DEF ConditionalBlock
<1>2. \A name, h, i : FracAt(m, Buf(i, name, h)) = WholeFrac(m, name)
  BY WholeAt
<1>3. /\ sc.f_ln \in Int /\ sc.f_c \in Int /\ sc.f_x \in Int /\ sc.f_a \in Int /\ sc.f_f \in Int
      /\ sc.w_log2[b][1] \in Int
  BY SchemeInts, BuiltDepth
<1>4. /\ qp.blocks[b][1] = sc.f_c - sc.w_log2[b][1] - sc.f_ln
      /\ qp.mod_bits = sc.f_ln /\ qp.mod_one = 2^sc.f_ln
      /\ qp.gate_msa_bits = sc.f_ln + sc.f_a - sc.f_x /\ qp.gate_msa_bits >= 0
      /\ qp.gate_mlp_bits = sc.f_ln + sc.f_f - sc.f_x /\ qp.gate_mlp_bits >= 0
  BY DerivedFacts
<1>5. Laid(m, P1, D, D1)
  <2>1. FracAt(m, BufC) = sc.f_c /\ FracAt(m, at("silu_c")) = sc.f_c
    BY <1>2, NameFracs DEF BufC
  <2>2. FitsOver(m, Activate(TableSilu, BufC, at("silu_c")), {BufC}, at("silu_c"))
    BY <2>1, ActivateFits
  <2> HIDE DEF at
  <2> QED BY <2>2, LaidOne DEF FitsOver
<1>6. Laid(m, P2, D1, D2)
  <2>1. at("silu_c") \in D1
    OBVIOUS
  <2> HIDE DEF D1
  <2>2. /\ FracAt(m, at("silu_c")) = sc.f_c /\ AccFrac(m, b, "adaln") = sc.f_c - sc.w_log2[b][1]
        /\ WholeFrac(m, "adaln") = sc.f_ln
    BY <1>2, NameFracs, AccFracs
  <2>3. AccFrac(m, b, "adaln") = FracAt(m, at("silu_c")) - m.scheme.w_log2[b][1]
    BY <2>2
  <2>4. WholeFrac(m, "adaln") = AccFrac(m, b, "adaln") - Derived(m).blocks[b][1]
    BY <1>3, <1>4, <2>2
  <2> QED BY <2>1, <2>3, <2>4, 1 \in 1..5, LaidProject
<1>7. /\ Laid(m, P3, D2, D3) /\ Laid(m, P4, D3, D4) /\ Laid(m, P5, D4, D5)
      /\ Laid(m, P6, D5, D6) /\ Laid(m, P7, D6, D7) /\ Laid(m, P8, D7, D8)
  <2>1. /\ at("adaln") \in D2 /\ at("adaln") \in D3 /\ at("adaln") \in D4
        /\ at("adaln") \in D5 /\ at("adaln") \in D6 /\ at("adaln") \in D7
    OBVIOUS
  <2>2. FracAt(m, at("adaln")) = sc.f_ln
    BY <1>2, NameFracs
  <2>3. ASSUME NEW j, NEW A, at("adaln") \in A,
               NEW name \in {"shift_msa", "scale_msa", "gate_msa", "shift_mlp", "scale_mlp", "gate_mlp"}
        PROVE  Laid(m, chunk(j, name), A, A \union {at(name)})
    <3>1. name \notin {"n1", "n2", "z"} /\ FracAt(m, at("adaln")) = WholeFrac(m, name)
      BY <2>2, NameFracs
    <3>2. PICK src, width, col, len : src = at("adaln") /\ width = 6 * d /\ col = j * d /\ len = d
      OBVIOUS
    <3>3. Laid(m, ExtractCols(m, src, Buf(b, name, 0), width, col, len), A, A \union {Buf(b, name, 0)})
      BY <2>3, <3>1, <3>2, LaidCols
    <3> QED BY <3>2, <3>3
  <2> HIDE DEF chunk
  <2>4. Laid(m, P3, D2, D3)
    <3> HIDE DEF D2, at
    <3> QED BY <2>1, <2>3
  <2>5. Laid(m, P4, D3, D4)
    <3> HIDE DEF D3, at
    <3> QED BY <2>1, <2>3
  <2>6. Laid(m, P5, D4, D5)
    <3> HIDE DEF D4, at
    <3> QED BY <2>1, <2>3
  <2>7. Laid(m, P6, D5, D6)
    <3> HIDE DEF D5, at
    <3> QED BY <2>1, <2>3
  <2>8. Laid(m, P7, D6, D7)
    <3> HIDE DEF D6, at
    <3> QED BY <2>1, <2>3
  <2>9. Laid(m, P8, D7, D8)
    <3> HIDE DEF D7, at
    <3> QED BY <2>1, <2>3
  <2> QED BY <2>4, <2>5, <2>6, <2>7, <2>8, <2>9
<1>8. Laid(m, P9, D8, D9)
  <2>1. x \in D8
    OBVIOUS
  <2>2. WholeFrac(m, "n1") = m.scheme.f_ln
    BY NameFracs
  <2>3. FracAt(m, x) = IF "n1" \in {"n1", "n2", "z"} THEN m.scheme.f_x ELSE m.scheme.f_ln
    OBVIOUS
  <2> HIDE DEF D8
  <2> QED BY <2>1, <2>2, <2>3, LaidNorm
<1>9. Laid(m, P10, D9, D10)
  <2>1. at("n1") \in D9 /\ at("scale_msa") \in D9 /\ at("shift_msa") \in D9
    OBVIOUS
  <2>2. /\ FracAt(m, at("n1")) = sc.f_ln /\ FracAt(m, at("scale_msa")) = sc.f_ln
        /\ FracAt(m, at("shift_msa")) = sc.f_ln /\ FracAt(m, at("m1")) = sc.f_ln
    BY <1>2, NameFracs
  <2> HIDE DEF at, D9, qp
  <2>3. FitsOver(m, Modulate(at("n1"), at("scale_msa"), at("shift_msa"), at("m1"), qp),
                 {at("n1"), at("scale_msa"), at("shift_msa")}, at("m1"))
    BY <1>3, <1>4, <2>2, ModulateFits
  <2> QED BY <2>1, <2>3, LaidOne DEF FitsOver
<1>10. Laid(m, P11, D10, D11)
  <2>1. at("m1") \in D10
    OBVIOUS
  <2>2. FracAt(m, at("m1")) = m.scheme.f_ln
    BY <1>2, NameFracs
  <2> HIDE DEF D10
  <2> QED BY <2>1, <2>2, LaidAttn
<1>11. Laid(m, P12, D11, D12)
  <2>1. {x, at("gate_msa"), at("a")} \subseteq D11
    OBVIOUS
  <2>2. /\ FracAt(m, at("g1")) = m.scheme.f_x /\ FracAt(m, at("sum1")) = m.scheme.f_x
        /\ FracAt(m, at("x1")) = m.scheme.f_x
        /\ FracAt(m, at("gate_msa")) = sc.f_ln /\ FracAt(m, at("a")) = sc.f_a
    BY <1>2, NameFracs
  <2>3. PICK bits : bits = qp.gate_msa_bits
    OBVIOUS
  <2>4. m.scheme.f_x = FracAt(m, at("gate_msa")) + FracAt(m, at("a")) - bits /\ bits >= 0
    BY <1>3, <1>4, <2>2, <2>3
  <2> HIDE DEF D11, at
  <2>5. Laid(m, Residual(x, at("gate_msa"), at("a"), at("g1"), at("sum1"), at("x1"), bits),
             D11, D11 \union {at("x1")})
    BY <1>3, <2>1, <2>2, <2>4, LaidResidual
  <2> QED BY <2>3, <2>5
<1>12. Laid(m, P13, D12, D13)
  <2>1. at("x1") \in D12
    OBVIOUS
  <2>2. WholeFrac(m, "n2") = m.scheme.f_ln /\ FracAt(m, at("x1")) = m.scheme.f_x
    BY <1>2, NameFracs
  <2>3. FracAt(m, at("x1")) = IF "n2" \in {"n1", "n2", "z"} THEN m.scheme.f_x ELSE m.scheme.f_ln
    BY <2>2
  <2> HIDE DEF D12
  <2> QED BY <2>1, <2>2, <2>3, LaidNorm
<1>13. Laid(m, P14, D13, D14)
  <2>1. at("n2") \in D13 /\ at("scale_mlp") \in D13 /\ at("shift_mlp") \in D13
    OBVIOUS
  <2>2. /\ FracAt(m, at("n2")) = sc.f_ln /\ FracAt(m, at("scale_mlp")) = sc.f_ln
        /\ FracAt(m, at("shift_mlp")) = sc.f_ln /\ FracAt(m, at("m2")) = sc.f_ln
    BY <1>2, NameFracs
  <2> HIDE DEF at, D13, qp
  <2>3. FitsOver(m, Modulate(at("n2"), at("scale_mlp"), at("shift_mlp"), at("m2"), qp),
                 {at("n2"), at("scale_mlp"), at("shift_mlp")}, at("m2"))
    BY <1>3, <1>4, <2>2, ModulateFits
  <2> QED BY <2>1, <2>3, LaidOne DEF FitsOver
<1>14. Laid(m, P15, D14, D15)
  <2>1. at("m2") \in D14
    OBVIOUS
  <2>2. FracAt(m, at("m2")) = m.scheme.f_ln
    BY <1>2, NameFracs
  <2> HIDE DEF D14
  <2> QED BY <2>1, <2>2, LaidFfn
<1>15. Laid(m, P16, D15, D16)
  <2>1. {at("x1"), at("gate_mlp"), at("f")} \subseteq D15
    OBVIOUS
  <2>2. /\ FracAt(m, at("g2")) = m.scheme.f_x /\ FracAt(m, at("sum2")) = m.scheme.f_x
        /\ FracAt(m, at("x")) = m.scheme.f_x /\ FracAt(m, at("x1")) = m.scheme.f_x
        /\ FracAt(m, at("gate_mlp")) = sc.f_ln /\ FracAt(m, at("f")) = sc.f_f
    BY <1>2, NameFracs
  <2>3. PICK bits : bits = qp.gate_mlp_bits
    OBVIOUS
  <2>4. m.scheme.f_x = FracAt(m, at("gate_mlp")) + FracAt(m, at("f")) - bits /\ bits >= 0
    BY <1>3, <1>4, <2>2, <2>3
  <2> HIDE DEF D15, at
  <2>5. Laid(m, Residual(at("x1"), at("gate_mlp"), at("f"), at("g2"), at("sum2"), at("x"), bits),
             D15, D15 \union {at("x")})
    BY <1>3, <2>1, <2>2, <2>4, LaidResidual
  <2> QED BY <2>3, <2>5
<1>16. D \union {at("x")} \subseteq D16
  OBVIOUS
<1> HIDE DEF at, qp, P1, P2, P3, P4, P5, P6, P7, P8, P9, P10, P11, P12, P13, P14, P15, P16,
         D1, D2, D3, D4, D5, D6, D7, D8, D9, D10, D11, D12, D13, D14, D15, D16,
         T2, T3, T4, T5, T6, T7, T8, T9, T10, T11, T12, T13, T14, T15, T16
<1>17. Laid(m, T2, D, D2)
  BY <1>5, <1>6, LaidThen DEF T2
<1>18. Laid(m, T3, D, D3)
  BY <1>17, <1>7, LaidThen DEF T3
<1>19. Laid(m, T4, D, D4)
  BY <1>18, <1>7, LaidThen DEF T4
<1>20. Laid(m, T5, D, D5)
  BY <1>19, <1>7, LaidThen DEF T5
<1>21. Laid(m, T6, D, D6)
  BY <1>20, <1>7, LaidThen DEF T6
<1>22. Laid(m, T7, D, D7)
  BY <1>21, <1>7, LaidThen DEF T7
<1>23. Laid(m, T8, D, D8)
  BY <1>22, <1>7, LaidThen DEF T8
<1>24. Laid(m, T9, D, D9)
  BY <1>23, <1>8, LaidThen DEF T9
<1>25. Laid(m, T10, D, D10)
  BY <1>24, <1>9, LaidThen DEF T10
<1>26. Laid(m, T11, D, D11)
  BY <1>25, <1>10, LaidThen DEF T11
<1>27. Laid(m, T12, D, D12)
  BY <1>26, <1>11, LaidThen DEF T12
<1>28. Laid(m, T13, D, D13)
  BY <1>27, <1>12, LaidThen DEF T13
<1>29. Laid(m, T14, D, D14)
  BY <1>28, <1>13, LaidThen DEF T14
<1>30. Laid(m, T15, D, D15)
  BY <1>29, <1>14, LaidThen DEF T15
<1>31. Laid(m, T16, D, D16)
  BY <1>30, <1>15, LaidThen DEF T16
<1>32. Laid(m, ConditionalBlock(m, b, x, qp), D, D \union {at("x")})
  BY <1>1, <1>16, <1>31, LaidMore
<1> QED BY <1>32 DEF at, qp

\* The program: every op fits, and reads an input or what an earlier op wrote.
LEMMA ProgramLaid ==
    ASSUME NEW m \in Models, Built(m)
    PROVE  Laid(m, Program(m), {Stream(0), BufC}, {OutputBuf})
<1> DEFINE n == Depth(m)
           qp == Derived(m)
           block(b) == ConditionalBlock(m, b, Stream(b - 1), qp)
           seqs == [b \in DOMAIN m.blocks |-> block(b)]
           avail == [b \in 0..n |-> {Stream(b), BufC}]
           last == LnPerPos(m, Stream(n), OutputBuf, qp)
<1>1. n \in Nat /\ DOMAIN m.blocks = 1..n
  BY BuiltDepth
<1>2. Program(m) = FlattenSeq(seqs) \o last
  BY DEF Program, Depth
<1>3. IsList(seqs) /\ Len(seqs) = n /\ DOMAIN seqs = 1..n /\ \A b \in 1..n : seqs[b] = block(b)
  <2>1. DOMAIN seqs = 1..n /\ \A b \in 1..n : seqs[b] = block(b)
    BY <1>1
  <2>2. seqs = [b \in 1..n |-> seqs[b]]
    BY <1>1
  <2> HIDE DEF seqs, block
  <2> QED BY <1>1, <2>1, <2>2, MakeList
<1>4. \A b \in 0..n : avail[b] = {Stream(b), BufC}
  OBVIOUS
<1>5. \A b : FracAt(m, Stream(b)) = m.scheme.f_x
  BY WholeAt, NameFracs DEF Stream
<1> HIDE DEF avail, seqs
<1>6. ASSUME NEW b \in 1..n PROVE Laid(m, seqs[b], avail[b - 1], avail[b])
  <2>1. PICK x, A : x = Stream(b - 1) /\ A = avail[b - 1]
    OBVIOUS
  <2>2. x \in A /\ BufC \in A /\ avail[b] \subseteq (A \union {Buf(b, "x", 0)}) \union A
    <3>1. b - 1 \in 0..n /\ b \in 0..n /\ Stream(b) = Buf(b, "x", 0)
      BY <1>1 DEF Stream
    <3> QED BY <1>4, <2>1, <3>1
  <2>3. FracAt(m, x) = m.scheme.f_x
    BY <1>5, <2>1
  <2>4. Laid(m, ConditionalBlock(m, b, x, Derived(m)), A, A \union {Buf(b, "x", 0)})
    BY <2>2, <2>3, LaidBlock
  <2>5. Laid(m, ConditionalBlock(m, b, x, Derived(m)), A, avail[b])
    BY <2>2, <2>4, LaidMore
  <2> QED BY <1>3, <2>1, <2>5
<1>7. Laid(m, FlattenSeq(seqs), avail[0], avail[n])
  BY <1>3, <1>6, LaidFlat
<1>8. Laid(m, last, avail[n], avail[n] \union {OutputBuf})
  <2>1. Stream(n) \in avail[n] /\ WholeFrac(m, "z") = m.scheme.f_ln
    BY <1>1, <1>4, NameFracs
  <2>2. FracAt(m, Stream(n)) = IF "z" \in {"n1", "n2", "z"} THEN m.scheme.f_x ELSE m.scheme.f_ln
    BY <1>5
  <2>3. Laid(m, LnPerPos(m, Stream(n), Buf(0, "z", 0), Derived(m)), avail[n], avail[n] \union {Buf(0, "z", 0)})
    BY <2>1, <2>2, LaidNorm
  <2> QED BY <2>3 DEF OutputBuf
<1>9. avail[0] = {Stream(0), BufC}
  BY <1>1, <1>4
<1> HIDE DEF last
<1>10. Laid(m, FlattenSeq(seqs) \o last, avail[0], avail[n] \union {OutputBuf})
  BY <1>7, <1>8, LaidThen
<1>11. {OutputBuf} \subseteq avail[n] \union {OutputBuf}
  OBVIOUS
<1>12. Laid(m, Program(m), avail[0], {OutputBuf})
  BY <1>2, <1>10, <1>11 DEF Laid
<1> QED BY <1>9, <1>12

(******************************** the run **********************************)
Phases == {"derive", "build", "run", "done", "refused", "panicked", "failed"}

\* The fracs of the inputs and of what the ops before pc wrote, each that of its buffer.
Derivable(k) ==
    /\ DOMAIN fracs = {Stream(0), BufC} \union { ops[j].out_buf : j \in 1..(k - 1) }
    /\ FracsKnown(model, fracs)

ScaleInv ==
    /\ model \in Models /\ phase \in Phases
    /\ phase \in {"build", "run", "done", "failed"} => Built(model)
    /\ phase \in {"run", "done", "failed"} =>
          ops = Program(model) /\ pc \in 1..(Len(ops) + 1) /\ Derivable(pc)
    /\ phase \notin {"run", "done", "failed"} => pc = 1 /\ fracs = <<>>

\* An op reads buffers that are there, and its operands meet.
LEMMA OpMeets ==
    ASSUME ScaleInv, phase \in {"run", "done", "failed"}, pc <= Len(ops)
    PROVE  /\ Aligned(model, ops[pc], fracs)
           /\ FracOut(model, ops[pc], fracs) = FracAt(model, ops[pc].out_buf)
           /\ pc \in 1..Len(ops) /\ Len(ops) \in Nat
           /\ Range(ops[pc].args) \subseteq DOMAIN fracs
<1>1. Laid(model, ops, {Stream(0), BufC}, {OutputBuf})
  BY ProgramLaid DEF ScaleInv
<1>2. DOMAIN ops = 1..Len(ops) /\ Len(ops) \in Nat
  BY <1>1, ListFacts DEF Laid
<1>3. pc \in DOMAIN ops
  BY <1>2 DEF ScaleInv
<1>4. /\ Fits(model, ops[pc])
      /\ \A buf \in Range(ops[pc].args) :
             buf \in {Stream(0), BufC} \/ \E j \in 1..(pc - 1) : ops[j].out_buf = buf
  BY <1>1, <1>3 DEF Laid
<1>5. Range(ops[pc].args) \subseteq DOMAIN fracs /\ FracsKnown(model, fracs)
  BY <1>4 DEF ScaleInv, Derivable
<1>6. Aligned(model, ops[pc], fracs) /\ FracOut(model, ops[pc], fracs) = FracAt(model, ops[pc].out_buf)
  BY <1>4, <1>5 DEF Fits
<1> QED BY <1>2, <1>3, <1>5, <1>6

LEMMA ScaleInit == Init => ScaleInv
  BY DEF Init, ScaleInv, Phases

LEMMA ScaleNext == ScaleInv /\ [Next]_vars => ScaleInv'
<1> SUFFICES ASSUME ScaleInv, [Next]_vars PROVE ScaleInv'
  OBVIOUS
<1>1. CASE Derive
  <2>1. /\ phase = "derive" /\ phase' \in DeriveOutcomes(model)
        /\ model' = model /\ fracs' = fracs /\ pc' = pc
    BY <1>1 DEF Derive
  <2>2. phase' \in {"refused", "panicked", "build"} /\ (phase' = "build" => Built(model))
    BY <2>1 DEF DeriveOutcomes, Built
  <2>3. model \in Models /\ pc = 1 /\ fracs = <<>>
    BY <2>1 DEF ScaleInv
  <2>4. phase' \in Phases /\ phase' \notin {"run", "done", "failed"}
    BY <2>2 DEF Phases
  <2>5. Built(model)' <=> Built(model)
    BY <2>1 DEF Built, HasNegativeSite, Sites, BlockSites, SharedSites
  <2> QED BY <2>1, <2>2, <2>3, <2>4, <2>5 DEF ScaleInv
<1>2. CASE Build
  <2>1. phase = "build" /\ model' = model /\ pc' = pc /\ model \in Models /\ Built(model) /\ pc = 1 /\ fracs = <<>>
    BY <1>2 DEF Build, ScaleInv
  <2>2. Built(model')
    BY <2>1
  <2>3. CASE WeightsFit(model)
    <3>1. /\ phase' = "run" /\ ops' = Program(model)
          /\ fracs' = [b \in {Stream(0), BufC} |-> IF b = BufC THEN model.scheme.f_c ELSE model.scheme.f_x]
      BY <1>2, <2>3 DEF Build
    <3>2. FracAt(model, BufC) = model.scheme.f_c /\ FracAt(model, Stream(0)) = model.scheme.f_x
      BY WholeAt, NameFracs DEF BufC, Stream
    <3>3. FracsKnown(model', fracs')
      BY <2>1, <3>1, <3>2 DEF FracsKnown
    <3>4. Len(Program(model)) \in Nat
      BY <2>1, ProgramLaid, ListFacts DEF Laid
    <3>5. pc' \in 1..(Len(ops') + 1)
      BY <2>1, <3>1, <3>4
    <3>6. DOMAIN fracs' = {Stream(0), BufC} \union { ops'[j].out_buf : j \in 1..(pc' - 1) }
      <4>1. 1..(pc' - 1) = {}
        BY <2>1
      <4> QED BY <3>1, <4>1
    <3>7. Derivable(pc)'
      BY <3>3, <3>6 DEF Derivable
    <3> QED BY <2>1, <2>2, <3>1, <3>5, <3>7 DEF ScaleInv, Phases
  <2>4. CASE ~WeightsFit(model)
    <3>1. phase' = "panicked" /\ fracs' = fracs
      BY <1>2, <2>4 DEF Build
    <3> QED BY <2>1, <2>2, <3>1 DEF ScaleInv, Phases
  <2> QED BY <2>3, <2>4
<1>3. CASE RunOp
  <2>1. /\ phase = "run" /\ pc <= Len(ops) /\ model' = model /\ ops' = ops
    BY <1>3 DEF RunOp
  <2>2. /\ model \in Models /\ Built(model) /\ ops = Program(model) /\ pc \in 1..(Len(ops) + 1)
        /\ Derivable(pc)
    BY <2>1 DEF ScaleInv
  <2>3. /\ FracOut(model, ops[pc], fracs) = FracAt(model, ops[pc].out_buf)
        /\ pc \in 1..Len(ops) /\ Len(ops) \in Nat
    BY <2>1, OpMeets
  <2>4. CASE phase' = "failed" /\ pc' = pc /\ fracs' = fracs
    <3>1. Derivable(pc)'
      BY <2>1, <2>2, <2>4 DEF Derivable
    <3> QED BY <2>1, <2>2, <2>4, <3>1 DEF ScaleInv, Phases
  <2>5. CASE /\ phase' = phase /\ pc' = pc + 1
             /\ fracs' = Insert(fracs, ops[pc].out_buf, FracOut(model, ops[pc], fracs))
    <3>1. PICK o, v : o = ops[pc].out_buf /\ v = FracOut(model, ops[pc], fracs)
      OBVIOUS
    <3>2. /\ DOMAIN fracs' = DOMAIN fracs \union {o}
          /\ \A b \in DOMAIN fracs' : fracs'[b] = IF b = o THEN v ELSE fracs[b]
      BY <2>5, <3>1 DEF Insert
    <3>3. FracsKnown(model', fracs')
      BY <2>1, <2>2, <2>3, <3>1, <3>2 DEF FracsKnown, Derivable
    <3>4. \A j \in 1..(pc' - 1) : j \in 1..(pc - 1) \/ j = pc
      BY <2>3, <2>5
    <3>5. (\A j \in 1..(pc - 1) : j \in 1..(pc' - 1)) /\ pc \in 1..(pc' - 1)
      BY <2>3, <2>5
    <3>6. { ops'[j].out_buf : j \in 1..(pc' - 1) } = { ops[j].out_buf : j \in 1..(pc - 1) } \union {o}
      BY <2>1, <3>1, <3>4, <3>5
    <3>7. Derivable(pc)'
      BY <2>2, <3>2, <3>3, <3>6 DEF Derivable
    <3>8. pc' \in 1..(Len(ops') + 1)
      BY <2>1, <2>3, <2>5
    <3> QED BY <2>1, <2>2, <2>5, <3>7, <3>8 DEF ScaleInv, Phases
  <2> QED BY <1>3, <2>4, <2>5 DEF RunOp
<1>4. CASE Finish
  <2>1. /\ phase = "run" /\ phase' = "done" /\ model' = model /\ ops' = ops /\ pc' = pc /\ fracs' = fracs
    BY <1>4 DEF Finish
  <2>2. /\ model \in Models /\ Built(model) /\ ops = Program(model) /\ pc \in 1..(Len(ops) + 1)
        /\ Derivable(pc)
    BY <2>1 DEF ScaleInv
  <2>3. Derivable(pc)'
    BY <2>1, <2>2 DEF Derivable
  <2> QED BY <2>1, <2>2, <2>3 DEF ScaleInv, Phases
<1>5. CASE UNCHANGED vars
  <2>1. model' = model /\ phase' = phase /\ ops' = ops /\ pc' = pc /\ fracs' = fracs
    BY <1>5 DEF vars
  <2>2. Derivable(pc)' <=> Derivable(pc)
    BY <2>1 DEF Derivable
  <2> QED BY <2>1, <2>2 DEF ScaleInv
<1> QED BY <1>1, <1>2, <1>3, <1>4, <1>5 DEF Next

\* At every op of every le-wm circuit that derive accepts, whatever its dims, depth
\* and scheme, the fracs meet; the residual stream and the output keep the committed
\* ones (predictor_quant.rs, scheme invariants; lewm_predictor.rs, scheme_scales).
THEOREM ScalesAlwaysMeet == Spec => []ScalesMeet
<1>1. ScaleInv => ScalesMeet
  <2> SUFFICES ASSUME ScaleInv PROVE ScalesMeet
    OBVIOUS
  <2>1. phase = "run" /\ pc <= Len(ops) => Aligned(model, ops[pc], fracs)
    BY OpMeets
  <2>2. CASE phase \in {"run", "done", "failed"}
    <3>1. /\ FracAt(model, OutputBuf) = model.scheme.f_ln
          /\ \A b : FracAt(model, Stream(b)) = model.scheme.f_x
      BY WholeAt, NameFracs DEF OutputBuf, Stream
    <3>2. /\ model \in Models /\ Built(model) /\ FracsKnown(model, fracs)
      BY <2>2 DEF ScaleInv, Derivable
    <3>3. ScaleLog2(model, 0) = -model.scheme.f_x /\ ScaleLog2(model, 2) = -model.scheme.f_ln
      BY <3>2, ScalesDeclared
    <3>4. model.scheme.f_x \in Int /\ model.scheme.f_ln \in Int
      BY <3>2, SchemeInts
    <3> QED BY <2>1, <3>1, <3>2, <3>3, <3>4 DEF ScalesMeet, FracsKnown
  <2>3. CASE phase \notin {"run", "done", "failed"}
    <3>1. DOMAIN fracs = {}
      BY <2>3 DEF ScaleInv
    <3> QED BY <2>1, <3>1 DEF ScalesMeet
  <2> QED BY <2>2, <2>3
<1> QED BY <1>1, ScaleInit, ScaleNext, PTL DEF Spec

(******************************* flat rows *********************************)
\* y is the n entries of x after a: what a cut of any sequence gives.
IsCut(y, x, a, n) == IsList(y) /\ Len(y) = n /\ \A j \in 1..n : y[j] = x[a + j]

LEMMA CutIs ==
    ASSUME NEW x, NEW a \in Int, NEW n \in Nat
    PROVE  IsCut(SubSeq(x, a + 1, a + n), x, a, n)
<1>1. PICK e : e = a + n
  OBVIOUS
<1>2. PICK S : S = { x[i] : i \in (a + 1)..e }
  OBVIOUS
<1>3. /\ SubSeq(x, a + 1, e) \in Seq(S)
      /\ Len(SubSeq(x, a + 1, e)) = IF a + 1 <= e THEN e - (a + 1) + 1 ELSE 0
      /\ \A j \in 1..(e - (a + 1) + 1) : SubSeq(x, a + 1, e)[j] = x[(a + 1) + j - 1]
  <2>1. a + 1 \in Int /\ e \in Int
    BY <1>1
  <2>2. \A i \in (a + 1)..e : x[i] \in S
    BY <1>2
  <2> QED BY <2>1, <2>2, SubSeqProperties
<1>4. e - (a + 1) + 1 = n /\ (a + 1 <= e <=> n # 0) /\ \A j \in 1..n : (a + 1) + j - 1 = a + j
  BY <1>1
<1>5. Len(SubSeq(x, a + 1, e)) = n /\ \A j \in 1..n : SubSeq(x, a + 1, e)[j] = x[a + j]
  BY <1>3, <1>4
<1>6. IsList(SubSeq(x, a + 1, e))
  BY <1>3, ListOf
<1> QED BY <1>1, <1>5, <1>6 DEF IsCut

\* A row of any sequence.
LEMMA RowIs ==
    ASSUME NEW x, NEW p \in Nat, NEW n \in Nat
    PROVE  /\ IsCut(RowOf(x, p, n), x, (p - 1) * n, n)
           /\ RowOf(x, p, n) = SubSeq(x, (p - 1) * n + 1, (p - 1) * n + n)
<1>1. PICK a \in Int : a = (p - 1) * n
  <2>1. (p - 1) * n \in Int
    OBVIOUS
  <2> QED BY <2>1
<1>2. p * n = a + n
  BY <1>1
<1>3. RowOf(x, p, n) = SubSeq(x, a + 1, a + n)
  BY <1>1, <1>2 DEF RowOf
<1>4. IsCut(SubSeq(x, a + 1, a + n), x, a, n)
  BY CutIs
<1> QED BY <1>1, <1>3, <1>4

\* s rows of n entries.
Grid(F, s, n) ==
    /\ F = [p \in 1..s |-> F[p]]
    /\ \A p \in 1..s : IsList(F[p]) /\ Len(F[p]) = n

\* The rows one after another, and what is that.
Holds(z, F, s, n) ==
    /\ IsList(z) /\ Len(z) = s * n /\ DOMAIN z = 1..(s * n)
    /\ \A p \in 1..s : \A j \in 1..n : z[At(p, n, j)] = F[p][j]

LEMMA GridFlat ==
    ASSUME NEW s \in Nat, NEW n \in Nat, NEW F, Grid(F, s, n)
    PROVE  Holds(FlattenSeq(F), F, s, n)
<1>1. IsList(F) /\ Len(F) = s /\ DOMAIN F = 1..s
  BY MakeList DEF Grid
<1>2. EvenlyFlat(FlattenSeq(F), F, n)
  BY <1>1, UniformFlat DEF Grid
<1> QED BY <1>1, <1>2, ListFacts DEF EvenlyFlat, Holds

LEMMA FlatIs ==
    ASSUME NEW s \in Nat, NEW n \in Nat, NEW F, Grid(F, s, n), NEW z, Holds(z, F, s, n)
    PROVE  z = FlattenSeq(F)
<1>1. PICK y : y = FlattenSeq(F)
  OBVIOUS
<1>2. Holds(y, F, s, n)
  BY <1>1, GridFlat
<1>3. ASSUME NEW e \in 1..(s * n) PROVE z[e] = y[e]
  <2>1. PICK p \in 1..s, j \in 1..n : (p - 1) * n + j = e
    BY EvenIndex
  <2> QED BY <1>2, <2>1 DEF Holds, At
<1> QED BY <1>1, <1>2, <1>3, SameList DEF Holds

\* len entries of row p from column c on.
SameBand(z, F, p, n, c, len) ==
    SubSeq(z, (p - 1) * n + c + 1, (p - 1) * n + c + len) = SubSeq(F[p], c + 1, c + len)

LEMMA FlatBand ==
    ASSUME NEW s \in Nat, NEW n \in Nat, NEW F, NEW z, Holds(z, F, s, n), NEW p \in 1..s,
           NEW c \in Nat, NEW len \in Nat, c + len <= n
    PROVE  SameBand(z, F, p, n, c, len)
<1>1. PICK a \in Int : a = (p - 1) * n + c
  <2>1. (p - 1) * n + c \in Int
    OBVIOUS
  <2> QED BY <2>1
<1>2. ASSUME NEW j \in 1..len PROVE z[a + j] = F[p][c + j]
  <2>1. c + j \in 1..n
    OBVIOUS
  <2>2. a + j = At(p, n, c + j)
    <3>1. PICK u \in Int : u = (p - 1) * n
      <4>1. (p - 1) * n \in Int
        OBVIOUS
      <4> QED BY <4>1
    <3> QED BY <1>1, <3>1 DEF At
  <2> QED BY <2>1, <2>2 DEF Holds
<1>3. PICK y, t : y = SubSeq(z, a + 1, a + len) /\ t = SubSeq(F[p], c + 1, c + len)
  OBVIOUS
<1>4. IsList(y) /\ Len(y) = len /\ \A j \in 1..len : y[j] = z[a + j]
  BY <1>3, CutIs DEF IsCut
<1>5. IsList(t) /\ Len(t) = len /\ \A j \in 1..len : t[j] = F[p][c + j]
  <2>1. IsCut(SubSeq(F[p], c + 1, c + len), F[p], c, len)
    BY c \in Int, CutIs
  <2> QED BY <1>3, <2>1 DEF IsCut
<1>6. y = t
  BY <1>2, <1>4, <1>5, SameList
<1>7. SubSeq(z, (p - 1) * n + c + 1, (p - 1) * n + c + len) = SubSeq(F[p], c + 1, c + len)
  BY <1>1, <1>3, <1>6
<1> QED BY <1>7, Zenon DEF SameBand

\* A whole row.
LEMMA FlatRow ==
    ASSUME NEW s \in Nat, NEW n \in Nat, NEW F, Grid(F, s, n), NEW z, Holds(z, F, s, n), NEW p \in 1..s
    PROVE  RowOf(z, p, n) = F[p]
<1>1. IsCut(RowOf(z, p, n), z, (p - 1) * n, n)
  BY p \in Nat, RowIs
<1>2. PICK y : y = RowOf(z, p, n)
  OBVIOUS
<1>3. /\ IsList(y) /\ Len(y) = n /\ \A j \in 1..n : y[j] = F[p][j]
  BY <1>1, <1>2 DEF IsCut, Holds, At
<1> QED BY <1>2, <1>3, SameList DEF Grid

Entry(z, F, s, n, p, j) ==
    At(p, n, j) \in 1..(s * n) /\ At(p, n, j) \in DOMAIN z /\ z[At(p, n, j)] = F[p][j]

LEMMA HoldsAt ==
    ASSUME NEW s \in Nat, NEW n \in Nat, NEW F, NEW z, Holds(z, F, s, n), NEW p \in 1..s, NEW j \in 1..n
    PROVE  Entry(z, F, s, n, p, j)
<1>1. At(p, n, j) \in 1..(s * n)
  BY CellIndex DEF At
<1> QED BY <1>1 DEF Holds, Entry

\* A list of the length of another.
LEMMA LikeList ==
    ASSUME NEW x, IsList(x), NEW y, y = [i \in DOMAIN x |-> y[i]]
    PROVE  IsList(y) /\ Len(y) = Len(x) /\ DOMAIN y = DOMAIN x
<1>1. Len(x) \in Nat /\ DOMAIN x = 1..Len(x)
  BY ListFacts
<1>2. y = [i \in 1..Len(x) |-> y[i]]
  BY <1>1
<1> QED BY <1>1, <1>2, MakeList

(************************* kernels over flat rows **************************)
LEMMA FlatScaled ==
    ASSUME NEW s \in Nat, NEW n \in Nat, NEW F, Grid(F, s, n), NEW z, Holds(z, F, s, n), NEW shift,
           NEW H, H = [p \in 1..s |-> Scaled(F[p], shift)]
    PROVE  Grid(H, s, n) /\ Scaled(z, shift) = FlattenSeq(H)
<1>1. ASSUME NEW x, IsList(x)
      PROVE  LET y == Scaled(x, shift)
             IN  /\ IsList(y) /\ Len(y) = Len(x) /\ DOMAIN y = DOMAIN x
                 /\ \A i \in DOMAIN x : y[i] = Rescale(To8(shift), x[i])
  <2>1. PICK y : y = Scaled(x, shift)
    OBVIOUS
  <2>2. y = [i \in DOMAIN x |-> Rescale(To8(shift), x[i])]
    BY <2>1 DEF Scaled
  <2>3. y = [i \in DOMAIN x |-> y[i]] /\ \A i \in DOMAIN x : y[i] = Rescale(To8(shift), x[i])
    BY <2>2
  <2> QED BY <1>1, <2>1, <2>3, LikeList
<1>2. \A p \in 1..s : IsList(F[p]) /\ Len(F[p]) = n /\ DOMAIN F[p] = 1..n
  BY ListFacts DEF Grid
<1>3. Grid(H, s, n)
  BY <1>1, <1>2 DEF Grid
<1>4. Holds(Scaled(z, shift), H, s, n)
  <2>1. PICK y : y = Scaled(z, shift)
    OBVIOUS
  <2>2. /\ IsList(y) /\ Len(y) = s * n /\ DOMAIN y = 1..(s * n)
        /\ \A i \in DOMAIN z : y[i] = Rescale(To8(shift), z[i])
    BY <1>1, <2>1 DEF Holds
  <2>3. ASSUME NEW p \in 1..s, NEW j \in 1..n PROVE y[At(p, n, j)] = H[p][j]
    <3>1. y[At(p, n, j)] = Rescale(To8(shift), F[p][j])
      <4>1. Entry(z, F, s, n, p, j)
        BY HoldsAt
      <4> QED BY <2>2, <4>1 DEF Entry
    <3> QED BY <1>1, <1>2, <3>1
  <2> QED BY <2>1, <2>2, <2>3 DEF Holds
<1> QED BY <1>3, <1>4, FlatIs

LEMMA FlatThrough ==
    ASSUME NEW s \in Nat, NEW n \in Nat, NEW F, Grid(F, s, n), NEW z, Holds(z, F, s, n), NEW B, NEW table,
           NEW H, H = [p \in 1..s |-> Through(B, table, F[p])]
    PROVE  Grid(H, s, n) /\ Through(B, table, z) = FlattenSeq(H)
<1>1. PICK t : t = Find(B.tables, table)
  OBVIOUS
<1>2. ASSUME NEW x, IsList(x)
      PROVE  LET y == Through(B, table, x)
             IN  /\ IsList(y) /\ Len(y) = Len(x) /\ DOMAIN y = DOMAIN x
                 /\ \A i \in DOMAIN x : y[i] = Lookup(t, x[i])
  <2>1. PICK y : y = Through(B, table, x)
    OBVIOUS
  <2>2. y = [i \in DOMAIN x |-> Lookup(t, x[i])]
    BY <1>1, <2>1 DEF Through
  <2>3. y = [i \in DOMAIN x |-> y[i]] /\ \A i \in DOMAIN x : y[i] = Lookup(t, x[i])
    BY <2>2
  <2> QED BY <1>2, <2>1, <2>3, LikeList
<1>3. \A p \in 1..s : IsList(F[p]) /\ Len(F[p]) = n /\ DOMAIN F[p] = 1..n
  BY ListFacts DEF Grid
<1>4. Grid(H, s, n)
  BY <1>2, <1>3 DEF Grid
<1>5. Holds(Through(B, table, z), H, s, n)
  <2>1. PICK y : y = Through(B, table, z)
    OBVIOUS
  <2>2. /\ IsList(y) /\ Len(y) = s * n /\ DOMAIN y = 1..(s * n)
        /\ \A i \in DOMAIN z : y[i] = Lookup(t, z[i])
    BY <1>2, <2>1 DEF Holds
  <2>3. ASSUME NEW p \in 1..s, NEW j \in 1..n PROVE y[At(p, n, j)] = H[p][j]
    <3>1. y[At(p, n, j)] = Lookup(t, F[p][j])
      <4>1. Entry(z, F, s, n, p, j)
        BY HoldsAt
      <4> QED BY <2>2, <4>1 DEF Entry
    <3> QED BY <1>2, <1>3, <3>1
  <2> QED BY <2>1, <2>2, <2>3 DEF Holds
<1> QED BY <1>4, <1>5, FlatIs

\* The rows of a grid, and what a flat sequence of them holds.
LEMMA GridRows ==
    ASSUME NEW s \in Nat, NEW n \in Nat, NEW F, Grid(F, s, n)
    PROVE  \A p \in 1..s : IsList(F[p]) /\ Len(F[p]) = n /\ DOMAIN F[p] = 1..n
  BY ListFacts DEF Grid

LEMMA GateRow ==
    ASSUME NEW n \in Nat, NEW x, NEW y, Len(x) = n, Len(y) = n, NEW q
    PROVE  /\ IsList(GateVec(q, x, y)) /\ Len(GateVec(q, x, y)) = n /\ DOMAIN GateVec(q, x, y) = 1..n
           /\ \A i \in 1..n : GateVec(q, x, y)[i] = Rescale(q, x[i] * y[i])
<1>1. PICK z : z = GateVec(q, x, y)
  OBVIOUS
<1>2. z = [i \in 1..n |-> Rescale(q, x[i] * y[i])]
  BY <1>1 DEF GateVec, ZipLen
<1>3. z = [i \in 1..n |-> z[i]] /\ \A i \in 1..n : z[i] = Rescale(q, x[i] * y[i])
  BY <1>2
<1> QED BY <1>1, <1>2, <1>3, MakeList

LEMMA AddRow ==
    ASSUME NEW n \in Nat, NEW x, NEW y, Len(x) = n, Len(y) = n
    PROVE  /\ IsList(ResidualAdd(x, y)) /\ Len(ResidualAdd(x, y)) = n /\ DOMAIN ResidualAdd(x, y) = 1..n
           /\ \A i \in 1..n : ResidualAdd(x, y)[i] = x[i] + y[i]
<1>1. PICK z : z = ResidualAdd(x, y)
  OBVIOUS
<1>2. z = [i \in 1..n |-> x[i] + y[i]]
  BY <1>1 DEF ResidualAdd, ZipLen
<1>3. z = [i \in 1..n |-> z[i]] /\ \A i \in 1..n : z[i] = x[i] + y[i]
  BY <1>2
<1> QED BY <1>1, <1>2, <1>3, MakeList

\* w is n (1 + y) + t, entry by entry.
Modulated(w, q, n, x, y, t) ==
    /\ IsList(w) /\ Len(w) = n /\ DOMAIN w = 1..n
    /\ \A i \in 1..n : w[i] = Rescale(q, x[i] * (q.one + y[i])) + t[i]

LEMMA ModulateRow ==
    ASSUME NEW n \in Nat, NEW x, NEW y, NEW t, Len(x) = n, Len(y) = n, Len(t) = n, NEW q
    PROVE  Modulated(ModulateVec(q, x, y, t), q, n, x, y, t)
<1>1. PICK z : z = ModulateVec(q, x, y, t)
  OBVIOUS
<1>2. Min({Len(x), Len(y), Len(t)}) = n
  BY OnlyLeast
<1>3. z = [i \in 1..n |-> Rescale(q, x[i] * (q.one + y[i])) + t[i]]
  BY <1>1, <1>2 DEF ModulateVec
<1>4. z = [i \in 1..n |-> z[i]] /\ \A i \in 1..n : z[i] = Rescale(q, x[i] * (q.one + y[i])) + t[i]
  BY <1>3
<1>5. IsList(z) /\ Len(z) = n /\ DOMAIN z = 1..n
  BY <1>3, <1>4, MakeList
<1>6. Modulated(z, q, n, x, y, t)
  BY <1>4, <1>5 DEF Modulated
<1> QED BY <1>1, <1>6

LEMMA FlatGate ==
    ASSUME NEW s \in Nat, NEW n \in Nat, NEW F, Grid(F, s, n), NEW G, Grid(G, s, n), NEW q,
           NEW y, Holds(y, F, s, n), NEW z, Holds(z, G, s, n),
           NEW H, H = [p \in 1..s |-> GateVec(q, F[p], G[p])]
    PROVE  Grid(H, s, n) /\ GateVec(q, y, z) = FlattenSeq(H)
<1>1. \A p \in 1..s : Len(F[p]) = n /\ Len(G[p]) = n
  BY DEF Grid
<1>2. Grid(H, s, n)
  <2>1. \A p \in 1..s : IsList(H[p]) /\ Len(H[p]) = n
    BY <1>1, GateRow
  <2> QED BY <2>1 DEF Grid
<1>3. PICK w : w = GateVec(q, y, z)
  OBVIOUS
<1>4. Holds(w, H, s, n)
  <2>1. Len(y) = s * n /\ Len(z) = s * n /\ s * n \in Nat
    BY DEF Holds
  <2>2. /\ IsList(w) /\ Len(w) = s * n /\ DOMAIN w = 1..(s * n)
        /\ \A i \in 1..(s * n) : w[i] = Rescale(q, y[i] * z[i])
    BY <1>3, <2>1, GateRow
  <2>3. ASSUME NEW p \in 1..s, NEW j \in 1..n PROVE w[At(p, n, j)] = H[p][j]
    <3>1. /\ At(p, n, j) \in 1..(s * n) /\ y[At(p, n, j)] = F[p][j] /\ z[At(p, n, j)] = G[p][j]
      <4>1. Entry(y, F, s, n, p, j) /\ Entry(z, G, s, n, p, j)
        BY HoldsAt
      <4> QED BY <4>1 DEF Entry
    <3>2. H[p] = GateVec(q, F[p], G[p])
      OBVIOUS
    <3>3. H[p][j] = Rescale(q, F[p][j] * G[p][j])
      BY <1>1, <3>2, GateRow
    <3> QED BY <2>2, <3>1, <3>3
  <2> QED BY <2>2, <2>3 DEF Holds
<1> QED BY <1>2, <1>3, <1>4, FlatIs

LEMMA FlatAdd ==
    ASSUME NEW s \in Nat, NEW n \in Nat, NEW F, Grid(F, s, n), NEW G, Grid(G, s, n),
           NEW y, Holds(y, F, s, n), NEW z, Holds(z, G, s, n),
           NEW H, H = [p \in 1..s |-> ResidualAdd(F[p], G[p])]
    PROVE  Grid(H, s, n) /\ ResidualAdd(y, z) = FlattenSeq(H)
<1>1. \A p \in 1..s : Len(F[p]) = n /\ Len(G[p]) = n
  BY DEF Grid
<1>2. Grid(H, s, n)
  <2>1. \A p \in 1..s : IsList(H[p]) /\ Len(H[p]) = n
    BY <1>1, AddRow
  <2> QED BY <2>1 DEF Grid
<1>3. PICK w : w = ResidualAdd(y, z)
  OBVIOUS
<1>4. Holds(w, H, s, n)
  <2>1. Len(y) = s * n /\ Len(z) = s * n /\ s * n \in Nat
    BY DEF Holds
  <2>2. /\ IsList(w) /\ Len(w) = s * n /\ DOMAIN w = 1..(s * n)
        /\ \A i \in 1..(s * n) : w[i] = y[i] + z[i]
    BY <1>3, <2>1, AddRow
  <2>3. ASSUME NEW p \in 1..s, NEW j \in 1..n PROVE w[At(p, n, j)] = H[p][j]
    <3>1. /\ At(p, n, j) \in 1..(s * n) /\ y[At(p, n, j)] = F[p][j] /\ z[At(p, n, j)] = G[p][j]
      <4>1. Entry(y, F, s, n, p, j) /\ Entry(z, G, s, n, p, j)
        BY HoldsAt
      <4> QED BY <4>1 DEF Entry
    <3>2. H[p] = ResidualAdd(F[p], G[p])
      OBVIOUS
    <3>3. H[p][j] = F[p][j] + G[p][j]
      BY <1>1, <3>2, AddRow
    <3> QED BY <2>2, <3>1, <3>3
  <2> QED BY <2>2, <2>3 DEF Holds
<1> QED BY <1>2, <1>3, <1>4, FlatIs

LEMMA FlatModulate ==
    ASSUME NEW s \in Nat, NEW n \in Nat, NEW q, NEW F, Grid(F, s, n), NEW G, Grid(G, s, n), NEW K, Grid(K, s, n),
           NEW x, Holds(x, F, s, n), NEW y, Holds(y, G, s, n), NEW z, Holds(z, K, s, n),
           NEW H, H = [p \in 1..s |-> ModulateVec(q, F[p], G[p], K[p])]
    PROVE  Grid(H, s, n) /\ ModulateVec(q, x, y, z) = FlattenSeq(H)
<1>1. \A p \in 1..s : Len(F[p]) = n /\ Len(G[p]) = n /\ Len(K[p]) = n
  BY DEF Grid
<1>2. ASSUME NEW p \in 1..s PROVE Modulated(H[p], q, n, F[p], G[p], K[p])
  <2>1. H[p] = ModulateVec(q, F[p], G[p], K[p])
    OBVIOUS
  <2>2. Modulated(ModulateVec(q, F[p], G[p], K[p]), q, n, F[p], G[p], K[p])
    BY <1>1, ModulateRow
  <2> QED BY <2>1, <2>2
<1>3. Grid(H, s, n)
  <2>1. \A p \in 1..s : IsList(H[p]) /\ Len(H[p]) = n
    BY <1>2 DEF Modulated
  <2> QED BY <2>1 DEF Grid
<1>4. PICK w : w = ModulateVec(q, x, y, z)
  OBVIOUS
<1>5. Holds(w, H, s, n)
  <2>1. Len(x) = s * n /\ Len(y) = s * n /\ Len(z) = s * n /\ s * n \in Nat
    BY DEF Holds
  <2>2. /\ IsList(w) /\ Len(w) = s * n /\ DOMAIN w = 1..(s * n)
        /\ \A i \in 1..(s * n) : w[i] = Rescale(q, x[i] * (q.one + y[i])) + z[i]
    <3>1. Modulated(ModulateVec(q, x, y, z), q, s * n, x, y, z)
      BY <2>1, ModulateRow
    <3> QED BY <1>4, <3>1 DEF Modulated
  <2>3. ASSUME NEW p \in 1..s, NEW j \in 1..n PROVE w[At(p, n, j)] = H[p][j]
    <3>1. /\ At(p, n, j) \in 1..(s * n) /\ x[At(p, n, j)] = F[p][j] /\ y[At(p, n, j)] = G[p][j]
          /\ z[At(p, n, j)] = K[p][j]
      <4>1. Entry(x, F, s, n, p, j) /\ Entry(y, G, s, n, p, j) /\ Entry(z, K, s, n, p, j)
        BY HoldsAt
      <4> QED BY <4>1 DEF Entry
    <3>2. H[p][j] = Rescale(q, F[p][j] * (q.one + G[p][j])) + K[p][j]
      BY <1>2 DEF Modulated
    <3> QED BY <2>2, <3>1, <3>2
  <2> QED BY <2>2, <2>3 DEF Holds
<1> QED BY <1>3, <1>4, <1>5, FlatIs

\* A sequence given entry by entry, each through the row and the column of its index.
Indexed(z, F, s, n) ==
    /\ z = [e \in 1..(s * n) |-> z[e]]
    /\ \A e \in 1..(s * n) : z[e] = F[(e - 1) \div n + 1][((e - 1) % n) + 1]

LEMMA FlatIndexed ==
    ASSUME NEW s \in Nat, NEW n \in Nat, NEW F, Grid(F, s, n), NEW z, Indexed(z, F, s, n)
    PROVE  z = FlattenSeq(F)
<1>1. PICK y : y = FlattenSeq(F)
  OBVIOUS
<1>2. Holds(y, F, s, n)
  BY <1>1, GridFlat
<1>3. s * n \in Nat
  OBVIOUS
<1>4. IsList(z) /\ Len(z) = s * n
  BY <1>3, MakeList DEF Indexed
<1>5. ASSUME NEW e \in 1..(s * n) PROVE z[e] = y[e]
  <2>1. PICK p, j : p = (e - 1) \div n + 1 /\ j = ((e - 1) % n) + 1
    OBVIOUS
  <2>2. p \in 1..s /\ j \in 1..n /\ (p - 1) * n + j = e
    BY <2>1, RowIndex
  <2>3. At(p, n, j) = e
    BY <2>2 DEF At
  <2>4. y[e] = F[p][j]
    BY <1>2, <2>2, <2>3 DEF Holds
  <2>5. z[e] = F[p][j]
    BY <2>1 DEF Indexed
  <2> QED BY <2>4, <2>5
<1>6. y = z
  BY <1>2, <1>4, <1>5, SameList DEF Holds
<1> QED BY <1>1, <1>6

LEMMA DenseRow ==
    ASSUME NEW w, NEW n \in Nat, Rows(w) = n, NEW x, NEW bias
    PROVE  IsList(Linear(w, x, bias)) /\ Len(Linear(w, x, bias)) = n
<1>1. PICK z : z = Linear(w, x, bias)
  OBVIOUS
<1>2. z = [i \in 1..n |-> z[i]]
  BY <1>1 DEF Linear
<1> QED BY <1>1, <1>2, MakeList

LEMMA FlatDense ==
    ASSUME NEW s \in Nat, NEW n \in Nat, NEW w, Rows(w) = n, NEW x, NEW bias,
           NEW H, H = [p \in 1..s |-> Linear(w, RowOf(x, p, Cols(w)), bias)]
    PROVE  Grid(H, s, n) /\ LinearRows(w, x, bias, s) = FlattenSeq(H)
<1>1. Grid(H, s, n)
  <2>1. \A p \in 1..s : IsList(H[p]) /\ Len(H[p]) = n
    BY DenseRow
  <2> QED BY <2>1 DEF Grid
<1>2. PICK z : z = LinearRows(w, x, bias, s)
  OBVIOUS
<1> DEFINE L(p) == Linear(w, RowOf(x, p, Cols(w)), bias)
<1>3. z = [e \in 1..(s * n) |-> L((e - 1) \div n + 1)[((e - 1) % n) + 1]]
  BY <1>2 DEF LinearRows
<1>4. \A p \in 1..s : H[p] = L(p)
  OBVIOUS
<1> HIDE DEF L
<1>5. z = [e \in 1..(s * n) |-> z[e]]
  BY <1>3
<1>6. ASSUME NEW e \in 1..(s * n)
      PROVE  z[e] = H[(e - 1) \div n + 1][((e - 1) % n) + 1]
  <2>1. (e - 1) \div n + 1 \in 1..s
    BY RowIndex
  <2>2. z[e] = L((e - 1) \div n + 1)[((e - 1) % n) + 1]
    BY <1>3
  <2> QED BY <1>4, <2>1, <2>2
<1>7. Indexed(z, H, s, n)
  BY <1>5, <1>6 DEF Indexed
<1> QED BY <1>1, <1>2, <1>7, FlatIndexed

LEMMA SoftmaxRow ==
    ASSUME NEW x, IsList(x), NEW t, NEW one
    PROVE  IsList(Softmax(x, t, one)) /\ Len(Softmax(x, t, one)) = Len(x)
<1>1. PICK z : z = Softmax(x, t, one)
  OBVIOUS
<1>2. z = [i \in DOMAIN x |-> z[i]]
  BY <1>1 DEF Softmax
<1> QED BY <1>1, <1>2, LikeList

LEMMA NormalRow ==
    ASSUME NEW x, IsList(x), NEW q, NEW t
    PROVE  IsList(LayerNorm(q, x, t)) /\ Len(LayerNorm(q, x, t)) = Len(x)
<1>1. PICK z : z = LayerNorm(q, x, t)
  OBVIOUS
<1>2. z = [i \in DOMAIN x |-> z[i]]
  BY <1>1 DEF LayerNorm
<1> QED BY <1>1, <1>2, LikeList

LEMMA FlatSoftmax ==
    ASSUME NEW s \in Nat, NEW n \in Nat, NEW F, Grid(F, s, n), NEW x, Holds(x, F, s, n), NEW t, NEW one,
           NEW H, H = [p \in 1..s |-> Softmax(F[p], t, one)]
    PROVE  Grid(H, s, n) /\ SoftmaxRows(x, n, t, one) = FlattenSeq(H)
<1>1. Grid(H, s, n)
  <2>1. \A p \in 1..s : IsList(H[p]) /\ Len(H[p]) = n
    BY GridRows, SoftmaxRow
  <2> QED BY <2>1 DEF Grid
<1>2. PICK z : z = SoftmaxRows(x, n, t, one)
  OBVIOUS
<1> DEFINE L(p) == Softmax(RowOf(x, p, n), t, one)
<1>3. z = [e \in 1..(s * n) |-> L((e - 1) \div n + 1)[((e - 1) % n) + 1]]
  BY <1>2 DEF SoftmaxRows, Holds
<1>4. \A p \in 1..s : H[p] = L(p)
  BY FlatRow
<1> HIDE DEF L
<1>5. z = [e \in 1..(s * n) |-> z[e]]
  BY <1>3
<1>6. ASSUME NEW e \in 1..(s * n)
      PROVE  z[e] = H[(e - 1) \div n + 1][((e - 1) % n) + 1]
  <2>1. (e - 1) \div n + 1 \in 1..s
    BY RowIndex
  <2>2. z[e] = L((e - 1) \div n + 1)[((e - 1) % n) + 1]
    BY <1>3
  <2> QED BY <1>4, <2>1, <2>2
<1>7. Indexed(z, H, s, n)
  BY <1>5, <1>6 DEF Indexed
<1> QED BY <1>1, <1>2, <1>7, FlatIndexed

\* The product of one matrix with the transpose of another, and with another.
Scores(F, G, s, c, n) == [p \in 1..s |-> [j \in 1..c |-> SumTo([k \in 1..n |-> F[p][k] * G[j][k]], n)]]
Values(F, G, s, c, n) == [p \in 1..s |-> [j \in 1..c |-> SumTo([k \in 1..n |-> F[p][k] * G[k][j]], n)]]

\* An op that computes one or the other.
ScoresOp(q, s, n, c) == q.rows = s /\ q.inner = n /\ q.cols = c /\ q.transpose_b = TRUE
ValuesOp(q, s, n, c) == q.rows = s /\ q.inner = n /\ q.cols = c /\ q.transpose_b = FALSE

LEMMA FlatScores ==
    ASSUME NEW s \in Nat, NEW c \in Nat, NEW n \in Nat, NEW F, Grid(F, s, n), NEW G, Grid(G, c, n),
           NEW x, Holds(x, F, s, n), NEW y, Holds(y, G, c, n), NEW q, ScoresOp(q, s, n, c),
           NEW H, H = Scores(F, G, s, c, n)
    PROVE  Grid(H, s, c) /\ MatMul(x, y, q) = FlattenSeq(H)
<1>0. H = [p \in 1..s |-> [j \in 1..c |-> SumTo([k \in 1..n |-> F[p][k] * G[j][k]], n)]]
  BY DEF Scores
<1>1. Grid(H, s, c)
  <2>0. H = [p \in 1..s |-> H[p]]
    BY <1>0
  <2> SUFFICES ASSUME NEW p \in 1..s PROVE IsList(H[p]) /\ Len(H[p]) = c
    BY <2>0 DEF Grid
  <2>1. H[p] = [j \in 1..c |-> H[p][j]]
    BY <1>0
  <2> QED BY <2>1, MakeList
<1>2. PICK z : z = MatMul(x, y, q)
  OBVIOUS
<1> DEFINE T(e) == (e - 1) \div c
           I(e) == (e - 1) % c
<1>3. z = [e \in 1..(s * c) |-> SumTo([k \in 1..n |-> x[T(e) * n + k] * y[I(e) * n + k]], n)]
  BY <1>2 DEF MatMul, ScoresOp
<1>4. z = [e \in 1..(s * c) |-> z[e]]
  BY <1>3
<1>5. ASSUME NEW e \in 1..(s * c)
      PROVE  z[e] = H[(e - 1) \div c + 1][((e - 1) % c) + 1]
  <2>1. T(e) + 1 \in 1..s /\ I(e) + 1 \in 1..c
    BY RowIndex
  <2>2. PICK p \in 1..s, j \in 1..c : p = T(e) + 1 /\ j = I(e) + 1
    BY <2>1
  <2>3. T(e) \in Int /\ I(e) \in Int
    <3>1. c # 0
      BY <2>2
    <3>2. c \in Nat \ {0} /\ e - 1 \in Int
      BY <3>1
    <3> QED BY <3>2, DivMod
  <2> HIDE DEF T, I
  <2>4. T(e) = p - 1 /\ I(e) = j - 1
    <3>1. PICK u \in Int, v \in Int : u = T(e) /\ v = I(e)
      BY <2>3
    <3>2. p = u + 1 /\ j = v + 1
      BY <2>2, <3>1
    <3>3. u = p - 1 /\ v = j - 1
      BY <3>2
    <3> QED BY <3>1, <3>3
  <2>5. ASSUME NEW k \in 1..n PROVE x[T(e) * n + k] = F[p][k] /\ y[I(e) * n + k] = G[j][k]
    <3>1. Entry(x, F, s, n, p, k) /\ Entry(y, G, c, n, j, k)
      BY HoldsAt
    <3> QED BY <2>4, <3>1 DEF Entry, At
  <2>6. [k \in 1..n |-> x[T(e) * n + k] * y[I(e) * n + k]] = [k \in 1..n |-> F[p][k] * G[j][k]]
    BY <2>5
  <2>7. z[e] = SumTo([k \in 1..n |-> F[p][k] * G[j][k]], n)
    BY <1>3, <2>6
  <2>8. H[p][j] = SumTo([k \in 1..n |-> F[p][k] * G[j][k]], n)
    BY <1>0
  <2>9. H[T(e) + 1][I(e) + 1] = H[p][j]
    BY <2>2
  <2> QED BY <2>7, <2>8, <2>9 DEF T, I
<1>6. Indexed(z, H, s, c)
  BY <1>4, <1>5 DEF Indexed
<1> QED BY <1>1, <1>2, <1>6, FlatIndexed

LEMMA FlatValues ==
    ASSUME NEW s \in Nat, NEW n \in Nat, NEW c \in Nat, NEW F, Grid(F, s, n), NEW G, Grid(G, n, c),
           NEW x, Holds(x, F, s, n), NEW y, Holds(y, G, n, c), NEW q, ValuesOp(q, s, n, c),
           NEW H, H = Values(F, G, s, c, n)
    PROVE  Grid(H, s, c) /\ MatMul(x, y, q) = FlattenSeq(H)
<1>0. H = [p \in 1..s |-> [j \in 1..c |-> SumTo([k \in 1..n |-> F[p][k] * G[k][j]], n)]]
  BY DEF Values
<1>1. Grid(H, s, c)
  <2>0. H = [p \in 1..s |-> H[p]]
    BY <1>0
  <2> SUFFICES ASSUME NEW p \in 1..s PROVE IsList(H[p]) /\ Len(H[p]) = c
    BY <2>0 DEF Grid
  <2>1. H[p] = [j \in 1..c |-> H[p][j]]
    BY <1>0
  <2> QED BY <2>1, MakeList
<1>2. PICK z : z = MatMul(x, y, q)
  OBVIOUS
<1> DEFINE T(e) == (e - 1) \div c
           I(e) == (e - 1) % c
<1>3. z = [e \in 1..(s * c) |-> SumTo([k \in 1..n |-> x[T(e) * n + k] * y[(k - 1) * c + I(e) + 1]], n)]
  BY <1>2 DEF MatMul, ValuesOp
<1>4. z = [e \in 1..(s * c) |-> z[e]]
  BY <1>3
<1>5. ASSUME NEW e \in 1..(s * c)
      PROVE  z[e] = H[(e - 1) \div c + 1][((e - 1) % c) + 1]
  <2>1. T(e) + 1 \in 1..s /\ I(e) + 1 \in 1..c
    BY RowIndex
  <2>2. PICK p \in 1..s, j \in 1..c : p = T(e) + 1 /\ j = I(e) + 1
    BY <2>1
  <2>3. T(e) \in Int /\ I(e) \in Int
    <3>1. c # 0
      BY <2>2
    <3>2. c \in Nat \ {0} /\ e - 1 \in Int
      BY <3>1
    <3> QED BY <3>2, DivMod
  <2> HIDE DEF T, I
  <2>4. T(e) = p - 1 /\ I(e) = j - 1
    <3>1. PICK u \in Int, v \in Int : u = T(e) /\ v = I(e)
      BY <2>3
    <3>2. p = u + 1 /\ j = v + 1
      BY <2>2, <3>1
    <3>3. u = p - 1 /\ v = j - 1
      BY <3>2
    <3> QED BY <3>1, <3>3
  <2>5. ASSUME NEW k \in 1..n PROVE x[T(e) * n + k] = F[p][k] /\ y[(k - 1) * c + I(e) + 1] = G[k][j]
    <3>1. Entry(x, F, s, n, p, k) /\ Entry(y, G, n, c, k, j)
      BY HoldsAt
    <3>2. (k - 1) * c + I(e) + 1 = At(k, c, j)
      <4>1. PICK u \in Int : u = (k - 1) * c
        BY (k - 1) * c \in Int
      <4> QED BY <2>3, <2>4, <4>1 DEF At
    <3> QED BY <2>4, <3>1, <3>2 DEF Entry, At
  <2>6. [k \in 1..n |-> x[T(e) * n + k] * y[(k - 1) * c + I(e) + 1]] = [k \in 1..n |-> F[p][k] * G[k][j]]
    BY <2>5
  <2>7. z[e] = SumTo([k \in 1..n |-> F[p][k] * G[k][j]], n)
    BY <1>3, <2>6
  <2>8. H[p][j] = SumTo([k \in 1..n |-> F[p][k] * G[k][j]], n)
    BY <1>0
  <2>9. H[T(e) + 1][I(e) + 1] = H[p][j]
    BY <2>2
  <2> QED BY <2>7, <2>8, <2>9 DEF T, I
<1>6. Indexed(z, H, s, c)
  BY <1>4, <1>5 DEF Indexed
<1> QED BY <1>1, <1>2, <1>6, FlatIndexed

\* Index e is place j of row i.
GridPlace(e, n, i, j) == (i - 1) * n + j = e /\ (e - 1) \div n + 1 = i /\ ((e - 1) % n) + 1 = j

LEMMA PlaceIs ==
    ASSUME NEW q \in Nat, NEW n \in Nat, NEW e \in 1..(q * n)
    PROVE  \E i \in 1..q : \E j \in 1..n : GridPlace(e, n, i, j)
<1>1. /\ (e - 1) \div n + 1 \in 1..q /\ ((e - 1) % n) + 1 \in 1..n
      /\ (((e - 1) \div n + 1) - 1) * n + (((e - 1) % n) + 1) = e
  BY RowIndex
<1>2. PICK i, j : i = (e - 1) \div n + 1 /\ j = ((e - 1) % n) + 1
  OBVIOUS
<1>3. i \in 1..q /\ j \in 1..n /\ (i - 1) * n + j = e
  BY <1>1, <1>2, Zenon
<1>4. GridPlace(e, n, i, j)
  BY <1>2, <1>3, Zenon DEF GridPlace
<1> QED BY <1>3, <1>4, Zenon

\* Lists of lists flattened at once, and row by row.
Nested(R, s, h) == [e \in 1..(s * h) |-> R[(e - 1) \div h + 1][((e - 1) % h) + 1]]

NestedFlat(E, F, s, h, n) == Grid(F, s, h * n) /\ FlattenSeq(E) = FlattenSeq(F)

LEMMA FlatNested ==
    ASSUME NEW s \in Nat, NEW h \in Nat, NEW n \in Nat, NEW R, \A p \in 1..s : Grid(R[p], h, n),
           NEW F, F = [p \in 1..s |-> FlattenSeq(R[p])],
           NEW E, E = Nested(R, s, h)
    PROVE  NestedFlat(E, F, s, h, n)
<1>0. E = [e \in 1..(s * h) |-> R[(e - 1) \div h + 1][((e - 1) % h) + 1]]
  BY DEF Nested
<1>1. PICK w \in Nat : w = h * n
  <2>1. h * n \in Nat
    OBVIOUS
  <2> QED BY <2>1
<1>2. PICK c \in Nat : c = s * h
  <2>1. s * h \in Nat
    OBVIOUS
  <2> QED BY <2>1
<1>3. c * n = s * w
  BY <1>1, <1>2
<1>4. \A p \in 1..s : Holds(FlattenSeq(R[p]), R[p], h, n)
  BY GridFlat
<1>5. Grid(F, s, w)
  <2>1. \A p \in 1..s : F[p] = FlattenSeq(R[p])
    OBVIOUS
  <2>2. \A p \in 1..s : IsList(F[p]) /\ Len(F[p]) = w
    BY <1>1, <1>4, <2>1 DEF Holds
  <2> QED BY <2>2 DEF Grid
<1>6. ASSUME NEW e \in 1..c
      PROVE  \E p \in 1..s : \E i \in 1..h : (p - 1) * h + i = e /\ E[e] = R[p][i]
  <2>1. e \in 1..(s * h)
    BY <1>2
  <2>2. PICK p \in 1..s, i \in 1..h : GridPlace(e, h, p, i)
    BY <2>1, PlaceIs
  <2>3. E[e] = R[p][i]
    BY <1>0, <2>1, <2>2 DEF GridPlace
  <2> QED BY <2>2, <2>3 DEF GridPlace
<1>7. Grid(E, c, n)
  <2> SUFFICES ASSUME NEW e \in 1..c PROVE IsList(E[e]) /\ Len(E[e]) = n
    BY <1>0, <1>2 DEF Grid
  <2>1. PICK p \in 1..s, i \in 1..h : E[e] = R[p][i]
    BY <1>6
  <2> QED BY <2>1 DEF Grid
<1>8. PICK y, z : y = FlattenSeq(F) /\ z = FlattenSeq(E)
  OBVIOUS
<1>9. Holds(y, F, s, w) /\ Holds(z, E, c, n)
  BY <1>5, <1>7, <1>8, GridFlat
<1>10. ASSUME NEW g \in 1..(c * n) PROVE z[g] = y[g]
  <2>1. PICK e \in 1..c, j \in 1..n : (e - 1) * n + j = g
    BY EvenIndex
  <2>2. PICK p \in 1..s, i \in 1..h : (p - 1) * h + i = e /\ E[e] = R[p][i]
    BY <1>6
  <2>3. p \in 1..s /\ i \in 1..h /\ (p - 1) * h + i = e /\ E[e] = R[p][i]
    BY <2>2
  <2>4. At(e, n, j) = g
    BY <2>1 DEF At
  <2>5. z[g] = R[p][i][j]
    <3>1. z[At(e, n, j)] = E[e][j]
      BY <1>9 DEF Holds
    <3> QED BY <2>3, <2>4, <3>1
  <2>6. At(i, n, j) \in 1..w
    BY <1>1, <2>3, CellIndex DEF At
  <2>7. F[p][At(i, n, j)] = R[p][i][j]
    <3>1. F[p] = FlattenSeq(R[p])
      BY <2>3
    <3>2. Holds(F[p], R[p], h, n)
      BY <1>4, <2>3, <3>1
    <3> QED BY <2>3, <3>2 DEF Holds
  <2>8. At(p, w, At(i, n, j)) = g
    <3>1. PICK a \in Int : a = p - 1
      BY <2>3
    <3>2. PICK k \in Int : k = i - 1
      BY <2>3
    <3>3. e - 1 = a * h + k
      <4>1. a * h \in Int
        OBVIOUS
      <4> QED BY <2>3, <3>1, <3>2, <4>1
    <3>4. (a * h + k) * n = a * w + k * n
      BY <1>1
    <3>5. a * w + (k * n + j) = g
      <4>1. PICK u \in Int, v \in Int : u = a * w /\ v = k * n
        BY a * w \in Int, k * n \in Int
      <4>2. (e - 1) * n = u + v
        BY <3>3, <3>4, <4>1
      <4>3. u + (v + j) = g
        BY <2>1, <4>1, <4>2
      <4> QED BY <4>1, <4>3
    <3> QED BY <3>1, <3>2, <3>5 DEF At
  <2>9. y[g] = F[p][At(i, n, j)]
    BY <1>9, <2>3, <2>6, <2>8 DEF Holds
  <2> QED BY <2>5, <2>7, <2>9
<1>11. z = y
  <2>1. IsList(z) /\ IsList(y) /\ Len(z) = c * n /\ Len(y) = c * n
    BY <1>3, <1>9 DEF Holds
  <2> QED BY <1>10, <2>1, SameList
<1> QED BY <1>1, <1>5, <1>8, <1>11 DEF NestedFlat

(***************************** the forward values ***************************)
\* The bindings of a built model, and the qkv matrix and the middle stream of a block.
Binds(m) == [weights |-> Weights(m), tables |-> Tables(m)]
QkvOf(m, B, b) == Qkv(m, B, Streams(m, B)[b - 1], b, Ada(m, B, b))
MidOf(m, B, b) == Mid(m, B, Streams(m, B)[b - 1], b, Ada(m, B, b), QkvOf(m, B, b))

\* Row p of the value a name of block b stands for, in the forward pass.
InRow(m, B, b, p) == RowOf(Streams(m, B)[b - 1], p, m.dims.d)
MidRow(m, B, b, p) == RowOf(MidOf(m, B, b), p, m.dims.d)
ChunkRow(m, B, b, p, j) == Chunk(m, Ada(m, B, b), p, j)
ThirdRow(m, B, b, p, j) ==
    SubSeq(RowOf(QkvOf(m, B, b), p, 3 * Inner(m)), j * Inner(m) + 1, j * Inner(m) + Inner(m))
PartRow(m, B, b, h, p, j) == HeadPart(m, QkvOf(m, B, b), p, j, h)
M1Row(m, B, b, p) ==
    ModulatedRow(m, NormRow(m, B, InRow(m, B, b, p)), ChunkRow(m, B, b, p, 1), ChunkRow(m, B, b, p, 0))
M2Row(m, B, b, p) ==
    ModulatedRow(m, NormRow(m, B, MidRow(m, B, b, p)), ChunkRow(m, B, b, p, 4), ChunkRow(m, B, b, p, 3))

\* Row p of what each dense layer of a block sums up.
AccRow(m, B, b, name, p) ==
    CASE name = "adaln" -> Dense(B, b, 1, Through(B, TableSilu, RowOf(m.c, p, m.dims.d)))
      [] name = "qkv"   -> Dense(B, b, 2, NormRow(m, B, M1Row(m, B, b, p)))
      [] name = "a"     -> Dense(B, b, 3, HeadsRow(m, B, QkvOf(m, B, b), p))
      [] name = "h1"    -> Dense(B, b, 4, NormRow(m, B, M2Row(m, B, b, p)))
      [] OTHER          -> Dense(B, b, 5, Through(B, TableGelu,
                               HiddenRow(m, B, MidOf(m, B, b), b, Ada(m, B, b), p)))

\* The linear of the block a name is requantized from.
LinearOf(name) ==
    CASE name = "adaln" -> 1 [] name = "qkv" -> 2 [] name = "a" -> 3 [] name = "h1" -> 4 [] OTHER -> 5

Requanted(m, B, b, name, p) == Scaled(AccRow(m, B, b, name, p), Derived(m).blocks[b][LinearOf(name)])

\* The gated sublayers before they are added, and the sums.
Gated1(m, B, b, p) ==
    GateVec(To8(Derived(m).gate_msa_bits), ChunkRow(m, B, b, p, 2), Requanted(m, B, b, "a", p))
Gated2(m, B, b, p) ==
    GateVec(To8(Derived(m).gate_mlp_bits), ChunkRow(m, B, b, p, 5), Requanted(m, B, b, "f", p))
Sum1Row(m, B, b, p) == ResidualAdd(InRow(m, B, b, p), Gated1(m, B, b, p))
Sum2Row(m, B, b, p) == ResidualAdd(MidRow(m, B, b, p), Gated2(m, B, b, p))

Projections == {"adaln", "qkv", "a", "h1", "f"}

RowAt(m, B, b, name, h, p) ==
    CASE name \in Projections -> Requanted(m, B, b, name, p)
      [] name = "shift_msa" -> ChunkRow(m, B, b, p, 0)
      [] name = "scale_msa" -> ChunkRow(m, B, b, p, 1)
      [] name = "gate_msa"  -> ChunkRow(m, B, b, p, 2)
      [] name = "shift_mlp" -> ChunkRow(m, B, b, p, 3)
      [] name = "scale_mlp" -> ChunkRow(m, B, b, p, 4)
      [] name = "gate_mlp"  -> ChunkRow(m, B, b, p, 5)
      [] name = "n1"        -> NormRow(m, B, InRow(m, B, b, p))
      [] name = "m1"        -> M1Row(m, B, b, p)
      [] name = "a0"        -> NormRow(m, B, M1Row(m, B, b, p))
      [] name = "q"         -> ThirdRow(m, B, b, p, 0)
      [] name = "k"         -> ThirdRow(m, B, b, p, 1)
      [] name = "v"         -> ThirdRow(m, B, b, p, 2)
      [] name = "qh"        -> PartRow(m, B, b, h, p, 0)
      [] name = "kh"        -> PartRow(m, B, b, h, p, 1)
      [] name = "vh"        -> PartRow(m, B, b, h, p, 2)
      [] name = "qk"        -> ScoreRow(m, QkvOf(m, B, b), h, p)
      [] name = "scores"    -> Scaled(ScoreRow(m, QkvOf(m, B, b), h, p), Derived(m).score_shift)
      [] name = "prob"      -> ProbRow(m, B, QkvOf(m, B, b), h, p)
      [] name = "pv"        -> ValueRow(m, ProbRow(m, B, QkvOf(m, B, b), h, p), QkvOf(m, B, b), h)
      [] name = "oh"        -> HeadRow(m, B, QkvOf(m, B, b), h, p)
      [] name = "attn_cat"  -> HeadsRow(m, B, QkvOf(m, B, b), p)
      [] name = "g1"        -> Gated1(m, B, b, p)
      [] name = "sum1"      -> Sum1Row(m, B, b, p)
      [] name = "x1"        -> Scaled(Sum1Row(m, B, b, p), 0)
      [] name = "n2"        -> NormRow(m, B, MidRow(m, B, b, p))
      [] name = "m2"        -> M2Row(m, B, b, p)
      [] name = "f0"        -> NormRow(m, B, M2Row(m, B, b, p))
      [] name = "g"         -> Through(B, TableGelu, Requanted(m, B, b, "h1", p))
      [] name = "g2"        -> Gated2(m, B, b, p)
      [] name = "sum2"      -> Sum2Row(m, B, b, p)
      [] name = "x"         -> Scaled(Sum2Row(m, B, b, p), 0)
      [] OTHER              -> NormRow(m, B, RowOf(Streams(m, B)[Depth(m)], p, m.dims.d))

LEMMA RowsAre ==
    ASSUME NEW m, NEW B, NEW b, NEW h, NEW p
    PROVE  LET is(name) == RowAt(m, B, b, name, h, p)
           IN  /\ is("adaln") = Requanted(m, B, b, "adaln", p) /\ is("qkv") = Requanted(m, B, b, "qkv", p)
               /\ is("a") = Requanted(m, B, b, "a", p) /\ is("h1") = Requanted(m, B, b, "h1", p)
               /\ is("f") = Requanted(m, B, b, "f", p)
               /\ is("shift_msa") = ChunkRow(m, B, b, p, 0) /\ is("scale_msa") = ChunkRow(m, B, b, p, 1)
               /\ is("gate_msa") = ChunkRow(m, B, b, p, 2) /\ is("shift_mlp") = ChunkRow(m, B, b, p, 3)
               /\ is("scale_mlp") = ChunkRow(m, B, b, p, 4) /\ is("gate_mlp") = ChunkRow(m, B, b, p, 5)
               /\ is("n1") = NormRow(m, B, InRow(m, B, b, p)) /\ is("m1") = M1Row(m, B, b, p)
               /\ is("a0") = NormRow(m, B, M1Row(m, B, b, p))
               /\ is("q") = ThirdRow(m, B, b, p, 0) /\ is("k") = ThirdRow(m, B, b, p, 1)
               /\ is("v") = ThirdRow(m, B, b, p, 2)
               /\ is("qh") = PartRow(m, B, b, h, p, 0) /\ is("kh") = PartRow(m, B, b, h, p, 1)
               /\ is("vh") = PartRow(m, B, b, h, p, 2)
               /\ is("qk") = ScoreRow(m, QkvOf(m, B, b), h, p)
               /\ is("scores") = Scaled(ScoreRow(m, QkvOf(m, B, b), h, p), Derived(m).score_shift)
               /\ is("prob") = ProbRow(m, B, QkvOf(m, B, b), h, p)
               /\ is("pv") = ValueRow(m, ProbRow(m, B, QkvOf(m, B, b), h, p), QkvOf(m, B, b), h)
               /\ is("oh") = HeadRow(m, B, QkvOf(m, B, b), h, p)
               /\ is("attn_cat") = HeadsRow(m, B, QkvOf(m, B, b), p)
               /\ is("g1") = Gated1(m, B, b, p) /\ is("sum1") = Sum1Row(m, B, b, p)
               /\ is("x1") = Scaled(Sum1Row(m, B, b, p), 0)
               /\ is("n2") = NormRow(m, B, MidRow(m, B, b, p)) /\ is("m2") = M2Row(m, B, b, p)
               /\ is("f0") = NormRow(m, B, M2Row(m, B, b, p))
               /\ is("g") = Through(B, TableGelu, Requanted(m, B, b, "h1", p))
               /\ is("g2") = Gated2(m, B, b, p) /\ is("sum2") = Sum2Row(m, B, b, p)
               /\ is("x") = Scaled(Sum2Row(m, B, b, p), 0)
               /\ is("z") = NormRow(m, B, RowOf(Streams(m, B)[Depth(m)], p, m.dims.d))
  BY DEF RowAt, Projections

\* Row p that a normalized row is computed from, or a row cut out of another buffer.
CutRow(m, B, b, name, h, p) ==
    CASE name = "n1" -> InRow(m, B, b, p)
      [] name = "a0" -> M1Row(m, B, b, p)
      [] name = "n2" -> MidRow(m, B, b, p)
      [] name = "f0" -> M2Row(m, B, b, p)
      [] name = "z"  -> RowOf(Streams(m, B)[Depth(m)], p, m.dims.d)
      [] OTHER       -> RowAt(m, B, b, name, h, p)

RowsAt(m, B, b, name, h) == [p \in 1..m.dims.s |-> RowAt(m, B, b, name, h, p)]
AccRows(m, B, b, name) == [p \in 1..m.dims.s |-> AccRow(m, B, b, name, p)]

WholeVal(m, B, b, name, h) ==
    CASE name = "c"      -> m.c
      [] name = "silu_c" -> Through(B, TableSilu, m.c)
      [] name = "x"      -> Streams(m, B)[b]
      [] OTHER           -> FlattenSeq(RowsAt(m, B, b, name, h))

ValAt(m, B, buf) ==
    CASE buf.stage = "whole" -> WholeVal(m, B, buf.block, buf.name, buf.head)
      [] buf.stage = "acc"   -> FlattenSeq(AccRows(m, B, buf.block, buf.name))
      [] buf.stage = "row"   -> CutRow(m, B, buf.block, buf.name, buf.head, buf.pos)
      [] OTHER               -> RowAt(m, B, buf.block, buf.name, buf.head, buf.pos)

LEMMA ValsAre ==
    ASSUME NEW m, NEW B
    PROVE  \A b, name, h, p :
              /\ ValAt(m, B, Buf(b, name, h)) = WholeVal(m, B, b, name, h)
              /\ ValAt(m, B, Part(Buf(b, name, h), "acc", p)) = FlattenSeq(AccRows(m, B, b, name))
              /\ ValAt(m, B, Part(Buf(b, name, h), "row", p)) = CutRow(m, B, b, name, h, p)
              /\ ValAt(m, B, Part(Buf(b, name, h), "norm", p)) = RowAt(m, B, b, name, h, p)
              /\ ValAt(m, B, Part(Buf(b, name, h), "part", p)) = RowAt(m, B, b, name, h, p)
<1> TAKE b, name, h, p
<1>1. /\ Buf(b, name, h).stage = "whole" /\ Buf(b, name, h).name = name
      /\ Buf(b, name, h).block = b /\ Buf(b, name, h).head = h
  BY DEF Buf
<1>2. \A stage : /\ Part(Buf(b, name, h), stage, p).stage = stage
                 /\ Part(Buf(b, name, h), stage, p).name = name
                 /\ Part(Buf(b, name, h), stage, p).block = b
                 /\ Part(Buf(b, name, h), stage, p).head = h
                 /\ Part(Buf(b, name, h), stage, p).pos = p
  BY DEF Buf, Part
<1>3. ValAt(m, B, Buf(b, name, h)) = WholeVal(m, B, b, name, h)
  BY <1>1 DEF ValAt
<1>4. /\ ValAt(m, B, Part(Buf(b, name, h), "acc", p)) = FlattenSeq(AccRows(m, B, b, name))
      /\ ValAt(m, B, Part(Buf(b, name, h), "row", p)) = CutRow(m, B, b, name, h, p)
  BY <1>2 DEF ValAt
<1>5. /\ ValAt(m, B, Part(Buf(b, name, h), "norm", p)) = RowAt(m, B, b, name, h, p)
      /\ ValAt(m, B, Part(Buf(b, name, h), "part", p)) = RowAt(m, B, b, name, h, p)
  BY <1>2 DEF ValAt
<1> QED BY <1>3, <1>4, <1>5

LEMMA CutsAre ==
    ASSUME NEW m, NEW B, NEW b, NEW h, NEW p
    PROVE  /\ CutRow(m, B, b, "n1", h, p) = InRow(m, B, b, p)
           /\ CutRow(m, B, b, "a0", h, p) = M1Row(m, B, b, p)
           /\ CutRow(m, B, b, "n2", h, p) = MidRow(m, B, b, p)
           /\ CutRow(m, B, b, "f0", h, p) = M2Row(m, B, b, p)
           /\ CutRow(m, B, b, "z", h, p) = RowOf(Streams(m, B)[Depth(m)], p, m.dims.d)
           /\ \A name : name \notin {"n1", "a0", "n2", "f0", "z"}
                          => CutRow(m, B, b, name, h, p) = RowAt(m, B, b, name, h, p)
  BY DEF CutRow

(******************************* the ops compute ***************************)
\* The lengths that two of the ops check: the modulation reads all of c, the first
\* residual all of the latent history.
Enforces(m, buf) ==
    /\ buf = Part(Buf(1, "adaln", 0), "acc", 0) => Len(m.c) = m.dims.s * m.dims.d
    /\ buf = Buf(1, "sum1", 0) => Len(m.x) = m.dims.s * m.dims.d

\* The op's operands hold their forward values.
Fed(m, B, op, f) == \A buf \in Range(op.args) : buf \in DOMAIN f /\ f[buf] = ValAt(m, B, buf)

Computes(m, B, op) ==
    \A f : Fed(m, B, op, f) /\ Kernel(op, f, B).err = "ok" =>
        Kernel(op, f, B).out = ValAt(m, B, op.out_buf) /\ Enforces(m, op.out_buf)

\* Neither of those two buffers.
Plain(buf) == buf.name # "sum1" /\ (buf.stage = "acc" => buf.name # "adaln")

LEMMA PlainEnforces ==
    ASSUME NEW m, NEW buf, Plain(buf)
    PROVE  Enforces(m, buf)
<1>1. /\ Part(Buf(1, "adaln", 0), "acc", 0).name = "adaln" /\ Part(Buf(1, "adaln", 0), "acc", 0).stage = "acc"
      /\ Buf(1, "sum1", 0).name = "sum1"
  BY DEF Buf, Part
<1> QED BY <1>1 DEF Plain, Enforces

LEMMA PlainAre ==
    ASSUME NEW b, NEW name, NEW h, name # "sum1"
    PROVE  /\ Plain(Buf(b, name, h))
           /\ \A p : \A stage \in {"row", "norm", "part"} : Plain(Part(Buf(b, name, h), stage, p))
           /\ name # "adaln" => \A p : Plain(Part(Buf(b, name, h), "acc", p))
<1>1. /\ Buf(b, name, h).stage = "whole" /\ Buf(b, name, h).name = name
      /\ \A p, stage : /\ Part(Buf(b, name, h), stage, p).stage = stage
                       /\ Part(Buf(b, name, h), stage, p).name = name
  BY DEF Buf, Part
<1> QED BY <1>1 DEF Plain

LEMMA Operands ==
    ASSUME NEW m, NEW B, NEW op, NEW f, Fed(m, B, op, f)
    PROVE  /\ ~(\E i \in DOMAIN op.args : op.args[i] \notin DOMAIN f)
           /\ \A i \in DOMAIN op.args : f[op.args[i]] = ValAt(m, B, op.args[i])
  BY DEF Fed, Range

LEMMA OneOperand ==
    ASSUME NEW m, NEW B, NEW in, NEW op, NEW f, op.args = <<in>>, Fed(m, B, op, f)
    PROVE  /\ ~(\E i \in DOMAIN op.args : op.args[i] \notin DOMAIN f)
           /\ 1 \in DOMAIN op.args /\ f[op.args[1]] = ValAt(m, B, in)
  BY OneArg, Operands

LEMMA TwoOperands ==
    ASSUME NEW m, NEW B, NEW a, NEW b, NEW op, NEW f, op.args = <<a, b>>, Fed(m, B, op, f)
    PROVE  /\ ~(\E i \in DOMAIN op.args : op.args[i] \notin DOMAIN f)
           /\ 1 \in DOMAIN op.args /\ f[op.args[1]] = ValAt(m, B, a)
           /\ 2 \in DOMAIN op.args /\ f[op.args[2]] = ValAt(m, B, b)
<1>1. <<a, b>>[1] = a /\ <<a, b>>[2] = b /\ DOMAIN <<a, b>> = {1, 2}
  BY TwoList
<1> QED BY <1>1, Operands

LEMMA SliceComputes ==
    ASSUME NEW m, NEW B, NEW src, NEW out, NEW start, NEW len,
           ValAt(m, B, out) = SubSeq(ValAt(m, B, src), start + 1, start + len), Enforces(m, out)
    PROVE  Computes(m, B, Slice(src, out, start, len))
<1> DEFINE op == Slice(src, out, start, len)
<1>1. /\ op.kind = "Slice" /\ op.args = <<src>> /\ op.out_buf = out /\ op.start = start /\ op.len = len
  BY DEF Slice
<1> HIDE DEF op
<1> SUFFICES ASSUME NEW f, Fed(m, B, op, f), Kernel(op, f, B).err = "ok"
             PROVE  Kernel(op, f, B).out = ValAt(m, B, out)
  BY <1>1 DEF Computes, op
<1>2. PICK v : v = ValAt(m, B, src)
  OBVIOUS
<1>3. Kernel(op, f, B) = SliceKernel(op, v)
  BY <1>1, <1>2, OneOperand DEF Kernel, IsLinear
<1>4. SliceKernel(op, v) = Err("Shape") \/ SliceKernel(op, v) = Out(SubSeq(v, start + 1, start + len))
  BY <1>1 DEF SliceKernel
<1>5. Err("Shape").err # "ok" /\ Out(SubSeq(v, start + 1, start + len)).out = SubSeq(v, start + 1, start + len)
  BY DEF Out, Err
<1> QED BY <1>2, <1>3, <1>4, <1>5

LEMMA ConcatComputes ==
    ASSUME NEW m, NEW B, NEW args, NEW out,
           ValAt(m, B, out) = FlattenSeq([i \in DOMAIN args |-> ValAt(m, B, args[i])]), Enforces(m, out)
    PROVE  Computes(m, B, Concat(args, out))
<1> DEFINE op == Concat(args, out)
<1>1. /\ op.kind = "Concat" /\ op.args = args /\ op.out_buf = out
  BY DEF Concat
<1> HIDE DEF op
<1> SUFFICES ASSUME NEW f, Fed(m, B, op, f), Kernel(op, f, B).err = "ok"
             PROVE  Kernel(op, f, B).out = ValAt(m, B, out)
  BY <1>1 DEF Computes, op
<1>2. [i \in DOMAIN op.args |-> f[op.args[i]]] = [i \in DOMAIN args |-> ValAt(m, B, args[i])]
  BY <1>1, Operands
<1>3. Kernel(op, f, B) = Out(FlattenSeq([i \in DOMAIN op.args |-> f[op.args[i]]]))
  BY <1>1, Operands DEF Kernel, IsLinear
<1> QED BY <1>1, <1>2, <1>3 DEF Out

LEMMA RequantComputes ==
    ASSUME NEW m, NEW B, NEW in, NEW out, NEW shift,
           ValAt(m, B, out) = Scaled(ValAt(m, B, in), shift), Enforces(m, out)
    PROVE  Computes(m, B, Requant(in, out, shift))
<1> DEFINE op == Requant(in, out, shift)
<1>1. /\ op.kind = "Requant" /\ op.args = <<in>> /\ op.out_buf = out /\ op.zero_point = 0
      /\ op.shift = shift /\ op.lo = -Half /\ op.hi = Half - 1 /\ op.rounding = Nearest
  BY DEF Requant
<1> HIDE DEF op
<1> SUFFICES ASSUME NEW f, Fed(m, B, op, f), Kernel(op, f, B).err = "ok"
             PROVE  Kernel(op, f, B).out = ValAt(m, B, out)
  BY <1>1 DEF Computes, op
<1>2. PICK v : v = ValAt(m, B, in)
  OBVIOUS
<1>3. Kernel(op, f, B) = RequantKernel(op, v)
  BY <1>1, <1>2, OneOperand DEF Kernel, IsLinear
<1>4. /\ To8(shift).shift = shift /\ To8(shift).lo = -Half /\ To8(shift).hi = Half - 1
      /\ To8(shift).rounding = Nearest
  BY DEF To8
<1>5. Scaled(v, shift) = [i \in DOMAIN v |-> Requantize(v[i], op.shift, op.zero_point, op.lo, op.hi, op.rounding)]
  BY <1>1, <1>4 DEF Scaled, Rescale
<1>6. RequantKernel(op, v) = Err("InvalidRounding") \/ RequantKernel(op, v) = Out(Scaled(v, shift))
  BY <1>5 DEF RequantKernel
<1>7. Err("InvalidRounding").err # "ok" /\ Out(Scaled(v, shift)).out = Scaled(v, shift)
  BY DEF Out, Err
<1> QED BY <1>2, <1>3, <1>6, <1>7

LEMMA ActivateComputes ==
    ASSUME NEW m, NEW B, NEW table, NEW in, NEW out,
           ValAt(m, B, out) = Through(B, table, ValAt(m, B, in)), Enforces(m, out)
    PROVE  Computes(m, B, Activate(table, in, out))
<1> DEFINE op == Activate(table, in, out)
<1>1. /\ op.kind = "Activation" /\ op.args = <<in>> /\ op.out_buf = out /\ op.table = table
  BY DEF Activate
<1> HIDE DEF op
<1> SUFFICES ASSUME NEW f, Fed(m, B, op, f), Kernel(op, f, B).err = "ok"
             PROVE  Kernel(op, f, B).out = ValAt(m, B, out)
  BY <1>1 DEF Computes, op
<1>2. PICK v : v = ValAt(m, B, in)
  OBVIOUS
<1>3. Kernel(op, f, B) = ActivationKernel(op, v, B)
  BY <1>1, <1>2, OneOperand DEF Kernel, IsLinear
<1>4. \/ ActivationKernel(op, v, B) = Err("MissingTable") \/ ActivationKernel(op, v, B) = Err("TableDomain")
      \/ ActivationKernel(op, v, B) = Out(Through(B, table, v))
  BY <1>1 DEF ActivationKernel, Through
<1>5. /\ Err("MissingTable").err # "ok" /\ Err("TableDomain").err # "ok"
      /\ Out(Through(B, table, v)).out = Through(B, table, v)
  BY DEF Out, Err
<1> QED BY <1>2, <1>3, <1>4, <1>5

LEMMA NormComputes ==
    ASSUME NEW m, NEW B, NEW in, NEW out, NEW shift,
           ValAt(m, B, out) = LayerNorm(To8(shift), ValAt(m, B, in), Find(B.tables, TableInvSqrt)), Enforces(m, out)
    PROVE  Computes(m, B, Norm(in, out, shift))
<1> DEFINE op == Norm(in, out, shift)
<1>1. /\ op.kind = "LayerNorm" /\ op.args = <<in>> /\ op.out_buf = out /\ op.table = TableInvSqrt
      /\ op.shift = shift /\ op.lo = -Half /\ op.hi = Half - 1 /\ op.rounding = Nearest
  BY DEF Norm
<1> HIDE DEF op
<1> SUFFICES ASSUME NEW f, Fed(m, B, op, f), Kernel(op, f, B).err = "ok"
             PROVE  Kernel(op, f, B).out = ValAt(m, B, out)
  BY <1>1 DEF Computes, op
<1>2. PICK v, t, q : v = ValAt(m, B, in) /\ t = Find(B.tables, TableInvSqrt) /\ q = To8(shift)
  OBVIOUS
<1>3. Kernel(op, f, B) = LayerNormKernel(op, v, B)
  BY <1>1, <1>2, OneOperand DEF Kernel, IsLinear
<1>4. q.shift = op.shift /\ q.lo = op.lo /\ q.hi = op.hi /\ q.rounding = op.rounding
  BY <1>1, <1>2 DEF To8
<1>5. LayerNorm(op, v, t) = LayerNorm(q, v, t)
  BY <1>4 DEF LayerNorm, Rescale
<1>6. \/ LayerNormKernel(op, v, B) = Err("MissingTable") \/ LayerNormKernel(op, v, B) = Err("TableDomain")
      \/ LayerNormKernel(op, v, B) = Err("InvalidRounding")
      \/ LayerNormKernel(op, v, B) = Out(LayerNorm(op, v, t))
  BY <1>1, <1>2 DEF LayerNormKernel
<1>7. /\ Err("MissingTable").err # "ok" /\ Err("TableDomain").err # "ok" /\ Err("InvalidRounding").err # "ok"
      /\ Out(LayerNorm(op, v, t)).out = LayerNorm(op, v, t)
  BY DEF Out, Err
<1> QED BY <1>2, <1>3, <1>5, <1>6, <1>7

LEMMA ModulateComputes ==
    ASSUME NEW m, NEW B, NEW x, NEW scale, NEW shift, NEW out, NEW qp, NEW one, NEW bits,
           qp.mod_one = one, qp.mod_bits = bits,
           ValAt(m, B, out) = ModulateVec([one |-> one, shift |-> bits, lo |-> -Half, hi |-> Half - 1,
                                           rounding |-> Nearest],
                                          ValAt(m, B, x), ValAt(m, B, scale), ValAt(m, B, shift)),
           Enforces(m, out)
    PROVE  Computes(m, B, Modulate(x, scale, shift, out, qp))
<1> DEFINE op == Modulate(x, scale, shift, out, qp)
<1>1. /\ op.kind = "Modulate" /\ op.args = <<x, scale, shift>> /\ op.out_buf = out /\ op.one = one
      /\ op.shift = bits /\ op.lo = -Half /\ op.hi = Half - 1 /\ op.rounding = Nearest
  BY DEF Modulate
<1> HIDE DEF op
<1> SUFFICES ASSUME NEW f, Fed(m, B, op, f), Kernel(op, f, B).err = "ok"
             PROVE  Kernel(op, f, B).out = ValAt(m, B, out)
  BY <1>1 DEF Computes, op
<1>2. PICK u, v, w, q :
          /\ u = ValAt(m, B, x) /\ v = ValAt(m, B, scale) /\ w = ValAt(m, B, shift)
          /\ q = [one |-> one, shift |-> bits, lo |-> -Half, hi |-> Half - 1, rounding |-> Nearest]
  OBVIOUS
<1>3. Kernel(op, f, B) = ModulateKernel(op, u, v, w)
  <2>1. /\ DOMAIN op.args = {1, 2, 3} /\ op.args[1] = x /\ op.args[2] = scale /\ op.args[3] = shift
    BY <1>1, ThreeList
  <2>2. ~(\E i \in DOMAIN op.args : op.args[i] \notin DOMAIN f)
        /\ \A i \in DOMAIN op.args : f[op.args[i]] = ValAt(m, B, op.args[i])
    BY Operands
  <2> QED BY <1>1, <1>2, <2>1, <2>2 DEF Kernel, IsLinear
<1>4. q.one = op.one /\ q.shift = op.shift /\ q.lo = op.lo /\ q.hi = op.hi /\ q.rounding = op.rounding
  BY <1>1, <1>2
<1>5. ModulateVec(op, u, v, w) = ModulateVec(q, u, v, w)
  BY <1>4 DEF ModulateVec, Rescale
<1>6. \/ ModulateKernel(op, u, v, w) = Err("InvalidRounding") \/ ModulateKernel(op, u, v, w) = Err("Shape")
      \/ ModulateKernel(op, u, v, w) = Out(ModulateVec(op, u, v, w))
  BY DEF ModulateKernel
<1>7. /\ Err("InvalidRounding").err # "ok" /\ Err("Shape").err # "ok"
      /\ Out(ModulateVec(op, u, v, w)).out = ModulateVec(op, u, v, w)
  BY DEF Out, Err
<1> QED BY <1>2, <1>3, <1>5, <1>6, <1>7

LEMMA GateComputes ==
    ASSUME NEW m, NEW B, NEW g, NEW x, NEW out, NEW bits,
           ValAt(m, B, out) = GateVec(To8(bits), ValAt(m, B, g), ValAt(m, B, x)), Enforces(m, out)
    PROVE  Computes(m, B, Gate(g, x, out, bits))
<1> DEFINE op == Gate(g, x, out, bits)
<1>1. /\ op.kind = "Gate" /\ op.args = <<g, x>> /\ op.out_buf = out
      /\ op.shift = bits /\ op.lo = -Half /\ op.hi = Half - 1 /\ op.rounding = Nearest
  BY DEF Gate
<1> HIDE DEF op
<1> SUFFICES ASSUME NEW f, Fed(m, B, op, f), Kernel(op, f, B).err = "ok"
             PROVE  Kernel(op, f, B).out = ValAt(m, B, out)
  BY <1>1 DEF Computes, op
<1>2. PICK u, v, q : u = ValAt(m, B, g) /\ v = ValAt(m, B, x) /\ q = To8(bits)
  OBVIOUS
<1>3. Kernel(op, f, B) = GateKernel(op, u, v)
  BY <1>1, <1>2, TwoOperands DEF Kernel, IsLinear
<1>4. q.shift = op.shift /\ q.lo = op.lo /\ q.hi = op.hi /\ q.rounding = op.rounding
  BY <1>1, <1>2 DEF To8
<1>5. GateVec(op, u, v) = GateVec(q, u, v)
  BY <1>4 DEF GateVec, Rescale
<1>6. \/ GateKernel(op, u, v) = Err("InvalidRounding") \/ GateKernel(op, u, v) = Err("Shape")
      \/ GateKernel(op, u, v) = Out(GateVec(op, u, v))
  BY DEF GateKernel
<1>7. /\ Err("InvalidRounding").err # "ok" /\ Err("Shape").err # "ok"
      /\ Out(GateVec(op, u, v)).out = GateVec(op, u, v)
  BY DEF Out, Err
<1> QED BY <1>2, <1>3, <1>5, <1>6, <1>7

LEMMA AddComputes ==
    ASSUME NEW m, NEW B, NEW a, NEW b, NEW out,
           Len(ValAt(m, B, a)) = Len(ValAt(m, B, b))
             => ValAt(m, B, out) = ResidualAdd(ValAt(m, B, a), ValAt(m, B, b)) /\ Enforces(m, out)
    PROVE  Computes(m, B, Add(a, b, out))
<1> DEFINE op == Add(a, b, out)
<1>1. op.kind = "Add" /\ op.args = <<a, b>> /\ op.out_buf = out
  BY DEF Add
<1> HIDE DEF op
<1> SUFFICES ASSUME NEW f, Fed(m, B, op, f), Kernel(op, f, B).err = "ok"
             PROVE  Kernel(op, f, B).out = ValAt(m, B, out) /\ Enforces(m, out)
  BY <1>1 DEF Computes, op
<1>2. PICK u, v : u = ValAt(m, B, a) /\ v = ValAt(m, B, b)
  OBVIOUS
<1>3. Kernel(op, f, B) = AddKernel(u, v)
  BY <1>1, <1>2, TwoOperands DEF Kernel, IsLinear
<1>4. \/ AddKernel(u, v) = Err("Shape")
      \/ AddKernel(u, v) = Out(ResidualAdd(u, v)) /\ Len(u) = Len(v)
  BY DEF AddKernel
<1>5. Err("Shape").err # "ok" /\ Out(ResidualAdd(u, v)).out = ResidualAdd(u, v)
  BY DEF Out, Err
<1> QED BY <1>2, <1>3, <1>4, <1>5

LEMMA MatMulComputes ==
    ASSUME NEW m, NEW B, NEW a, NEW b, NEW out, NEW rows, NEW inner, NEW cols, NEW t,
           ValAt(m, B, out) = MatMul(ValAt(m, B, a), ValAt(m, B, b), MatMulOp(a, b, out, rows, inner, cols, t)),
           Enforces(m, out)
    PROVE  Computes(m, B, MatMulOp(a, b, out, rows, inner, cols, t))
<1> DEFINE op == MatMulOp(a, b, out, rows, inner, cols, t)
<1>1. op.kind = "MatMul" /\ op.args = <<a, b>> /\ op.out_buf = out
  BY DEF MatMulOp
<1> HIDE DEF op
<1> SUFFICES ASSUME NEW f, Fed(m, B, op, f), Kernel(op, f, B).err = "ok"
             PROVE  Kernel(op, f, B).out = ValAt(m, B, out)
  BY <1>1 DEF Computes, op
<1>2. PICK u, v : u = ValAt(m, B, a) /\ v = ValAt(m, B, b)
  OBVIOUS
<1>3. Kernel(op, f, B) = MatMulKernel(op, u, v)
  BY <1>1, <1>2, TwoOperands DEF Kernel, IsLinear
<1>4. MatMulKernel(op, u, v) = Err("Shape") \/ MatMulKernel(op, u, v) = Out(MatMul(u, v, op))
  BY DEF MatMulKernel
<1>5. Err("Shape").err # "ok" /\ Out(MatMul(u, v, op)).out = MatMul(u, v, op)
  BY DEF Out, Err
<1>6. ValAt(m, B, out) = MatMul(u, v, op)
  BY <1>2 DEF op
<1> QED BY <1>3, <1>4, <1>5, <1>6

LEMMA SoftmaxComputes ==
    ASSUME NEW m, NEW B, NEW in, NEW out, NEW n, NEW one,
           ValAt(m, B, out) = SoftmaxRows(ValAt(m, B, in), n, Find(B.tables, TableExp), one), Enforces(m, out)
    PROVE  Computes(m, B, SoftmaxOp(in, out, n, one))
<1> DEFINE op == SoftmaxOp(in, out, n, one)
<1>1. /\ op.kind = "Softmax" /\ op.args = <<in>> /\ op.out_buf = out /\ op.table = TableExp
      /\ op.row_len = n /\ op.one = one
  BY DEF SoftmaxOp
<1> HIDE DEF op
<1> SUFFICES ASSUME NEW f, Fed(m, B, op, f), Kernel(op, f, B).err = "ok"
             PROVE  Kernel(op, f, B).out = ValAt(m, B, out)
  BY <1>1 DEF Computes, op
<1>2. PICK v, t : v = ValAt(m, B, in) /\ t = Find(B.tables, TableExp)
  OBVIOUS
<1>3. Kernel(op, f, B) = SoftmaxKernel(op, v, B)
  BY <1>1, <1>2, OneOperand DEF Kernel, IsLinear
<1>4. \/ SoftmaxKernel(op, v, B) = Err("MissingTable") \/ SoftmaxKernel(op, v, B) = Err("TableDomain")
      \/ SoftmaxKernel(op, v, B) = Out(SoftmaxRows(v, n, t, one))
  BY <1>1, <1>2 DEF SoftmaxKernel
<1>5. /\ Err("MissingTable").err # "ok" /\ Err("TableDomain").err # "ok"
      /\ Out(SoftmaxRows(v, n, t, one)).out = SoftmaxRows(v, n, t, one)
  BY DEF Out, Err
<1> QED BY <1>2, <1>3, <1>4, <1>5

LEMMA BatchedComputes ==
    ASSUME NEW m, NEW B, NEW b, NEW k, NEW in, NEW out, NEW w, w = Find(B.weights, WeightId(b, k)),
           Len(ValAt(m, B, in)) = m.dims.s * Cols(w)
             => /\ ValAt(m, B, out) = LinearRows(w, ValAt(m, B, in), [i \in 1..Rows(w) |-> 0], m.dims.s)
                /\ Enforces(m, out)
    PROVE  Computes(m, B, Batched(m, b, k, in, out))
<1> DEFINE op == Batched(m, b, k, in, out)
<1>1. /\ op.kind = "BatchedLinear" /\ op.args = <<in>> /\ op.out_buf = out /\ op.weight = WeightId(b, k)
      /\ op.bias = <<>> /\ op.seq = m.dims.s
  BY DEF Batched
<1> HIDE DEF op
<1> SUFFICES ASSUME NEW f, Fed(m, B, op, f), Kernel(op, f, B).err = "ok"
             PROVE  Kernel(op, f, B).out = ValAt(m, B, out) /\ Enforces(m, out)
  BY <1>1 DEF Computes, op
<1>2. PICK v, z : v = ValAt(m, B, in) /\ z = LinearRows(w, v, [i \in 1..Rows(w) |-> 0], m.dims.s)
  OBVIOUS
<1>3. Kernel(op, f, B) = LinearKernel(op, v, B)
  BY <1>1, <1>2, OneOperand DEF Kernel, IsLinear
<1>4. SeqLen(op) = m.dims.s /\ Bias(op, B) = [i \in 1..Rows(w) |-> 0] /\ Find(B.weights, op.weight) = w
  BY <1>1 DEF SeqLen, Bias
<1>5. \/ LinearKernel(op, v, B) = Err("MissingWeight") \/ LinearKernel(op, v, B) = Err("WeightShape")
      \/ LinearKernel(op, v, B) = Err("Shape") \/ LinearKernel(op, v, B) = Err("MissingBias")
      \/ LinearKernel(op, v, B) = Out(z) /\ Len(v) = m.dims.s * Cols(w)
  BY <1>2, <1>4 DEF LinearKernel
<1>6. /\ Err("MissingWeight").err # "ok" /\ Err("WeightShape").err # "ok" /\ Err("Shape").err # "ok"
      /\ Err("MissingBias").err # "ok" /\ Out(z).out = z
  BY DEF Out, Err
<1> QED BY <1>2, <1>3, <1>5, <1>6

(******************************* the linears *******************************)
\* The rows and columns of the k-th linear of a block.
RowsOfLinear(m, k) ==
    CASE k = 1 -> 6 * m.dims.d [] k = 2 -> 3 * Inner(m) [] k = 3 -> m.dims.d [] k = 4 -> m.dims.mlp
      [] OTHER -> m.dims.d
ColsOfLinear(m, k) ==
    CASE k = 3 -> Inner(m) [] k = 5 -> m.dims.mlp [] OTHER -> m.dims.d

LEMMA DenseShape ==
    ASSUME NEW m \in Models, Built(m), NEW b \in 1..Depth(m), NEW k \in 1..5
    PROVE  LET w == Find(Binds(m).weights, WeightId(b, k))
           IN  Rows(w) = RowsOfLinear(m, k) /\ Cols(w) = ColsOfLinear(m, k)
<1>1. PICK w : w = Find(Weights(m), WeightId(b, k))
  OBVIOUS
<1>2. w.shape = WeightShape(m, k)
  BY <1>1, WeightFound
<1>3. k = 1 \/ k = 2 \/ k = 3 \/ k = 4 \/ k = 5
  OBVIOUS
<1>4. WeightShape(m, k)[1] = RowsOfLinear(m, k) /\ WeightShape(m, k)[2] = ColsOfLinear(m, k)
  BY <1>3 DEF WeightShape, Linears, RowsOfLinear, ColsOfLinear
<1>5. Rows(w) = RowsOfLinear(m, k) /\ Cols(w) = ColsOfLinear(m, k)
  BY <1>2, <1>4 DEF Rows, Cols
<1>6. Binds(m).weights = Weights(m)
  BY DEF Binds
<1> QED BY <1>1, <1>5, <1>6

LEMMA DimsAre ==
    ASSUME NEW m \in Models
    PROVE  /\ Inner(m) \in Nat /\ 6 * m.dims.d \in Nat /\ 3 * Inner(m) \in Nat
           /\ \A k \in 1..5 : RowsOfLinear(m, k) \in Nat /\ ColsOfLinear(m, k) \in Nat
<1>1. m.dims.d \in Nat /\ m.dims.h \in Nat /\ m.dims.dh \in Nat /\ m.dims.mlp \in Nat
  BY ModelFacts
<1>2. Inner(m) \in Nat
  BY <1>1 DEF Inner
<1>3. 6 * m.dims.d \in Nat /\ 3 * Inner(m) \in Nat
  BY <1>1, <1>2
<1> QED BY <1>1, <1>2, <1>3 DEF RowsOfLinear, ColsOfLinear

(******************************* the streams *******************************)
\* The first streams of a model, up to block k.
StreamsTo(m, B, k, f) ==
    /\ DOMAIN f = 0..k /\ f[0] = m.x
    /\ \A b \in 1..k : f[b] = ForwardBlock(m, B, f[b - 1], b)

LEMMA StreamsExist ==
    ASSUME NEW m, NEW B, NEW n \in Nat
    PROVE  \E f : StreamsTo(m, B, n, f)
<1> DEFINE S == { k \in Nat : \E f : StreamsTo(m, B, k, f) }
<1>1. 0 \in S
  <2> DEFINE f == [i \in 0..0 |-> m.x]
  <2>1. DOMAIN f = 0..0 /\ f[0] = m.x /\ 1..0 = {}
    OBVIOUS
  <2> HIDE DEF f
  <2>2. StreamsTo(m, B, 0, f)
    BY <2>1 DEF StreamsTo
  <2> QED BY <2>2
<1>2. ASSUME NEW k \in Nat, k \in S PROVE k + 1 \in S
  <2>1. PICK f : StreamsTo(m, B, k, f)
    BY <1>2
  <2> DEFINE g == [i \in 0..(k + 1) |-> IF i = k + 1 THEN ForwardBlock(m, B, f[k], k + 1) ELSE f[i]]
  <2>2. DOMAIN g = 0..(k + 1) /\ (\A i \in 0..k : g[i] = f[i])
        /\ g[k + 1] = ForwardBlock(m, B, f[k], k + 1)
    OBVIOUS
  <2> HIDE DEF g
  <2>3. ASSUME NEW b \in 1..(k + 1) PROVE g[b] = ForwardBlock(m, B, g[b - 1], b)
    <3>1. CASE b = k + 1
      <4>1. b - 1 = k /\ k \in 0..k
        BY <3>1
      <4> QED BY <2>2, <3>1, <4>1
    <3>2. CASE b \in 1..k
      <4>1. b \in 0..k /\ b - 1 \in 0..k
        BY <3>2
      <4> QED BY <2>1, <2>2, <3>2, <4>1 DEF StreamsTo
    <3> QED BY <3>1, <3>2
  <2>4. g[0] = m.x
    BY <2>1, <2>2, 0 \in 0..k DEF StreamsTo
  <2>5. StreamsTo(m, B, k + 1, g)
    BY <2>2, <2>3, <2>4 DEF StreamsTo
  <2> QED BY <2>5
<1> HIDE DEF S
<1>3. n \in S
  BY <1>1, <1>2, SetInduction
<1> QED BY <1>3 DEF S

LEMMA StreamsAre ==
    ASSUME NEW m, NEW B, Depth(m) \in Nat
    PROVE  StreamsTo(m, B, Depth(m), Streams(m, B))
<1> DEFINE n == Depth(m)
           Eq(f) == f = [b \in 0..n |-> IF b = 0 THEN m.x ELSE ForwardBlock(m, B, f[b - 1], b)]
           x == CHOOSE f : Eq(f)
<1>1. Streams(m, B) = x
  BY DEF Streams, Depth
<1>2. \E f : Eq(f)
  <2>1. PICK f : StreamsTo(m, B, n, f)
    BY StreamsExist
  <2> DEFINE g == [b \in 0..n |-> f[b]]
  <2>2. ASSUME NEW b \in 0..n
        PROVE  g[b] = IF b = 0 THEN m.x ELSE ForwardBlock(m, B, g[b - 1], b)
    <3>1. CASE b = 0
      BY <2>1, <3>1 DEF StreamsTo
    <3>2. CASE b # 0
      <4>1. b \in 1..n /\ b - 1 \in 0..n
        BY <3>2
      <4>2. f[b] = ForwardBlock(m, B, f[b - 1], b)
        BY <2>1, <4>1 DEF StreamsTo
      <4>3. g[b] = f[b] /\ g[b - 1] = f[b - 1]
        BY <4>1
      <4> HIDE DEF g
      <4> QED BY <3>2, <4>2, <4>3
    <3> QED BY <3>1, <3>2
  <2>3. g = [b \in 0..n |-> g[b]]
    OBVIOUS
  <2> HIDE DEF g, n
  <2>4. Eq(g)
    BY <2>2, <2>3
  <2> QED BY <2>4
<1>3. Eq(x)
  <2> HIDE DEF Eq
  <2> QED BY <1>2
<1> HIDE DEF x
<1>4. DOMAIN x = 0..n /\ x[0] = m.x
  BY <1>3, 0 \in 0..n
<1>5. ASSUME NEW b \in 1..n PROVE x[b] = ForwardBlock(m, B, x[b - 1], b)
  BY <1>3, b \in 0..n, b # 0
<1> QED BY <1>1, <1>4, <1>5 DEF StreamsTo

\* The matrices of a block are its rows, and so are the streams and the output.
LEMMA MatricesAre ==
    ASSUME NEW m, NEW B, NEW b
    PROVE  /\ Ada(m, B, b) = FlattenSeq(RowsAt(m, B, b, "adaln", 0))
           /\ QkvOf(m, B, b) = FlattenSeq(RowsAt(m, B, b, "qkv", 0))
           /\ MidOf(m, B, b) = FlattenSeq(RowsAt(m, B, b, "x1", 0))
<1> DEFINE S == 1..m.dims.s
<1>1. RowsAt(m, B, b, "adaln", 0)
      = [p \in S |-> Projected(m, B, b, 1, Through(B, TableSilu, RowOf(m.c, p, m.dims.d)))]
  <2>1. ASSUME NEW p \in S
        PROVE  RowAt(m, B, b, "adaln", 0, p)
               = Projected(m, B, b, 1, Through(B, TableSilu, RowOf(m.c, p, m.dims.d)))
    <3>1. RowAt(m, B, b, "adaln", 0, p) = Requanted(m, B, b, "adaln", p)
      BY RowsAre
    <3>2. LinearOf("adaln") = 1
          /\ AccRow(m, B, b, "adaln", p) = Dense(B, b, 1, Through(B, TableSilu, RowOf(m.c, p, m.dims.d)))
      BY DEF LinearOf, AccRow
    <3> QED BY <3>1, <3>2 DEF Requanted, Projected
  <2> QED BY <2>1 DEF RowsAt
<1>2. Ada(m, B, b) = FlattenSeq(RowsAt(m, B, b, "adaln", 0))
  BY <1>1 DEF Ada
<1>3. RowsAt(m, B, b, "qkv", 0)
      = [p \in S |-> Projected(m, B, b, 2, SublayerRow(m, B, InRow(m, B, b, p), ChunkRow(m, B, b, p, 1),
                                                       ChunkRow(m, B, b, p, 0)))]
  <2>1. ASSUME NEW p \in S
        PROVE  RowAt(m, B, b, "qkv", 0, p)
               = Projected(m, B, b, 2, SublayerRow(m, B, InRow(m, B, b, p), ChunkRow(m, B, b, p, 1),
                                                   ChunkRow(m, B, b, p, 0)))
    <3>1. RowAt(m, B, b, "qkv", 0, p) = Requanted(m, B, b, "qkv", p)
      BY RowsAre
    <3>2. LinearOf("qkv") = 2
          /\ AccRow(m, B, b, "qkv", p) = Dense(B, b, 2, NormRow(m, B, M1Row(m, B, b, p)))
      BY DEF LinearOf, AccRow
    <3> QED BY <3>1, <3>2 DEF Requanted, Projected, SublayerRow, M1Row
  <2> QED BY <2>1 DEF RowsAt
<1>4. QkvOf(m, B, b) = FlattenSeq(RowsAt(m, B, b, "qkv", 0))
  BY <1>3 DEF QkvOf, Qkv, InRow, ChunkRow
<1>5. RowsAt(m, B, b, "x1", 0)
      = [p \in S |-> GatedRow(InRow(m, B, b, p), ChunkRow(m, B, b, p, 2),
                              Projected(m, B, b, 3, HeadsRow(m, B, QkvOf(m, B, b), p)), Derived(m).gate_msa_bits)]
  <2>1. ASSUME NEW p \in S
        PROVE  RowAt(m, B, b, "x1", 0, p)
               = GatedRow(InRow(m, B, b, p), ChunkRow(m, B, b, p, 2),
                          Projected(m, B, b, 3, HeadsRow(m, B, QkvOf(m, B, b), p)), Derived(m).gate_msa_bits)
    <3>1. RowAt(m, B, b, "x1", 0, p) = Scaled(Sum1Row(m, B, b, p), 0)
      BY RowsAre
    <3>2. LinearOf("a") = 3
          /\ AccRow(m, B, b, "a", p) = Dense(B, b, 3, HeadsRow(m, B, QkvOf(m, B, b), p))
      BY DEF LinearOf, AccRow
    <3>3. Requanted(m, B, b, "a", p) = Projected(m, B, b, 3, HeadsRow(m, B, QkvOf(m, B, b), p))
      BY <3>2 DEF Requanted, Projected
    <3> QED BY <3>1, <3>3 DEF Sum1Row, Gated1, GatedRow
  <2> QED BY <2>1 DEF RowsAt
<1>6. MidOf(m, B, b) = FlattenSeq(RowsAt(m, B, b, "x1", 0))
  BY <1>5 DEF MidOf, Mid, InRow, ChunkRow
<1> QED BY <1>2, <1>4, <1>6

LEMMA StreamIs ==
    ASSUME NEW m, NEW B, Depth(m) \in Nat, NEW b \in 1..Depth(m)
    PROVE  Streams(m, B)[b] = FlattenSeq(RowsAt(m, B, b, "x", 0))
<1> DEFINE S == 1..m.dims.s
           hidden(p) == HiddenRow(m, B, MidOf(m, B, b), b, Ada(m, B, b), p)
<1>1. ASSUME NEW p
      PROVE  RowAt(m, B, b, "x", 0, p)
             = GatedRow(MidRow(m, B, b, p), ChunkRow(m, B, b, p, 5),
                        Projected(m, B, b, 5, Through(B, TableGelu, hidden(p))), Derived(m).gate_mlp_bits)
  <2>1. RowAt(m, B, b, "x", 0, p) = Scaled(Sum2Row(m, B, b, p), 0)
    BY RowsAre
  <2>2. LinearOf("f") = 5 /\ AccRow(m, B, b, "f", p) = Dense(B, b, 5, Through(B, TableGelu, hidden(p)))
    BY DEF LinearOf, AccRow
  <2>3. Requanted(m, B, b, "f", p) = Projected(m, B, b, 5, Through(B, TableGelu, hidden(p)))
    BY <2>2 DEF Requanted, Projected
  <2> QED BY <2>1, <2>3 DEF Sum2Row, Gated2, GatedRow
<1>2. Streams(m, B)[b] = ForwardBlock(m, B, Streams(m, B)[b - 1], b)
  BY StreamsAre DEF StreamsTo
<1>3. ForwardBlock(m, B, Streams(m, B)[b - 1], b)
      = FlattenSeq([p \in S |->
            GatedRow(MidRow(m, B, b, p), ChunkRow(m, B, b, p, 5),
                     Projected(m, B, b, 5, Through(B, TableGelu, hidden(p))), Derived(m).gate_mlp_bits)])
  BY DEF ForwardBlock, MidOf, QkvOf, MidRow, ChunkRow
<1> HIDE DEF hidden
<1>4. RowsAt(m, B, b, "x", 0)
      = [p \in S |->
            GatedRow(MidRow(m, B, b, p), ChunkRow(m, B, b, p, 5),
                     Projected(m, B, b, 5, Through(B, TableGelu, hidden(p))), Derived(m).gate_mlp_bits)]
  BY <1>1 DEF RowsAt
<1> QED BY <1>2, <1>3, <1>4

LEMMA ForwardIs ==
    ASSUME NEW m, NEW B
    PROVE  Forward(m, B) = FlattenSeq(RowsAt(m, B, 0, "z", 0))
<1>1. \A p : RowAt(m, B, 0, "z", 0, p) = NormRow(m, B, RowOf(Streams(m, B)[Depth(m)], p, m.dims.d))
  BY RowsAre
<1>2. RowsAt(m, B, 0, "z", 0)
      = [p \in 1..m.dims.s |-> NormRow(m, B, RowOf(Streams(m, B)[Depth(m)], p, m.dims.d))]
  BY <1>1 DEF RowsAt
<1> QED BY <1>2 DEF Forward, Depth

\* The rows of the hidden layer are the ones its name stands for.
LEMMA HiddenIs ==
    ASSUME NEW m, NEW B, NEW b, NEW p
    PROVE  HiddenRow(m, B, MidOf(m, B, b), b, Ada(m, B, b), p) = Requanted(m, B, b, "h1", p)
<1>1. LinearOf("h1") = 4 /\ AccRow(m, B, b, "h1", p) = Dense(B, b, 4, NormRow(m, B, M2Row(m, B, b, p)))
  BY DEF LinearOf, AccRow
<1>2. Requanted(m, B, b, "h1", p) = Projected(m, B, b, 4, NormRow(m, B, M2Row(m, B, b, p)))
  BY <1>1 DEF Requanted, Projected
<1> QED BY <1>2 DEF HiddenRow, SublayerRow, M2Row, MidRow, ChunkRow

(******************************** the shapes *******************************)
\* How wide the rows of a name are.
Width(m, name) ==
    CASE name = "adaln" -> 6 * m.dims.d
      [] name = "qkv" -> 3 * Inner(m)
      [] name \in {"q", "k", "v", "attn_cat"} -> Inner(m)
      [] name \in {"qh", "kh", "vh", "oh", "pv"} -> m.dims.dh
      [] name \in {"qk", "scores", "prob"} -> m.dims.s
      [] name \in {"h1", "g"} -> m.dims.mlp
      [] OTHER -> m.dims.d

Shaped(m, B, b, name, h) == Grid(RowsAt(m, B, b, name, h), m.dims.s, Width(m, name))

\* A built model, its bindings and one of its blocks.
InBlock(m, B, b) == m \in Models /\ Built(m) /\ B = Binds(m) /\ b \in 1..Depth(m)

LEMMA WidthIs ==
    ASSUME NEW m \in Models, NEW name
    PROVE  m.dims.s \in Nat /\ m.dims.d \in Nat /\ Width(m, name) \in Nat
  BY ModelFacts, DimsAre DEF Width

LEMMA RowsEntry ==
    ASSUME NEW m, NEW B, NEW b, NEW name, NEW h, NEW p \in 1..m.dims.s
    PROVE  RowsAt(m, B, b, name, h)[p] = RowAt(m, B, b, name, h, p)
  BY DEF RowsAt

\* From rows that have the width of the name.
LEMMA ShapedRows ==
    ASSUME NEW m, NEW B, NEW b, NEW name, NEW h,
           \A p \in 1..m.dims.s : IsList(RowAt(m, B, b, name, h, p))
                                  /\ Len(RowAt(m, B, b, name, h, p)) = Width(m, name)
    PROVE  Shaped(m, B, b, name, h)
<1>1. RowsAt(m, B, b, name, h) = [p \in 1..m.dims.s |-> RowsAt(m, B, b, name, h)[p]]
  BY DEF RowsAt
<1> QED BY <1>1, RowsEntry DEF Shaped, Grid

\* What the rows of a name flatten to, and its rows again.
LEMMA WholeHolds ==
    ASSUME NEW m \in Models, NEW B, NEW b, NEW name, NEW h, Shaped(m, B, b, name, h)
    PROVE  LET z == FlattenSeq(RowsAt(m, B, b, name, h))
           IN  /\ Holds(z, RowsAt(m, B, b, name, h), m.dims.s, Width(m, name))
               /\ \A p \in 1..m.dims.s : RowOf(z, p, Width(m, name)) = RowAt(m, B, b, name, h, p)
<1>1. PICK F, s, n : F = RowsAt(m, B, b, name, h) /\ s = m.dims.s /\ n = Width(m, name)
  OBVIOUS
<1>2. s \in Nat /\ n \in Nat
  BY <1>1, WidthIs
<1>3. Grid(F, s, n)
  BY <1>1 DEF Shaped
<1>4. PICK z : z = FlattenSeq(F)
  OBVIOUS
<1>5. Holds(z, F, s, n)
  BY <1>2, <1>3, <1>4, GridFlat
<1>6. \A p \in 1..s : RowOf(z, p, n) = F[p]
  BY <1>2, <1>3, <1>5, FlatRow
<1>7. \A p \in 1..s : F[p] = RowAt(m, B, b, name, h, p)
  BY <1>1, RowsEntry
<1> QED BY <1>1, <1>4, <1>5, <1>6, <1>7

\* The rows of a name are bands of those of another.
Banded(m, B, b, src, name, h, col) ==
    \A p \in 1..m.dims.s :
        RowAt(m, B, b, name, h, p)
        = SubSeq(FlattenSeq(RowsAt(m, B, b, src, 0)), (p - 1) * Width(m, src) + col + 1,
                 (p - 1) * Width(m, src) + col + Width(m, name))

LEMMA BandRows ==
    ASSUME NEW m \in Models, NEW B, NEW b, NEW src, NEW name, NEW h, NEW col \in Nat,
           Shaped(m, B, b, src, 0), col + Width(m, name) <= Width(m, src),
           \A p \in 1..m.dims.s : RowAt(m, B, b, name, h, p)
                                  = SubSeq(RowAt(m, B, b, src, 0, p), col + 1, col + Width(m, name))
    PROVE  Shaped(m, B, b, name, h) /\ Banded(m, B, b, src, name, h, col)
<1>1. PICK F, z, s, n, len : /\ F = RowsAt(m, B, b, src, 0) /\ z = FlattenSeq(F) /\ s = m.dims.s
                             /\ n = Width(m, src) /\ len = Width(m, name)
  OBVIOUS
<1>2. s \in Nat /\ n \in Nat /\ len \in Nat /\ col + len <= n
  BY <1>1, WidthIs
<1>3. Holds(z, F, s, n)
  BY <1>1, WholeHolds
<1>4. \A p \in 1..s : F[p] = RowAt(m, B, b, src, 0, p)
  BY <1>1, RowsEntry
<1>5. Shaped(m, B, b, name, h)
  <2> SUFFICES ASSUME NEW p \in 1..m.dims.s
               PROVE  IsList(RowAt(m, B, b, name, h, p)) /\ Len(RowAt(m, B, b, name, h, p)) = Width(m, name)
    BY ShapedRows
  <2>1. PICK x : x = RowAt(m, B, b, src, 0, p)
    OBVIOUS
  <2>2. IsCut(SubSeq(x, col + 1, col + len), x, col, len)
    BY <1>2, col \in Int, CutIs
  <2>3. RowAt(m, B, b, name, h, p) = SubSeq(x, col + 1, col + len)
    BY <1>1, <2>1
  <2> QED BY <1>1, <2>2, <2>3 DEF IsCut
<1>6. ASSUME NEW p \in 1..s
      PROVE  RowAt(m, B, b, name, h, p) = SubSeq(z, (p - 1) * n + col + 1, (p - 1) * n + col + len)
  <2>1. SubSeq(z, (p - 1) * n + col + 1, (p - 1) * n + col + len) = SubSeq(F[p], col + 1, col + len)
    <3>1. SameBand(z, F, p, n, col, len)
      BY <1>2, <1>3, FlatBand
    <3> QED BY <3>1, Zenon DEF SameBand
  <2> QED BY <1>1, <1>4, <2>1
<1>7. Banded(m, B, b, src, name, h, col)
  BY <1>1, <1>6 DEF Banded
<1> QED BY <1>5, <1>7

\* A dense layer and its rescaling.
LEMMA ProjectedRows ==
    ASSUME NEW m, NEW B, NEW b, InBlock(m, B, b), NEW name \in Projections
    PROVE  /\ Grid(AccRows(m, B, b, name), m.dims.s, Width(m, name))
           /\ Shaped(m, B, b, name, 0)
           /\ FlattenSeq(RowsAt(m, B, b, name, 0))
              = Scaled(FlattenSeq(AccRows(m, B, b, name)), Derived(m).blocks[b][LinearOf(name)])
<1>1. m \in Models /\ Built(m) /\ B = Binds(m) /\ b \in 1..Depth(m)
  BY DEF InBlock
<1>2. PICK k : k = LinearOf(name)
  OBVIOUS
<1>3. k \in 1..5 /\ RowsOfLinear(m, k) = Width(m, name)
  BY <1>2 DEF LinearOf, Projections, RowsOfLinear, Width
<1>4. PICK w, n, s, shift : /\ w = Find(B.weights, WeightId(b, k)) /\ n = Width(m, name) /\ s = m.dims.s
                            /\ shift = Derived(m).blocks[b][k]
  OBVIOUS
<1>5. Rows(w) = n /\ n \in Nat /\ s \in Nat
  BY <1>1, <1>3, <1>4, DenseShape, WidthIs
<1>6. \A x : IsList(Dense(B, b, k, x)) /\ Len(Dense(B, b, k, x)) = n
  BY <1>4, <1>5, DenseRow DEF Dense
<1>7. \A p : \E x : AccRow(m, B, b, name, p) = Dense(B, b, k, x)
  BY <1>2 DEF AccRow, LinearOf, Projections
<1>8. PICK F, H : F = AccRows(m, B, b, name) /\ H = RowsAt(m, B, b, name, 0)
  OBVIOUS
<1>9. Grid(F, s, n)
  <2>1. F = [p \in 1..s |-> AccRow(m, B, b, name, p)]
    BY <1>4, <1>8 DEF AccRows
  <2>2. F = [p \in 1..s |-> F[p]] /\ \A p \in 1..s : F[p] = AccRow(m, B, b, name, p)
    BY <2>1
  <2> QED BY <1>6, <1>7, <2>2 DEF Grid
<1>10. H = [p \in 1..s |-> Scaled(F[p], shift)]
  <2>1. \A p : RowAt(m, B, b, name, 0, p) = Requanted(m, B, b, name, p)
    <3>1. name = "adaln" \/ name = "qkv" \/ name = "a" \/ name = "h1" \/ name = "f"
      BY DEF Projections
    <3> QED BY <3>1, RowsAre
  <2>2. \A p \in 1..s : RowAt(m, B, b, name, 0, p) = Scaled(F[p], shift)
    BY <1>2, <1>4, <1>8, <2>1 DEF Requanted, AccRows
  <2> QED BY <1>4, <1>8, <2>2 DEF RowsAt
<1>11. Grid(H, s, n) /\ Scaled(FlattenSeq(F), shift) = FlattenSeq(H)
  <2>1. Holds(FlattenSeq(F), F, s, n)
    BY <1>5, <1>9, GridFlat
  <2> QED BY <1>5, <1>9, <1>10, <2>1, FlatScaled
<1> QED BY <1>2, <1>4, <1>8, <1>9, <1>11 DEF Shaped

(************************* from names to names *****************************)
Whole(m, B, b, name, h) == FlattenSeq(RowsAt(m, B, b, name, h))

LEMMA ScaledRows ==
    ASSUME NEW m \in Models, NEW B, NEW b, NEW in, NEW name, NEW h, NEW shift, Shaped(m, B, b, in, h),
           Width(m, name) = Width(m, in),
           \A p : RowAt(m, B, b, name, h, p) = Scaled(RowAt(m, B, b, in, h, p), shift)
    PROVE  Shaped(m, B, b, name, h) /\ Whole(m, B, b, name, h) = Scaled(Whole(m, B, b, in, h), shift)
<1>1. PICK F, H, s, n : /\ F = RowsAt(m, B, b, in, h) /\ H = RowsAt(m, B, b, name, h) /\ s = m.dims.s
                        /\ n = Width(m, in)
  OBVIOUS
<1>2. s \in Nat /\ n \in Nat
  BY <1>1, WidthIs
<1>3. Grid(F, s, n) /\ Holds(FlattenSeq(F), F, s, n)
  BY <1>1, WholeHolds DEF Shaped
<1>4. H = [p \in 1..s |-> Scaled(F[p], shift)]
  BY <1>1, RowsEntry DEF RowsAt
<1>5. Grid(H, s, n) /\ Scaled(FlattenSeq(F), shift) = FlattenSeq(H)
  BY <1>2, <1>3, <1>4, FlatScaled
<1> QED BY <1>1, <1>5 DEF Shaped, Whole

LEMMA ThroughRows ==
    ASSUME NEW m \in Models, NEW B, NEW b, NEW in, NEW name, NEW h, NEW table, Shaped(m, B, b, in, h),
           Width(m, name) = Width(m, in),
           \A p : RowAt(m, B, b, name, h, p) = Through(B, table, RowAt(m, B, b, in, h, p))
    PROVE  Shaped(m, B, b, name, h) /\ Whole(m, B, b, name, h) = Through(B, table, Whole(m, B, b, in, h))
<1>1. PICK F, H, s, n : /\ F = RowsAt(m, B, b, in, h) /\ H = RowsAt(m, B, b, name, h) /\ s = m.dims.s
                        /\ n = Width(m, in)
  OBVIOUS
<1>2. s \in Nat /\ n \in Nat
  BY <1>1, WidthIs
<1>3. Grid(F, s, n) /\ Holds(FlattenSeq(F), F, s, n)
  BY <1>1, WholeHolds DEF Shaped
<1>4. H = [p \in 1..s |-> Through(B, table, F[p])]
  BY <1>1, RowsEntry DEF RowsAt
<1>5. Grid(H, s, n) /\ Through(B, table, FlattenSeq(F)) = FlattenSeq(H)
  BY <1>2, <1>3, <1>4, FlatThrough
<1> QED BY <1>1, <1>5 DEF Shaped, Whole

LEMMA GatedRows ==
    ASSUME NEW m \in Models, NEW B, NEW b, NEW g, NEW in, NEW name, NEW h, NEW q,
           Shaped(m, B, b, g, h), Shaped(m, B, b, in, h),
           Width(m, name) = Width(m, in), Width(m, g) = Width(m, in),
           \A p : RowAt(m, B, b, name, h, p) = GateVec(q, RowAt(m, B, b, g, h, p), RowAt(m, B, b, in, h, p))
    PROVE  /\ Shaped(m, B, b, name, h)
           /\ Whole(m, B, b, name, h) = GateVec(q, Whole(m, B, b, g, h), Whole(m, B, b, in, h))
<1>1. PICK F, G, H, s, n : /\ F = RowsAt(m, B, b, g, h) /\ G = RowsAt(m, B, b, in, h)
                           /\ H = RowsAt(m, B, b, name, h) /\ s = m.dims.s /\ n = Width(m, in)
  OBVIOUS
<1>2. s \in Nat /\ n \in Nat
  BY <1>1, WidthIs
<1>3. Grid(F, s, n) /\ Holds(FlattenSeq(F), F, s, n) /\ Grid(G, s, n) /\ Holds(FlattenSeq(G), G, s, n)
  BY <1>1, WholeHolds DEF Shaped
<1>4. H = [p \in 1..s |-> GateVec(q, F[p], G[p])]
  BY <1>1, RowsEntry DEF RowsAt
<1>5. Grid(H, s, n) /\ GateVec(q, FlattenSeq(F), FlattenSeq(G)) = FlattenSeq(H)
  BY <1>2, <1>3, <1>4, FlatGate
<1> QED BY <1>1, <1>5 DEF Shaped, Whole

LEMMA ModulatedRows ==
    ASSUME NEW m \in Models, NEW B, NEW b, NEW x, NEW y, NEW t, NEW name, NEW q,
           Shaped(m, B, b, x, 0), Shaped(m, B, b, y, 0), Shaped(m, B, b, t, 0),
           Width(m, name) = Width(m, x), Width(m, y) = Width(m, x), Width(m, t) = Width(m, x),
           \A p : RowAt(m, B, b, name, 0, p)
                  = ModulateVec(q, RowAt(m, B, b, x, 0, p), RowAt(m, B, b, y, 0, p), RowAt(m, B, b, t, 0, p))
    PROVE  /\ Shaped(m, B, b, name, 0)
           /\ Whole(m, B, b, name, 0)
              = ModulateVec(q, Whole(m, B, b, x, 0), Whole(m, B, b, y, 0), Whole(m, B, b, t, 0))
<1>1. PICK F, G, K, H, s, n : /\ F = RowsAt(m, B, b, x, 0) /\ G = RowsAt(m, B, b, y, 0)
                              /\ K = RowsAt(m, B, b, t, 0) /\ H = RowsAt(m, B, b, name, 0)
                              /\ s = m.dims.s /\ n = Width(m, x)
  OBVIOUS
<1>2. s \in Nat /\ n \in Nat
  BY <1>1, WidthIs
<1>3. /\ Grid(F, s, n) /\ Holds(FlattenSeq(F), F, s, n) /\ Grid(G, s, n) /\ Holds(FlattenSeq(G), G, s, n)
      /\ Grid(K, s, n) /\ Holds(FlattenSeq(K), K, s, n)
  BY <1>1, WholeHolds DEF Shaped
<1>4. H = [p \in 1..s |-> ModulateVec(q, F[p], G[p], K[p])]
  BY <1>1, RowsEntry DEF RowsAt
<1>5. Grid(H, s, n) /\ ModulateVec(q, FlattenSeq(F), FlattenSeq(G), FlattenSeq(K)) = FlattenSeq(H)
  BY <1>2, <1>3, <1>4, FlatModulate
<1> QED BY <1>1, <1>5 DEF Shaped, Whole

LEMMA SoftRows ==
    ASSUME NEW m \in Models, NEW B, NEW b, NEW in, NEW name, NEW h, NEW t, NEW one, Shaped(m, B, b, in, h),
           Width(m, name) = Width(m, in),
           \A p : RowAt(m, B, b, name, h, p) = Softmax(RowAt(m, B, b, in, h, p), t, one)
    PROVE  /\ Shaped(m, B, b, name, h)
           /\ Whole(m, B, b, name, h) = SoftmaxRows(Whole(m, B, b, in, h), Width(m, in), t, one)
<1>1. PICK F, H, s, n : /\ F = RowsAt(m, B, b, in, h) /\ H = RowsAt(m, B, b, name, h) /\ s = m.dims.s
                        /\ n = Width(m, in)
  OBVIOUS
<1>2. s \in Nat /\ n \in Nat
  BY <1>1, WidthIs
<1>3. Grid(F, s, n) /\ Holds(FlattenSeq(F), F, s, n)
  BY <1>1, WholeHolds DEF Shaped
<1>4. H = [p \in 1..s |-> Softmax(F[p], t, one)]
  BY <1>1, RowsEntry DEF RowsAt
<1>5. Grid(H, s, n) /\ SoftmaxRows(FlattenSeq(F), n, t, one) = FlattenSeq(H)
  BY <1>2, <1>3, <1>4, FlatSoftmax
<1> QED BY <1>1, <1>5 DEF Shaped, Whole

\* Rows that are normalized rows of width d.
NormNames == {"n1", "a0", "n2", "f0", "z"}

LEMMA NormalIs ==
    ASSUME NEW m, NEW B, NEW b, NEW name \in NormNames
    PROVE  \A p : RowAt(m, B, b, name, 0, p) = NormRow(m, B, CutRow(m, B, b, name, 0, p))
<1> TAKE p
<1>1. name = "n1" \/ name = "a0" \/ name = "n2" \/ name = "f0" \/ name = "z"
  BY DEF NormNames
<1> QED BY <1>1, RowsAre, CutsAre

LEMMA NormalRows ==
    ASSUME NEW m \in Models, NEW B, NEW b, NEW name \in NormNames,
           \A p \in 1..m.dims.s : IsList(CutRow(m, B, b, name, 0, p)) /\ Len(CutRow(m, B, b, name, 0, p)) = m.dims.d
    PROVE  Shaped(m, B, b, name, 0)
<1>1. \A p : RowAt(m, B, b, name, 0, p) = NormRow(m, B, CutRow(m, B, b, name, 0, p))
  BY NormalIs
<1>2. Width(m, name) = m.dims.d
  BY DEF Width, NormNames
<1>3. ASSUME NEW p \in 1..m.dims.s
      PROVE  IsList(RowAt(m, B, b, name, 0, p)) /\ Len(RowAt(m, B, b, name, 0, p)) = m.dims.d
  BY <1>1, NormalRow DEF NormRow
<1> QED BY <1>2, <1>3, ShapedRows

(***************************** the bands of rows ***************************)
\* A cut of a cut.
LEMMA CutCut ==
    ASSUME NEW x, NEW a \in Nat, NEW n \in Nat, NEW c \in Nat, NEW len \in Nat, c + len <= n
    PROVE  SubSeq(SubSeq(x, a + 1, a + n), c + 1, c + len) = SubSeq(x, (a + c) + 1, (a + c) + len)
<1>1. PICK y, z, w : /\ y = SubSeq(x, a + 1, a + n) /\ z = SubSeq(y, c + 1, c + len)
                     /\ w = SubSeq(x, (a + c) + 1, (a + c) + len)
  OBVIOUS
<1>2. IsCut(y, x, a, n)
  BY <1>1, a \in Int, CutIs
<1>3. IsCut(z, y, c, len)
  BY <1>1, c \in Int, CutIs
<1>4. IsCut(w, x, a + c, len)
  <2>1. PICK e \in Int : e = a + c
    OBVIOUS
  <2>2. IsCut(SubSeq(x, e + 1, e + len), x, e, len)
    BY CutIs
  <2> QED BY <1>1, <2>1, <2>2
<1>5. ASSUME NEW j \in 1..len PROVE z[j] = w[j]
  <2>1. c + j \in 1..n /\ a + (c + j) = (a + c) + j
    OBVIOUS
  <2> QED BY <1>2, <1>3, <1>4, <2>1 DEF IsCut
<1>6. z = w
  BY <1>3, <1>4, <1>5, SameList DEF IsCut
<1> QED BY <1>1, <1>6

\* The j-th of q parts of n entries.
LEMMA PartOf ==
    ASSUME NEW n \in Nat, NEW q \in Nat, NEW j \in 0..(q - 1)
    PROVE  j * n \in Nat /\ j * n + n <= q * n /\ (j + 1) * n = j * n + n
<1>1. j * n \in Nat /\ (j + 1) * n = j * n + n /\ (j + 1) * n <= q * n
  <2>1. PICK i \in Nat : i = q - (j + 1)
    OBVIOUS
  <2>2. i * n \in Nat /\ (j + 1) * n + i * n = q * n
    <3>1. q = (j + 1) + i
      BY <2>1
    <3> QED BY <3>1
  <2>3. (j + 1) * n \in Nat /\ q * n \in Nat /\ j * n \in Nat /\ (j + 1) * n = j * n + n
    OBVIOUS
  <2> QED BY <2>2, <2>3
<1> QED BY <1>1

LEMMA ChunkBands ==
    ASSUME NEW m, NEW B, NEW b, InBlock(m, B, b), NEW name, NEW j \in 0..5, Width(m, name) = m.dims.d,
           \A p : RowAt(m, B, b, name, 0, p) = ChunkRow(m, B, b, p, j)
    PROVE  Shaped(m, B, b, name, 0) /\ Banded(m, B, b, "adaln", name, 0, j * m.dims.d)
<1>1. m \in Models /\ m.dims.d \in Nat
  BY ModelFacts DEF InBlock
<1>2. Shaped(m, B, b, "adaln", 0) /\ Width(m, "adaln") = 6 * m.dims.d
  BY ProjectedRows DEF Projections, Width
<1>3. PICK col : col = j * m.dims.d
  OBVIOUS
<1>4. col \in Nat /\ col + m.dims.d <= 6 * m.dims.d /\ (j + 1) * m.dims.d = col + m.dims.d
  <2>1. 6 \in Nat /\ j \in 0..(6 - 1)
    OBVIOUS
  <2>2. PICK n \in Nat : n = m.dims.d
    BY <1>1
  <2>3. j * n \in Nat /\ j * n + n <= 6 * n /\ (j + 1) * n = j * n + n
    BY <2>1, PartOf
  <2> QED BY <1>3, <2>2, <2>3
<1>5. ASSUME NEW p \in 1..m.dims.s
      PROVE  RowAt(m, B, b, name, 0, p)
             = SubSeq(RowAt(m, B, b, "adaln", 0, p), col + 1, col + Width(m, name))
  <2>1. RowOf(Ada(m, B, b), p, 6 * m.dims.d) = RowAt(m, B, b, "adaln", 0, p)
    BY <1>1, <1>2, WholeHolds, MatricesAre
  <2>2. ChunkRow(m, B, b, p, j) = SubSeq(RowAt(m, B, b, "adaln", 0, p), col + 1, col + m.dims.d)
    BY <1>3, <1>4, <2>1 DEF ChunkRow, Chunk
  <2> QED BY <2>2
<1>6. Shaped(m, B, b, name, 0) /\ Banded(m, B, b, "adaln", name, 0, col)
  BY <1>1, <1>2, <1>4, <1>5, BandRows
<1> QED BY <1>3, <1>6

LEMMA ThirdBands ==
    ASSUME NEW m, NEW B, NEW b, InBlock(m, B, b), NEW name, NEW j \in 0..2, Width(m, name) = Inner(m),
           \A p : RowAt(m, B, b, name, 0, p) = ThirdRow(m, B, b, p, j)
    PROVE  Shaped(m, B, b, name, 0) /\ Banded(m, B, b, "qkv", name, 0, j * Inner(m))
<1>1. m \in Models /\ Inner(m) \in Nat
  BY DimsAre DEF InBlock
<1>2. Shaped(m, B, b, "qkv", 0) /\ Width(m, "qkv") = 3 * Inner(m)
  BY ProjectedRows DEF Projections, Width
<1>3. PICK col : col = j * Inner(m)
  OBVIOUS
<1>4. col \in Nat /\ col + Inner(m) <= 3 * Inner(m)
  BY <1>1, <1>3, PartOf
<1>5. ASSUME NEW p \in 1..m.dims.s
      PROVE  RowAt(m, B, b, name, 0, p)
             = SubSeq(RowAt(m, B, b, "qkv", 0, p), col + 1, col + Width(m, name))
  <2>1. RowOf(QkvOf(m, B, b), p, 3 * Inner(m)) = RowAt(m, B, b, "qkv", 0, p)
    BY <1>1, <1>2, WholeHolds, MatricesAre
  <2> QED BY <1>3, <2>1 DEF ThirdRow
<1>6. Shaped(m, B, b, name, 0) /\ Banded(m, B, b, "qkv", name, 0, col)
  BY <1>1, <1>2, <1>4, <1>5, BandRows
<1> QED BY <1>3, <1>6

\* The band of a head in a third.
LEMMA PartBands ==
    ASSUME NEW m, NEW B, NEW b, InBlock(m, B, b), NEW all, NEW name, NEW j \in 0..2,
           NEW h \in 1..m.dims.h, Width(m, all) = Inner(m), Width(m, name) = m.dims.dh,
           \A p : RowAt(m, B, b, all, 0, p) = ThirdRow(m, B, b, p, j),
           \A p : RowAt(m, B, b, name, h, p) = PartRow(m, B, b, h, p, j)
    PROVE  Shaped(m, B, b, name, h) /\ Banded(m, B, b, all, name, h, (h - 1) * m.dims.dh)
<1>1. m \in Models /\ Inner(m) \in Nat /\ m.dims.h \in Nat /\ m.dims.dh \in Nat
  BY DimsAre, ModelFacts DEF InBlock
<1>2. Shaped(m, B, b, all, 0)
  BY ThirdBands
<1>3. PICK col, a, dh, n : col = (h - 1) * m.dims.dh /\ a = j * Inner(m) /\ dh = m.dims.dh /\ n = Inner(m)
  OBVIOUS
<1>4. col \in Nat /\ col + dh <= n /\ h * dh = col + dh
  <2>1. h - 1 \in 0..(m.dims.h - 1) /\ (h - 1) + 1 = h
    BY <1>1
  <2>2. PICK i \in 0..(m.dims.h - 1) : i = h - 1 /\ i + 1 = h
    BY <2>1
  <2>3. i * dh \in Nat /\ i * dh + dh <= m.dims.h * dh /\ (i + 1) * dh = i * dh + dh
    BY <1>1, <1>3, PartOf
  <2> QED BY <1>3, <2>2, <2>3 DEF Inner
<1>5. a \in Nat /\ n \in Nat
  BY <1>1, <1>3, PartOf
<1>6. ASSUME NEW p \in 1..m.dims.s
      PROVE  RowAt(m, B, b, name, h, p)
             = SubSeq(RowAt(m, B, b, all, 0, p), col + 1, col + Width(m, name))
  <2>1. PICK x : x = RowOf(QkvOf(m, B, b), p, 3 * Inner(m))
    OBVIOUS
  <2>2. PartRow(m, B, b, h, p, j) = SubSeq(x, (a + col) + 1, (a + col) + dh)
    <3>1. PartRow(m, B, b, h, p, j) = SubSeq(x, a + col + 1, a + h * dh)
      BY <1>3, <2>1 DEF PartRow, HeadPart
    <3>2. a + h * dh = (a + col) + dh
      BY <1>1, <1>3, <1>4, <1>5
    <3> QED BY <3>1, <3>2
  <2>3. ThirdRow(m, B, b, p, j) = SubSeq(x, a + 1, a + n)
    BY <1>3, <2>1 DEF ThirdRow
  <2>4. SubSeq(SubSeq(x, a + 1, a + n), col + 1, col + dh) = SubSeq(x, (a + col) + 1, (a + col) + dh)
    <3>1. dh \in Nat
      BY <1>1, <1>3
    <3> QED BY <1>4, <1>5, <3>1, CutCut
  <2> QED BY <1>3, <2>2, <2>3, <2>4
<1>7. col + Width(m, name) <= Width(m, all)
  BY <1>3, <1>4
<1>8. Shaped(m, B, b, name, h) /\ Banded(m, B, b, all, name, h, col)
  BY <1>1, <1>2, <1>4, <1>6, <1>7, BandRows
<1> QED BY <1>3, <1>8

(********************************* the heads *******************************)
\* The values of a head, each from the ones before it.
HeadFlow(m, B, b, h) ==
    LET w(name) == Whole(m, B, b, name, h)
        dh == m.dims.dh
        s == m.dims.s
    IN  /\ \A name \in {"qh", "kh", "vh", "qk", "scores", "prob", "pv", "oh"} : Shaped(m, B, b, name, h)
        /\ \A q : ScoresOp(q, s, dh, s)
                    => w("qk") = MatMul(w("qh"), w("kh"), q)
        /\ w("scores") = Scaled(w("qk"), Derived(m).score_shift)
        /\ w("prob") = SoftmaxRows(w("scores"), s, Find(B.tables, TableExp), Derived(m).softmax_one)
        /\ \A q : ValuesOp(q, s, s, dh)
                    => w("pv") = MatMul(w("prob"), w("vh"), q)
        /\ w("oh") = Scaled(w("pv"), Derived(m).oh_shift)

LEMMA HeadFlows ==
    ASSUME NEW m, NEW B, NEW b, InBlock(m, B, b), NEW h \in 1..m.dims.h
    PROVE  HeadFlow(m, B, b, h)
<1> DEFINE w(name) == Whole(m, B, b, name, h)
<1>1. PICK dh \in Nat, s \in Nat : dh = m.dims.dh /\ s = m.dims.s
  BY ModelFacts DEF InBlock
<1>2. m \in Models
  BY DEF InBlock
<1>3. /\ Width(m, "q") = Inner(m) /\ Width(m, "k") = Inner(m) /\ Width(m, "v") = Inner(m)
      /\ Width(m, "qh") = dh /\ Width(m, "kh") = dh /\ Width(m, "vh") = dh
      /\ Width(m, "qk") = s /\ Width(m, "scores") = s /\ Width(m, "prob") = s
      /\ Width(m, "pv") = dh /\ Width(m, "oh") = dh
  BY <1>1 DEF Width
<1>4. Shaped(m, B, b, "qh", h) /\ Shaped(m, B, b, "kh", h) /\ Shaped(m, B, b, "vh", h)
  <2>1. Shaped(m, B, b, "qh", h)
    BY <1>1, <1>3, 0 \in 0..2, RowsAre, PartBands
  <2>2. Shaped(m, B, b, "kh", h)
    BY <1>1, <1>3, 1 \in 0..2, RowsAre, PartBands
  <2>3. Shaped(m, B, b, "vh", h)
    BY <1>1, <1>3, 2 \in 0..2, RowsAre, PartBands
  <2> QED BY <2>1, <2>2, <2>3
<1>5. PICK Q, K, V, R, T : /\ Q = RowsAt(m, B, b, "qh", h) /\ K = RowsAt(m, B, b, "kh", h)
                           /\ V = RowsAt(m, B, b, "vh", h) /\ R = RowsAt(m, B, b, "qk", h)
                           /\ T = RowsAt(m, B, b, "pv", h)
  OBVIOUS
<1>6. Grid(Q, s, dh) /\ Holds(w("qh"), Q, s, dh) /\ Grid(K, s, dh) /\ Holds(w("kh"), K, s, dh)
      /\ Grid(V, s, dh) /\ Holds(w("vh"), V, s, dh)
  BY <1>1, <1>2, <1>3, <1>4, <1>5, WholeHolds DEF Shaped, Whole
<1>7. /\ \A p \in 1..s : Q[p] = PartRow(m, B, b, h, p, 0)
      /\ \A p \in 1..s : K[p] = PartRow(m, B, b, h, p, 1)
      /\ \A p \in 1..s : V[p] = PartRow(m, B, b, h, p, 2)
  BY <1>1, <1>5, RowsEntry, RowsAre
<1>8. R = Scores(Q, K, s, s, dh)
  <2>1. ASSUME NEW p \in 1..s
        PROVE  ScoreRow(m, QkvOf(m, B, b), h, p) = [j \in 1..s |-> SumTo([k \in 1..dh |-> Q[p][k] * K[j][k]], dh)]
    <3>1. ScoreRow(m, QkvOf(m, B, b), h, p)
          = [j \in 1..s |-> SumTo([k \in 1..dh |-> PartRow(m, B, b, h, p, 0)[k] * PartRow(m, B, b, h, j, 1)[k]], dh)]
      BY <1>1 DEF ScoreRow, PartRow
    <3>2. \A j \in 1..s : [k \in 1..dh |-> PartRow(m, B, b, h, p, 0)[k] * PartRow(m, B, b, h, j, 1)[k]]
                          = [k \in 1..dh |-> Q[p][k] * K[j][k]]
      BY <1>7
    <3> QED BY <3>1, <3>2
  <2>2. R = [p \in 1..s |-> ScoreRow(m, QkvOf(m, B, b), h, p)]
    BY <1>1, <1>5, RowsAre DEF RowsAt
  <2> QED BY <2>1, <2>2 DEF Scores
<1>9. /\ Shaped(m, B, b, "qk", h)
      /\ \A q : ScoresOp(q, s, dh, s)
                  => w("qk") = MatMul(w("qh"), w("kh"), q)
  <2>1. \A q : ScoresOp(q, s, dh, s)
                => Grid(R, s, s) /\ MatMul(w("qh"), w("kh"), q) = FlattenSeq(R)
    <3> SUFFICES ASSUME NEW q, ScoresOp(q, s, dh, s)
                 PROVE  Grid(R, s, s) /\ MatMul(w("qh"), w("kh"), q) = FlattenSeq(R)
      OBVIOUS
    <3>1. PICK x, y : x = w("qh") /\ y = w("kh")
      OBVIOUS
    <3>2. Grid(Q, s, dh) /\ Grid(K, s, dh) /\ Holds(x, Q, s, dh) /\ Holds(y, K, s, dh)
      BY <1>6, <3>1
    <3> HIDE DEF w
    <3>3. Grid(R, s, s) /\ MatMul(x, y, q) = FlattenSeq(R)
      BY <1>8, <3>2, FlatScores
    <3> QED BY <3>1, <3>3
  <2>2. PICK q : q = [rows |-> s, inner |-> dh, cols |-> s, transpose_b |-> TRUE]
    OBVIOUS
  <2>3. Grid(R, s, s)
    BY <2>1, <2>2 DEF ScoresOp
  <2> QED BY <1>1, <1>3, <1>5, <2>1, <2>3 DEF Shaped, Whole
<1>10. Shaped(m, B, b, "scores", h) /\ w("scores") = Scaled(w("qk"), Derived(m).score_shift)
  <2>1. \A p : RowAt(m, B, b, "scores", h, p) = Scaled(RowAt(m, B, b, "qk", h, p), Derived(m).score_shift)
    BY RowsAre
  <2> QED BY <1>2, <1>3, <1>9, <2>1, ScaledRows
<1>11. /\ Shaped(m, B, b, "prob", h)
       /\ w("prob") = SoftmaxRows(w("scores"), s, Find(B.tables, TableExp), Derived(m).softmax_one)
  <2>1. PICK t, one : t = Find(B.tables, TableExp) /\ one = Derived(m).softmax_one
    OBVIOUS
  <2>2. \A p : RowAt(m, B, b, "prob", h, p) = Softmax(RowAt(m, B, b, "scores", h, p), t, one)
    BY <2>1, RowsAre DEF ProbRow
  <2>3. Shaped(m, B, b, "prob", h) /\ w("prob") = SoftmaxRows(w("scores"), Width(m, "scores"), t, one)
    BY <1>2, <1>3, <1>10, <2>2, SoftRows
  <2> QED BY <1>3, <2>1, <2>3
<1>12. PICK W : W = RowsAt(m, B, b, "prob", h)
  OBVIOUS
<1>13. Grid(W, s, s) /\ Holds(w("prob"), W, s, s)
       /\ \A p \in 1..s : W[p] = ProbRow(m, B, QkvOf(m, B, b), h, p)
  BY <1>1, <1>2, <1>3, <1>11, <1>12, WholeHolds, RowsEntry, RowsAre DEF Shaped, Whole
<1>14. T = Values(W, V, s, dh, s)
  <2>1. ASSUME NEW p \in 1..s
        PROVE  RowAt(m, B, b, "pv", h, p) = [j \in 1..dh |-> SumTo([k \in 1..s |-> W[p][k] * V[k][j]], s)]
    <3>1. PICK x : x = W[p]
      OBVIOUS
    <3>2. RowAt(m, B, b, "pv", h, p) = ValueRow(m, x, QkvOf(m, B, b), h)
      BY <1>13, <3>1, RowsAre
    <3>3. ValueRow(m, x, QkvOf(m, B, b), h)
          = [j \in 1..dh |-> SumTo([k \in 1..s |-> x[k] * PartRow(m, B, b, h, k, 2)[j]], s)]
      BY <1>1 DEF ValueRow, PartRow
    <3>4. \A j \in 1..dh : [k \in 1..s |-> x[k] * PartRow(m, B, b, h, k, 2)[j]] = [k \in 1..s |-> x[k] * V[k][j]]
      BY <1>7
    <3> QED BY <3>1, <3>2, <3>3, <3>4
  <2>2. T = [p \in 1..s |-> RowAt(m, B, b, "pv", h, p)]
    BY <1>1, <1>5 DEF RowsAt
  <2> QED BY <2>1, <2>2 DEF Values
<1>15. /\ Shaped(m, B, b, "pv", h)
       /\ \A q : ValuesOp(q, s, s, dh)
                   => w("pv") = MatMul(w("prob"), w("vh"), q)
  <2>1. \A q : ValuesOp(q, s, s, dh)
                => Grid(T, s, dh) /\ MatMul(w("prob"), w("vh"), q) = FlattenSeq(T)
    <3> SUFFICES ASSUME NEW q, ValuesOp(q, s, s, dh)
                 PROVE  Grid(T, s, dh) /\ MatMul(w("prob"), w("vh"), q) = FlattenSeq(T)
      OBVIOUS
    <3>1. PICK x, y : x = w("prob") /\ y = w("vh")
      OBVIOUS
    <3>2. Grid(W, s, s) /\ Grid(V, s, dh) /\ Holds(x, W, s, s) /\ Holds(y, V, s, dh)
      BY <1>6, <1>13, <3>1
    <3> HIDE DEF w
    <3>3. Grid(T, s, dh) /\ MatMul(x, y, q) = FlattenSeq(T)
      BY <1>14, <3>2, FlatValues
    <3> QED BY <3>1, <3>3
  <2>2. PICK q : q = [rows |-> s, inner |-> s, cols |-> dh, transpose_b |-> FALSE]
    OBVIOUS
  <2>3. Grid(T, s, dh)
    BY <2>1, <2>2 DEF ValuesOp
  <2> QED BY <1>1, <1>3, <1>5, <2>1, <2>3 DEF Shaped, Whole
<1>16. Shaped(m, B, b, "oh", h) /\ w("oh") = Scaled(w("pv"), Derived(m).oh_shift)
  <2>1. \A p : RowAt(m, B, b, "oh", h, p) = Scaled(RowAt(m, B, b, "pv", h, p), Derived(m).oh_shift)
    BY RowsAre DEF HeadRow
  <2> QED BY <1>2, <1>3, <1>15, <2>1, ScaledRows
<1> QED BY <1>1, <1>4, <1>9, <1>10, <1>11, <1>15, <1>16 DEF HeadFlow

\* The heads of every position, joined.
LEMMA HeadsJoin ==
    ASSUME NEW m, NEW B, NEW b, InBlock(m, B, b),
           NEW E, E = [e \in 1..(m.dims.s * m.dims.h) |->
                          RowAt(m, B, b, "oh", ((e - 1) % m.dims.h) + 1, (e - 1) \div m.dims.h + 1)]
    PROVE  Shaped(m, B, b, "attn_cat", 0) /\ Whole(m, B, b, "attn_cat", 0) = FlattenSeq(E)
<1>1. PICK s \in Nat, h \in Nat, n \in Nat : s = m.dims.s /\ h = m.dims.h /\ n = m.dims.dh
  BY ModelFacts DEF InBlock
<1> DEFINE R == [p \in 1..s |-> [i \in 1..h |-> RowAt(m, B, b, "oh", i, p)]]
<1>2. \A p \in 1..s : R[p] = [i \in 1..h |-> RowAt(m, B, b, "oh", i, p)]
  OBVIOUS
<1>3. \A p \in 1..s : \A i \in 1..h : R[p][i] = RowAt(m, B, b, "oh", i, p)
  OBVIOUS
<1> HIDE DEF R
<1>4. ASSUME NEW p \in 1..s PROVE Grid(R[p], h, n)
  <2>1. ASSUME NEW i \in 1..h PROVE IsList(RowAt(m, B, b, "oh", i, p)) /\ Len(RowAt(m, B, b, "oh", i, p)) = n
    <3>1. Shaped(m, B, b, "oh", i) /\ Width(m, "oh") = n
      BY <1>1, HeadFlows DEF HeadFlow, Width
    <3> QED BY <1>1, <3>1, RowsEntry DEF Shaped, Grid
  <2>2. R[p] = [i \in 1..h |-> R[p][i]]
    BY <1>2
  <2> QED BY <1>3, <2>1, <2>2 DEF Grid
<1>5. PICK F : F = RowsAt(m, B, b, "attn_cat", 0)
  OBVIOUS
<1>6. F = [p \in 1..s |-> FlattenSeq(R[p])]
  <2>1. ASSUME NEW p \in 1..s PROVE RowAt(m, B, b, "attn_cat", 0, p) = FlattenSeq(R[p])
    <3>0. RowAt(m, B, b, "attn_cat", 0, p) = HeadsRow(m, B, QkvOf(m, B, b), p)
      BY RowsAre
    <3>1. HeadsRow(m, B, QkvOf(m, B, b), p) = FlattenSeq([i \in 1..h |-> HeadRow(m, B, QkvOf(m, B, b), i, p)])
      BY <1>1 DEF HeadsRow
    <3>2. [i \in 1..h |-> HeadRow(m, B, QkvOf(m, B, b), i, p)] = [i \in 1..h |-> RowAt(m, B, b, "oh", i, p)]
      BY RowsAre
    <3> QED BY <1>2, <3>0, <3>1, <3>2
  <2> QED BY <1>1, <1>5, <2>1 DEF RowsAt
<1>7. E = Nested(R, s, h)
  <2>1. ASSUME NEW e \in 1..(s * h)
        PROVE  RowAt(m, B, b, "oh", ((e - 1) % h) + 1, (e - 1) \div h + 1) = R[(e - 1) \div h + 1][((e - 1) % h) + 1]
    <3>1. PICK p \in 1..s, i \in 1..h : GridPlace(e, h, p, i)
      BY PlaceIs
    <3>2. (e - 1) \div h + 1 = p /\ ((e - 1) % h) + 1 = i
      BY <3>1 DEF GridPlace
    <3> QED BY <1>3, <3>2
  <2> QED BY <1>1, <2>1 DEF Nested
<1>8. NestedFlat(E, F, s, h, n)
  BY <1>4, <1>6, <1>7, FlatNested
<1>9. Width(m, "attn_cat") = h * n
  BY <1>1 DEF Width, Inner
<1> QED BY <1>1, <1>5, <1>8, <1>9 DEF Shaped, Whole, NestedFlat

(***************************** the values of a block ***********************)
\* Names whose rows are of width d.
Narrow == {"a", "f", "shift_msa", "scale_msa", "gate_msa", "shift_mlp", "scale_mlp", "gate_mlp", "n1", "m1",
           "a0", "g1", "sum1", "x1", "n2", "m2", "f0", "g2", "sum2", "x", "z"}

LEMMA NarrowWidth ==
    ASSUME NEW m
    PROVE  \A name \in Narrow : Width(m, name) = m.dims.d
  BY DEF Narrow, Width

\* The modulation parameters of a model.
ModBy(m) == [one |-> 2^m.scheme.f_ln, shift |-> m.scheme.f_ln, lo |-> -Half, hi |-> Half - 1,
             rounding |-> Nearest]

\* The six parts of the modulation.
LEMMA ChunkFlows ==
    ASSUME NEW m, NEW B, NEW b, InBlock(m, B, b)
    PROVE  LET is(name, j) == Shaped(m, B, b, name, 0) /\ Banded(m, B, b, "adaln", name, 0, j * m.dims.d)
           IN  /\ is("shift_msa", 0) /\ is("scale_msa", 1) /\ is("gate_msa", 2)
               /\ is("shift_mlp", 3) /\ is("scale_mlp", 4) /\ is("gate_mlp", 5)
<1> DEFINE is(name, j) == Shaped(m, B, b, name, 0) /\ Banded(m, B, b, "adaln", name, 0, j * m.dims.d)
<1>1. ASSUME NEW name \in Narrow, NEW j \in 0..5, \A p : RowAt(m, B, b, name, 0, p) = ChunkRow(m, B, b, p, j)
      PROVE  is(name, j)
  <2>1. Width(m, name) = m.dims.d
    BY NarrowWidth
  <2> QED BY <1>1, <2>1, ChunkBands
<1> HIDE DEF is
<1>2. is("shift_msa", 0)
  BY <1>1, "shift_msa" \in Narrow, 0 \in 0..5, RowsAre DEF Narrow
<1>3. is("scale_msa", 1)
  BY <1>1, "scale_msa" \in Narrow, 1 \in 0..5, RowsAre DEF Narrow
<1>4. is("gate_msa", 2)
  BY <1>1, "gate_msa" \in Narrow, 2 \in 0..5, RowsAre DEF Narrow
<1>5. is("shift_mlp", 3)
  BY <1>1, "shift_mlp" \in Narrow, 3 \in 0..5, RowsAre DEF Narrow
<1>6. is("scale_mlp", 4)
  BY <1>1, "scale_mlp" \in Narrow, 4 \in 0..5, RowsAre DEF Narrow
<1>7. is("gate_mlp", 5)
  BY <1>1, "gate_mlp" \in Narrow, 5 \in 0..5, RowsAre DEF Narrow
<1> QED BY <1>2, <1>3, <1>4, <1>5, <1>6, <1>7 DEF is

\* The rows a norm reads are rows of what it reads.
LEMMA StreamRows ==
    ASSUME NEW m, NEW B, NEW b, InBlock(m, B, b), NEW p \in 1..m.dims.s
    PROVE  /\ IsList(InRow(m, B, b, p)) /\ Len(InRow(m, B, b, p)) = m.dims.d
           /\ IsList(MidRow(m, B, b, p)) /\ Len(MidRow(m, B, b, p)) = m.dims.d
<1>1. PICK d, x, y : d \in Nat /\ d = m.dims.d /\ x = Streams(m, B)[b - 1] /\ y = MidOf(m, B, b)
  BY ModelFacts DEF InBlock
<1>2. p \in Nat
  BY ModelFacts DEF InBlock
<1>3. IsCut(RowOf(x, p, d), x, (p - 1) * d, d) /\ IsCut(RowOf(y, p, d), y, (p - 1) * d, d)
  BY <1>1, <1>2, RowIs
<1>4. IsList(RowOf(x, p, d)) /\ Len(RowOf(x, p, d)) = d /\ IsList(RowOf(y, p, d)) /\ Len(RowOf(y, p, d)) = d
  BY <1>3 DEF IsCut
<1> QED BY <1>1, <1>4 DEF InRow, MidRow

\* The input of the attention.
LEMMA AttnInput ==
    ASSUME NEW m, NEW B, NEW b, InBlock(m, B, b)
    PROVE  LET w(name) == Whole(m, B, b, name, 0)
           IN  /\ Shaped(m, B, b, "n1", 0) /\ Shaped(m, B, b, "m1", 0) /\ Shaped(m, B, b, "a0", 0)
               /\ w("m1") = ModulateVec(ModBy(m), w("n1"), w("scale_msa"), w("shift_msa"))
<1> DEFINE w(name) == Whole(m, B, b, name, 0)
<1>1. m \in Models
  BY DEF InBlock
<1>2. Shaped(m, B, b, "n1", 0)
  <2>1. \A p \in 1..m.dims.s : IsList(CutRow(m, B, b, "n1", 0, p)) /\ Len(CutRow(m, B, b, "n1", 0, p)) = m.dims.d
    BY StreamRows, CutsAre
  <2> QED BY <1>1, <2>1, NormalRows, "n1" \in NormNames DEF NormNames
<1>3. Shaped(m, B, b, "scale_msa", 0) /\ Shaped(m, B, b, "shift_msa", 0)
  BY ChunkFlows
<1>4. /\ Width(m, "m1") = m.dims.d /\ Width(m, "n1") = m.dims.d /\ Width(m, "scale_msa") = m.dims.d
      /\ Width(m, "shift_msa") = m.dims.d
  BY NarrowWidth DEF Narrow
<1>5. PICK q : q = ModBy(m)
  OBVIOUS
<1>6. \A p : RowAt(m, B, b, "m1", 0, p)
             = ModulateVec(q, RowAt(m, B, b, "n1", 0, p), RowAt(m, B, b, "scale_msa", 0, p),
                           RowAt(m, B, b, "shift_msa", 0, p))
  <2> TAKE p
  <2>1. RowAt(m, B, b, "m1", 0, p)
        = ModulatedRow(m, NormRow(m, B, InRow(m, B, b, p)), ChunkRow(m, B, b, p, 1), ChunkRow(m, B, b, p, 0))
    BY RowsAre DEF M1Row
  <2>2. \A x, y, t : ModulatedRow(m, x, y, t) = ModulateVec(q, x, y, t)
    BY <1>5 DEF ModulatedRow, ModBy
  <2> QED BY <2>1, <2>2, RowsAre
<1>7. Shaped(m, B, b, "m1", 0) /\ w("m1") = ModulateVec(q, w("n1"), w("scale_msa"), w("shift_msa"))
  BY <1>1, <1>2, <1>3, <1>4, <1>6, ModulatedRows
<1>8. Shaped(m, B, b, "a0", 0)
  <2>1. \A p \in 1..m.dims.s : IsList(RowAt(m, B, b, "m1", 0, p)) /\ Len(RowAt(m, B, b, "m1", 0, p)) = m.dims.d
    BY <1>4, <1>7, RowsEntry DEF Shaped, Grid
  <2>2. \A p \in 1..m.dims.s : IsList(CutRow(m, B, b, "a0", 0, p)) /\ Len(CutRow(m, B, b, "a0", 0, p)) = m.dims.d
    BY <2>1, CutsAre, RowsAre
  <2> QED BY <1>1, <2>2, NormalRows, "a0" \in NormNames DEF NormNames
<1> QED BY <1>2, <1>5, <1>7, <1>8

\* The stream after the attention.
LEMMA AttnOutput ==
    ASSUME NEW m, NEW B, NEW b, InBlock(m, B, b)
    PROVE  LET w(name) == Whole(m, B, b, name, 0)
           IN  /\ Shaped(m, B, b, "g1", 0) /\ Shaped(m, B, b, "sum1", 0) /\ Shaped(m, B, b, "x1", 0)
               /\ w("g1") = GateVec(To8(Derived(m).gate_msa_bits), w("gate_msa"), w("a"))
               /\ w("x1") = Scaled(w("sum1"), 0)
<1> DEFINE w(name) == Whole(m, B, b, name, 0)
<1>1. m \in Models /\ m.dims.d \in Nat
  BY ModelFacts DEF InBlock
<1>2. /\ Width(m, "g1") = m.dims.d /\ Width(m, "gate_msa") = m.dims.d /\ Width(m, "a") = m.dims.d
      /\ Width(m, "sum1") = m.dims.d /\ Width(m, "x1") = m.dims.d
  BY NarrowWidth DEF Narrow
<1>3. Shaped(m, B, b, "gate_msa", 0) /\ Shaped(m, B, b, "a", 0)
  BY ChunkFlows, ProjectedRows DEF Projections
<1>4. PICK q : q = To8(Derived(m).gate_msa_bits)
  OBVIOUS
<1>5. \A p : RowAt(m, B, b, "g1", 0, p) = GateVec(q, RowAt(m, B, b, "gate_msa", 0, p), RowAt(m, B, b, "a", 0, p))
  BY <1>4, RowsAre DEF Gated1
<1>6. Shaped(m, B, b, "g1", 0) /\ w("g1") = GateVec(q, w("gate_msa"), w("a"))
  BY <1>1, <1>2, <1>3, <1>5, GatedRows
<1>7. Shaped(m, B, b, "sum1", 0)
  <2>1. ASSUME NEW p \in 1..m.dims.s
        PROVE  IsList(RowAt(m, B, b, "sum1", 0, p)) /\ Len(RowAt(m, B, b, "sum1", 0, p)) = m.dims.d
    <3>1. PICK x, y : x = InRow(m, B, b, p) /\ y = RowAt(m, B, b, "g1", 0, p)
      OBVIOUS
    <3>2. Len(x) = m.dims.d /\ Len(y) = m.dims.d
      BY <1>2, <1>6, <3>1, StreamRows, RowsEntry DEF Shaped, Grid
    <3>3. RowAt(m, B, b, "sum1", 0, p) = ResidualAdd(x, y)
      BY <3>1, RowsAre DEF Sum1Row
    <3> QED BY <1>1, <3>2, <3>3, AddRow
  <2> QED BY <1>2, <2>1, ShapedRows
<1>8. Shaped(m, B, b, "x1", 0) /\ w("x1") = Scaled(w("sum1"), 0)
  <2>1. \A p : RowAt(m, B, b, "x1", 0, p) = Scaled(RowAt(m, B, b, "sum1", 0, p), 0)
    BY RowsAre
  <2> QED BY <1>1, <1>2, <1>7, <2>1, ScaledRows
<1> QED BY <1>4, <1>6, <1>7, <1>8

\* The input of the FFN.
LEMMA FfnInput ==
    ASSUME NEW m, NEW B, NEW b, InBlock(m, B, b)
    PROVE  LET w(name) == Whole(m, B, b, name, 0)
           IN  /\ Shaped(m, B, b, "n2", 0) /\ Shaped(m, B, b, "m2", 0) /\ Shaped(m, B, b, "f0", 0)
               /\ w("m2") = ModulateVec(ModBy(m), w("n2"), w("scale_mlp"), w("shift_mlp"))
<1> DEFINE w(name) == Whole(m, B, b, name, 0)
<1>1. m \in Models
  BY DEF InBlock
<1>2. Shaped(m, B, b, "n2", 0)
  <2>1. \A p \in 1..m.dims.s : IsList(CutRow(m, B, b, "n2", 0, p)) /\ Len(CutRow(m, B, b, "n2", 0, p)) = m.dims.d
    BY StreamRows, CutsAre
  <2> QED BY <1>1, <2>1, NormalRows, "n2" \in NormNames DEF NormNames
<1>3. Shaped(m, B, b, "scale_mlp", 0) /\ Shaped(m, B, b, "shift_mlp", 0)
  BY ChunkFlows
<1>4. /\ Width(m, "m2") = m.dims.d /\ Width(m, "n2") = m.dims.d /\ Width(m, "scale_mlp") = m.dims.d
      /\ Width(m, "shift_mlp") = m.dims.d
  BY NarrowWidth DEF Narrow
<1>5. PICK q : q = ModBy(m)
  OBVIOUS
<1>6. \A p : RowAt(m, B, b, "m2", 0, p)
             = ModulateVec(q, RowAt(m, B, b, "n2", 0, p), RowAt(m, B, b, "scale_mlp", 0, p),
                           RowAt(m, B, b, "shift_mlp", 0, p))
  <2> TAKE p
  <2>1. RowAt(m, B, b, "m2", 0, p)
        = ModulatedRow(m, NormRow(m, B, MidRow(m, B, b, p)), ChunkRow(m, B, b, p, 4), ChunkRow(m, B, b, p, 3))
    BY RowsAre DEF M2Row
  <2>2. \A x, y, t : ModulatedRow(m, x, y, t) = ModulateVec(q, x, y, t)
    BY <1>5 DEF ModulatedRow, ModBy
  <2> QED BY <2>1, <2>2, RowsAre
<1>7. Shaped(m, B, b, "m2", 0) /\ w("m2") = ModulateVec(q, w("n2"), w("scale_mlp"), w("shift_mlp"))
  BY <1>1, <1>2, <1>3, <1>4, <1>6, ModulatedRows
<1>8. Shaped(m, B, b, "f0", 0)
  <2>1. \A p \in 1..m.dims.s : IsList(RowAt(m, B, b, "m2", 0, p)) /\ Len(RowAt(m, B, b, "m2", 0, p)) = m.dims.d
    BY <1>4, <1>7, RowsEntry DEF Shaped, Grid
  <2>2. \A p \in 1..m.dims.s : IsList(CutRow(m, B, b, "f0", 0, p)) /\ Len(CutRow(m, B, b, "f0", 0, p)) = m.dims.d
    BY <2>1, CutsAre, RowsAre
  <2> QED BY <1>1, <2>2, NormalRows, "f0" \in NormNames DEF NormNames
<1> QED BY <1>2, <1>5, <1>7, <1>8

\* The middle stream is what its name stands for.
LEMMA MidRows ==
    ASSUME NEW m, NEW B, NEW b, InBlock(m, B, b), NEW p \in 1..m.dims.s
    PROVE  MidRow(m, B, b, p) = RowAt(m, B, b, "x1", 0, p)
<1>1. Shaped(m, B, b, "x1", 0) /\ Width(m, "x1") = m.dims.d /\ m \in Models
  BY AttnOutput, NarrowWidth DEF Narrow, InBlock
<1>2. RowOf(Whole(m, B, b, "x1", 0), p, m.dims.d) = RowAt(m, B, b, "x1", 0, p)
  BY <1>1, WholeHolds DEF Whole
<1>3. MidOf(m, B, b) = Whole(m, B, b, "x1", 0)
  BY MatricesAre DEF Whole
<1> QED BY <1>2, <1>3 DEF MidRow

\* The stream after the block.
LEMMA FfnOutput ==
    ASSUME NEW m, NEW B, NEW b, InBlock(m, B, b)
    PROVE  LET w(name) == Whole(m, B, b, name, 0)
           IN  /\ Shaped(m, B, b, "g", 0) /\ Shaped(m, B, b, "x", 0)
               /\ w("g") = Through(B, TableGelu, w("h1"))
               /\ w("g2") = GateVec(To8(Derived(m).gate_mlp_bits), w("gate_mlp"), w("f"))
               /\ w("sum2") = ResidualAdd(w("x1"), w("g2"))
               /\ w("x") = Scaled(w("sum2"), 0)
<1> DEFINE w(name) == Whole(m, B, b, name, 0)
<1>1. m \in Models /\ m.dims.d \in Nat /\ m.dims.s \in Nat
  BY ModelFacts DEF InBlock
<1>2. /\ Width(m, "g2") = m.dims.d /\ Width(m, "gate_mlp") = m.dims.d /\ Width(m, "f") = m.dims.d
      /\ Width(m, "sum2") = m.dims.d /\ Width(m, "x") = m.dims.d /\ Width(m, "x1") = m.dims.d
      /\ Width(m, "g") = Width(m, "h1")
  BY NarrowWidth DEF Narrow, Width
<1>3. Shaped(m, B, b, "gate_mlp", 0) /\ Shaped(m, B, b, "f", 0) /\ Shaped(m, B, b, "h1", 0) /\ Shaped(m, B, b, "x1", 0)
  BY ChunkFlows, ProjectedRows, AttnOutput DEF Projections
<1>4. PICK q : q = To8(Derived(m).gate_mlp_bits)
  OBVIOUS
<1>5. \A p : RowAt(m, B, b, "g2", 0, p) = GateVec(q, RowAt(m, B, b, "gate_mlp", 0, p), RowAt(m, B, b, "f", 0, p))
  BY <1>4, RowsAre DEF Gated2
<1>6. Shaped(m, B, b, "g2", 0) /\ w("g2") = GateVec(q, w("gate_mlp"), w("f"))
  BY <1>1, <1>2, <1>3, <1>5, GatedRows
<1>7. Shaped(m, B, b, "g", 0) /\ w("g") = Through(B, TableGelu, w("h1"))
  <2>1. \A p : RowAt(m, B, b, "g", 0, p) = Through(B, TableGelu, RowAt(m, B, b, "h1", 0, p))
    BY RowsAre
  <2> QED BY <1>1, <1>2, <1>3, <2>1, ThroughRows
<1>8. Shaped(m, B, b, "sum2", 0) /\ w("sum2") = ResidualAdd(w("x1"), w("g2"))
  <2>1. PICK F, G, H, s, n : /\ F = RowsAt(m, B, b, "x1", 0) /\ G = RowsAt(m, B, b, "g2", 0)
                             /\ H = RowsAt(m, B, b, "sum2", 0) /\ s = m.dims.s /\ n = m.dims.d
    OBVIOUS
  <2>2. s \in Nat /\ n \in Nat
    BY <1>1, <2>1
  <2>3. Grid(F, s, n) /\ Holds(FlattenSeq(F), F, s, n) /\ Grid(G, s, n) /\ Holds(FlattenSeq(G), G, s, n)
    BY <1>1, <1>2, <1>3, <1>6, <2>1, WholeHolds DEF Shaped
  <2>4. H = [p \in 1..s |-> ResidualAdd(F[p], G[p])]
    <3>1. ASSUME NEW p \in 1..s PROVE RowAt(m, B, b, "sum2", 0, p) = ResidualAdd(F[p], G[p])
      BY <2>1, MidRows, RowsEntry, RowsAre DEF Sum2Row
    <3> QED BY <2>1, <3>1 DEF RowsAt
  <2>5. Grid(H, s, n) /\ ResidualAdd(FlattenSeq(F), FlattenSeq(G)) = FlattenSeq(H)
    BY <2>2, <2>3, <2>4, FlatAdd
  <2> QED BY <1>2, <2>1, <2>5 DEF Shaped, Whole
<1>9. Shaped(m, B, b, "x", 0) /\ w("x") = Scaled(w("sum2"), 0)
  <2>1. \A p : RowAt(m, B, b, "x", 0, p) = Scaled(RowAt(m, B, b, "sum2", 0, p), 0)
    BY RowsAre
  <2> QED BY <1>1, <1>2, <1>8, <2>1, ScaledRows
<1> QED BY <1>4, <1>6, <1>7, <1>8, <1>9

\* A sequence as long as s rows of n entries holds the rows cut out of it.
CutRows(z, s, n) == [p \in 1..s |-> RowOf(z, p, n)]

LEMMA RowsHold ==
    ASSUME NEW s \in Nat, NEW n \in Nat, NEW z, IsList(z), Len(z) = s * n
    PROVE  Grid(CutRows(z, s, n), s, n) /\ Holds(z, CutRows(z, s, n), s, n)
<1>1. PICK F : F = CutRows(z, s, n)
  OBVIOUS
<1>2. F = [p \in 1..s |-> F[p]] /\ \A p \in 1..s : F[p] = RowOf(z, p, n)
  BY <1>1 DEF CutRows
<1>3. ASSUME NEW p \in 1..s PROVE IsCut(F[p], z, (p - 1) * n, n)
  <2>1. p \in Nat /\ F[p] = RowOf(z, p, n)
    BY <1>2
  <2>2. IsCut(RowOf(z, p, n), z, (p - 1) * n, n)
    BY <2>1, RowIs
  <2> QED BY <2>1, <2>2
<1>4. Grid(F, s, n)
  BY <1>2, <1>3 DEF Grid, IsCut
<1>5. \A p \in 1..s : \A j \in 1..n : z[At(p, n, j)] = F[p][j]
  BY <1>3 DEF At, IsCut
<1>6. DOMAIN z = 1..(s * n)
  BY ListFacts
<1> QED BY <1>1, <1>4, <1>5, <1>6 DEF Holds

\* The first residual, over a stream of the length of what is added to it.
LEMMA FirstSum ==
    ASSUME NEW m, NEW B, NEW b, InBlock(m, B, b),
           Len(Streams(m, B)[b - 1]) = Len(Whole(m, B, b, "g1", 0))
    PROVE  /\ Whole(m, B, b, "sum1", 0) = ResidualAdd(Streams(m, B)[b - 1], Whole(m, B, b, "g1", 0))
           /\ b = 1 => Len(m.x) = m.dims.s * m.dims.d
<1>1. m \in Models /\ Built(m) /\ Depth(m) \in Nat /\ b \in 1..Depth(m)
  BY BuiltDepth DEF InBlock
<1>2. PICK F, G, H, s, n, z :
          /\ z = Streams(m, B)[b - 1] /\ s = m.dims.s /\ n = m.dims.d
          /\ F = CutRows(z, s, n) /\ G = RowsAt(m, B, b, "g1", 0) /\ H = RowsAt(m, B, b, "sum1", 0)
  OBVIOUS
<1>3. s \in Nat /\ n \in Nat
  BY <1>1, <1>2, ModelFacts
<1>4. Grid(G, s, n) /\ Holds(FlattenSeq(G), G, s, n)
  <2>1. Shaped(m, B, b, "g1", 0) /\ Width(m, "g1") = m.dims.d
    BY AttnOutput, NarrowWidth DEF Narrow
  <2> QED BY <1>1, <1>2, <2>1, WholeHolds DEF Shaped
<1>5. Len(z) = s * n
  BY <1>2, <1>4 DEF Whole, Holds
<1>6. StreamsTo(m, B, Depth(m), Streams(m, B))
  BY <1>1, StreamsAre
<1>7. IsList(z)
  <2>1. CASE b = 1
    <3>1. z = m.x
      BY <1>2, <1>6, <2>1 DEF StreamsTo
    <3>2. m.x \in Seq(Int8)
      BY <1>1, ModelsAssumption
    <3> QED BY <3>1, <3>2, ListOf
  <2>2. CASE b # 1
    <3>1. PICK c \in 1..Depth(m) : c = b - 1
      BY <1>1, <2>2
    <3>2. InBlock(m, B, c)
      BY <3>1 DEF InBlock
    <3>3. Shaped(m, B, c, "x", 0)
      BY <3>2, FfnOutput
    <3>4. z = FlattenSeq(RowsAt(m, B, c, "x", 0))
      BY <1>1, <1>2, <3>1, StreamIs
    <3> QED BY <1>1, <3>3, <3>4, WholeHolds DEF Holds
  <2> QED BY <2>1, <2>2
<1>8. Grid(F, s, n) /\ Holds(z, F, s, n)
  BY <1>2, <1>3, <1>5, <1>7, RowsHold
<1>9. H = [p \in 1..s |-> ResidualAdd(F[p], G[p])]
  <2>1. ASSUME NEW p \in 1..s PROVE RowAt(m, B, b, "sum1", 0, p) = ResidualAdd(F[p], G[p])
    <3>1. RowAt(m, B, b, "sum1", 0, p) = ResidualAdd(InRow(m, B, b, p), RowAt(m, B, b, "g1", 0, p))
      BY RowsAre DEF Sum1Row
    <3>2. InRow(m, B, b, p) = F[p]
      BY <1>2 DEF InRow, CutRows
    <3>3. RowAt(m, B, b, "g1", 0, p) = G[p]
      BY <1>2, <2>1, RowsEntry
    <3> QED BY <3>1, <3>2, <3>3
  <2> QED BY <1>2, <2>1 DEF RowsAt
<1>10. ResidualAdd(z, FlattenSeq(G)) = FlattenSeq(H)
  BY <1>3, <1>4, <1>8, <1>9, FlatAdd
<1>11. b = 1 => z = m.x
  BY <1>2, <1>6 DEF StreamsTo
<1> QED BY <1>2, <1>5, <1>10, <1>11 DEF Whole

\* The action through its table, row by row, when it covers every position.
LEMMA SiluRows ==
    ASSUME NEW m \in Models, NEW B, Len(Through(B, TableSilu, m.c)) = m.dims.s * m.dims.d
    PROVE  /\ Len(m.c) = m.dims.s * m.dims.d
           /\ \A p \in 1..m.dims.s : RowOf(Through(B, TableSilu, m.c), p, m.dims.d)
                                     = Through(B, TableSilu, RowOf(m.c, p, m.dims.d))
<1>1. PICK s, n, c, y : /\ s \in Nat /\ n \in Nat
                        /\ c = m.c /\ y = Through(B, TableSilu, c) /\ s = m.dims.s /\ n = m.dims.d
  BY ModelFacts
<1>2. IsList(c)
  BY <1>1, ModelsAssumption, ListOf
<1>3. Len(c) = s * n
  <2>1. y = [i \in DOMAIN c |-> y[i]]
    BY <1>1 DEF Through
  <2>2. Len(y) = Len(c)
    BY <1>2, <2>1, LikeList
  <2> QED BY <1>1, <2>2
<1>4. PICK F, H : F = CutRows(c, s, n) /\ H = [p \in 1..s |-> Through(B, TableSilu, F[p])]
  OBVIOUS
<1>5. Grid(F, s, n) /\ Holds(c, F, s, n)
  BY <1>1, <1>2, <1>3, <1>4, RowsHold
<1>6. Grid(H, s, n) /\ y = FlattenSeq(H)
  <2>0. s \in Nat /\ n \in Nat
    BY <1>1
  <2>3. H = [p \in 1..s |-> Through(B, TableSilu, F[p])]
    BY <1>4
  <2>1. Grid(H, s, n) /\ Through(B, TableSilu, c) = FlattenSeq(H)
    BY <2>0, <2>3, <1>5, FlatThrough
  <2> QED BY <1>1, <2>1
<1>7. Holds(y, H, s, n)
  BY <1>1, <1>6, GridFlat
<1>8. ASSUME NEW p \in 1..s PROVE RowOf(y, p, n) = Through(B, TableSilu, RowOf(c, p, n))
  <2>1. RowOf(y, p, n) = H[p]
    BY <1>1, <1>6, <1>7, FlatRow
  <2>2. H[p] = Through(B, TableSilu, F[p]) /\ F[p] = RowOf(c, p, n)
    BY <1>4 DEF CutRows
  <2> QED BY <2>1, <2>2
<1> QED BY <1>1, <1>3, <1>8

(****************************** the programs *******************************)
\* Every op of P computes the forward value of its buffer, and the ops of S are among them.
Runs(m, B, P, S) == IsList(P) /\ (\A op \in Range(P) : Computes(m, B, op)) /\ S \subseteq Range(P)

LEMMA RangeJoin ==
    ASSUME NEW P, NEW Q, IsList(P), IsList(Q)
    PROVE  IsList(P \o Q) /\ Range(P \o Q) = Range(P) \union Range(Q)
<1>1. PICK R, p, q : R = P \o Q /\ p = Len(P) /\ q = Len(Q)
  OBVIOUS
<1>2. p \in Nat /\ q \in Nat /\ DOMAIN P = 1..p /\ DOMAIN Q = 1..q
  BY <1>1, ListFacts
<1>3. Joins(R, P, Q)
  BY <1>1, ConcatJoins
<1>4. /\ IsList(R) /\ DOMAIN R = 1..(p + q)
      /\ \A i \in 1..p : R[i] = P[i]
      /\ \A i \in 1..q : R[p + i] = Q[i]
  <2>1. IsList(R) /\ Len(R) = p + q
    BY <1>1, <1>3 DEF Joins
  <2>2. DOMAIN R = 1..(p + q)
    BY <2>1, ListFacts
  <2> QED BY <1>1, <1>3, <2>1, <2>2 DEF Joins
<1>5. Range(R) \subseteq Range(P) \union Range(Q)
  <2> SUFFICES ASSUME NEW i \in 1..(p + q) PROVE R[i] \in Range(P) \union Range(Q)
    BY <1>4 DEF Range
  <2>1. CASE i \in 1..p
    BY <1>2, <1>4, <2>1 DEF Range
  <2>2. CASE i \notin 1..p
    <3>1. PICK k \in 1..q : i = p + k
      <4>1. i - p \in 1..q /\ i = p + (i - p)
        BY <1>2, <2>2
      <4> QED BY <4>1
    <3> QED BY <1>2, <1>4, <3>1 DEF Range
  <2> QED BY <2>1, <2>2
<1>6. Range(P) \subseteq Range(R)
  <2>1. \A i \in 1..p : i \in DOMAIN R /\ R[i] = P[i]
    BY <1>2, <1>4
  <2> QED BY <1>2, <2>1 DEF Range
<1>7. Range(Q) \subseteq Range(R)
  <2>1. \A i \in 1..q : p + i \in DOMAIN R /\ R[p + i] = Q[i]
    BY <1>2, <1>4
  <2> QED BY <1>2, <2>1 DEF Range
<1> QED BY <1>1, <1>4, <1>5, <1>6, <1>7

LEMMA RunsNone ==
    ASSUME NEW m, NEW B
    PROVE  Runs(m, B, <<>>, {})
<1>1. IsList(<<>>)
  BY <<>> \in Seq(Nat), ListOf
<1>2. DOMAIN <<>> = {}
  OBVIOUS
<1> QED BY <1>1, <1>2 DEF Runs, Range

LEMMA RunsThen ==
    ASSUME NEW m, NEW B, NEW P, NEW Q, NEW S, NEW T, NEW U, Runs(m, B, P, S), Runs(m, B, Q, T),
           U \subseteq S \union T
    PROVE  Runs(m, B, P \o Q, U)
<1>1. PICK R : R = P \o Q
  OBVIOUS
<1>2. IsList(R) /\ Range(R) = Range(P) \union Range(Q)
  BY <1>1, RangeJoin DEF Runs
<1>3. Runs(m, B, R, U)
  BY <1>2 DEF Runs
<1> QED BY <1>1, <1>3

LEMMA RunsMore ==
    ASSUME NEW m, NEW B, NEW P, NEW S, NEW U, Runs(m, B, P, S), U \subseteq S
    PROVE  Runs(m, B, P, U)
  BY DEF Runs

LEMMA RunsOne ==
    ASSUME NEW m, NEW B, NEW op, Computes(m, B, op)
    PROVE  Runs(m, B, << op >>, {op})
<1>1. << op >> \in Seq({op}) /\ DOMAIN << op >> = {1} /\ << op >>[1] = op
  OBVIOUS
<1>2. PICK P : P = << op >>
  OBVIOUS
<1>3. IsList(P)
  BY <1>1, <1>2, ListOf
<1>4. Range(P) = {op}
  BY <1>1, <1>2 DEF Range
<1>5. Runs(m, B, P, {op})
  BY <1>3, <1>4 DEF Runs
<1> QED BY <1>2, <1>5

LEMMA RunsTwo ==
    ASSUME NEW m, NEW B, NEW a, NEW b, Computes(m, B, a), Computes(m, B, b)
    PROVE  Runs(m, B, <<a, b>>, {a, b})
<1>1. Runs(m, B, <<a>>, {a}) /\ Runs(m, B, <<b>>, {b})
  BY RunsOne
<1>2. Runs(m, B, <<a>> \o <<b>>, {a, b})
  BY <1>1, RunsThen
<1> QED BY <1>2, TwoJoin

LEMMA RunsThree ==
    ASSUME NEW m, NEW B, NEW a, NEW b, NEW c, Computes(m, B, a), Computes(m, B, b), Computes(m, B, c)
    PROVE  Runs(m, B, <<a, b, c>>, {a, b, c})
<1>1. Runs(m, B, <<a, b>>, {a, b}) /\ Runs(m, B, <<c>>, {c})
  BY RunsOne, RunsTwo
<1>2. Runs(m, B, <<a, b>> \o <<c>>, {a, b, c})
  BY <1>1, RunsThen
<1> QED BY <1>2, ThreeJoin

LEMMA RunsFive ==
    ASSUME NEW m, NEW B, NEW a, NEW b, NEW c, NEW d, NEW e, NEW S, NEW T,
           Runs(m, B, <<a, b, c>>, S), Runs(m, B, <<d, e>>, T)
    PROVE  Runs(m, B, <<a, b, c, d, e>>, {})
<1>1. PICK s, t, z, w : s = <<a, b, c>> /\ t = <<d, e>> /\ z = s \o t /\ w = <<a, b, c, d, e>>
  OBVIOUS
<1>2. Runs(m, B, z, {})
  BY <1>1, RunsThen
<1>3. w = z
  <2>1. s = <<a, b, c>> /\ t = <<d, e>>
    BY <1>1
  <2>2. <<a, b, c, d, e>> = s \o t
    BY <2>1, FiveJoin
  <2> QED BY <1>1, <2>2
<1> QED BY <1>1, <1>2, <1>3

\* Programs one after another.
LEMMA RunsFlat ==
    ASSUME NEW m, NEW B, NEW seqs, IsList(seqs), NEW S, \A i \in DOMAIN seqs : Runs(m, B, seqs[i], S[i])
    PROVE  Runs(m, B, FlattenSeq(seqs), UNION { S[i] : i \in DOMAIN seqs })
<1> DEFINE n == Len(seqs)
           upto(k) == UNION { S[i] : i \in 1..k }
<1>1. n \in Nat /\ DOMAIN seqs = 1..n
  BY ListFacts
<1>2. CASE n = 0
  <2>1. UNION { S[i] : i \in DOMAIN seqs } = {}
    BY <1>1, <1>2
  <2>2. FlattenSeq(seqs) = <<>>
    BY <1>2, FlattenFlat
  <2> QED BY <2>1, <2>2, RunsNone
<1>3. CASE n # 0
  <2>1. PICK g : Flat(seqs, n, g) /\ FlattenSeq(seqs) = g[n]
    BY <1>3, FlattenFlat
  <2>2. \A i \in 1..n : g[i] = IF i = 1 THEN seqs[i] ELSE g[i - 1] \o seqs[i]
    BY <2>1 DEF Flat
  <2> DEFINE T == { k \in Nat : k + 1 <= n => Runs(m, B, g[k + 1], upto(k + 1)) }
  <2>3. 0 \in T
    <3> SUFFICES ASSUME 1 <= n PROVE Runs(m, B, g[1], upto(1))
      OBVIOUS
    <3>1. g[1] = seqs[1] /\ Runs(m, B, seqs[1], S[1])
      BY <1>1, <2>2, 1 \in 1..n
    <3>2. upto(1) \subseteq S[1]
      OBVIOUS
    <3> HIDE DEF upto
    <3> QED BY <3>1, <3>2, RunsMore
  <2>4. ASSUME NEW k \in Nat, k \in T
        PROVE  k + 1 \in T
    <3> SUFFICES ASSUME (k + 1) + 1 <= n
                 PROVE  Runs(m, B, g[(k + 1) + 1], upto((k + 1) + 1))
      OBVIOUS
    <3> DEFINE c == k + 1
               e == c + 1
    <3>1. c \in Nat /\ e \in 1..n /\ e # 1 /\ e - 1 = c /\ c <= n
      BY <1>1
    <3> HIDE DEF upto
    <3>2. Runs(m, B, g[c], upto(c))
      BY <1>1, <2>4
    <3> HIDE DEF c
    <3>3. g[e] = g[c] \o seqs[e] /\ Runs(m, B, seqs[e], S[e])
      BY <1>1, <2>2, <3>1
    <3>4. upto(e) \subseteq upto(c) \union S[e]
      <4>1. \A i \in 1..e : i \in 1..c \/ i = e
        BY <3>1
      <4> QED BY <4>1 DEF upto
    <3> HIDE DEF e
    <3>5. Runs(m, B, g[e], upto(e))
      BY <3>2, <3>3, <3>4, RunsThen
    <3> QED BY <3>5 DEF e, c
  <2>5. \A k \in Nat : k \in T
    <3> HIDE DEF T
    <3> QED BY <2>3, <2>4, SetInduction
  <2>6. PICK k \in Nat : k + 1 = n
    <3>1. n - 1 \in Nat /\ (n - 1) + 1 = n
      BY <1>1, <1>3
    <3> QED BY <3>1
  <2>7. Runs(m, B, g[n], upto(n))
    <3> HIDE DEF upto
    <3> QED BY <1>1, <2>5, <2>6
  <2> QED BY <1>1, <2>1, <2>7
<1> QED BY <1>2, <1>3

\* Ops side by side, and the concatenation of what they write.
LEMMA RunsJoin ==
    ASSUME NEW m, NEW B, NEW P, IsList(P), \A i \in DOMAIN P : Computes(m, B, P[i]),
           NEW op, Computes(m, B, op)
    PROVE  Runs(m, B, P \o << op >>, {})
<1>1. Runs(m, B, P, {})
  BY DEF Runs, Range
<1>2. Runs(m, B, << op >>, {op})
  BY RunsOne
<1> QED BY <1>1, <1>2, RunsThen

(******************************* the pieces ********************************)
\* Names of whole buffers that are just their rows.
Ordinary(name) == name \notin {"c", "silu_c", "x"}

LEMMA WholeIs ==
    ASSUME NEW m, NEW B, NEW b, NEW name, Ordinary(name), NEW h
    PROVE  ValAt(m, B, Buf(b, name, h)) = Whole(m, B, b, name, h)
<1>1. ValAt(m, B, Buf(b, name, h)) = WholeVal(m, B, b, name, h)
  BY ValsAre
<1>2. WholeVal(m, B, b, name, h) = Whole(m, B, b, name, h)
  BY DEF Ordinary, WholeVal, Whole
<1> QED BY <1>1, <1>2

\* A row cut out of a buffer and not normalized.
LEMMA CutIsRow ==
    ASSUME NEW m, NEW B, NEW b, NEW name, name \notin NormNames, NEW h, NEW p
    PROVE  ValAt(m, B, Part(Buf(b, name, h), "row", p)) = RowAt(m, B, b, name, h, p)
<1>1. ValAt(m, B, Part(Buf(b, name, h), "row", p)) = CutRow(m, B, b, name, h, p)
  BY ValsAre
<1>2. CutRow(m, B, b, name, h, p) = RowAt(m, B, b, name, h, p)
  BY DEF CutRow, NormNames
<1> QED BY <1>1, <1>2

LEMMA PlainBufs ==
    ASSUME NEW m, NEW b, NEW name, NEW h, NEW p, name # "sum1"
    PROVE  /\ Enforces(m, Buf(b, name, h)) /\ Enforces(m, Part(Buf(b, name, h), "row", p))
           /\ Enforces(m, Part(Buf(b, name, h), "norm", p)) /\ Enforces(m, Part(Buf(b, name, h), "part", p))
  BY PlainAre, PlainEnforces

\* extract_cols: the band of every row.
LEMMA RunsCols ==
    ASSUME NEW m \in Models, NEW B, NEW b, NEW src, NEW name, NEW h, NEW width, NEW col, NEW len,
           Ordinary(src), Ordinary(name), name # "sum1", name \notin NormNames,
           width = Width(m, src), len = Width(m, name), Banded(m, B, b, src, name, h, col)
    PROVE  Runs(m, B, ExtractCols(m, Buf(b, src, 0), Buf(b, name, h), width, col, len), {})
<1> DEFINE out == Buf(b, name, h)
           s == m.dims.s
           op(p) == Slice(Buf(b, src, 0), Part(out, "row", p), (p - 1) * width + col, len)
           P == [p \in 1..s |-> op(p)]
           args == [p \in 1..s |-> Part(out, "row", p)]
<1>1. s \in Nat
  BY ModelFacts
<1>2. ASSUME NEW p \in 1..s PROVE Computes(m, B, op(p))
  <2>1. PICK start, row, from : /\ start = (p - 1) * width + col /\ row = Part(out, "row", p)
                                /\ from = Buf(b, src, 0)
    OBVIOUS
  <2>2. ValAt(m, B, row) = RowAt(m, B, b, name, h, p)
    BY <2>1, CutIsRow
  <2>3. ValAt(m, B, from) = Whole(m, B, b, src, 0)
    BY <2>1, WholeIs
  <2>4. RowAt(m, B, b, name, h, p) = SubSeq(Whole(m, B, b, src, 0), start + 1, start + len)
    BY <2>1 DEF Banded, Whole
  <2>5. Enforces(m, row)
    BY <2>1, PlainBufs
  <2> HIDE DEF out
  <2>6. Computes(m, B, Slice(from, row, start, len))
    BY <2>2, <2>3, <2>4, <2>5, SliceComputes
  <2> QED BY <2>1, <2>6
<1>3. Computes(m, B, Concat(args, out))
  <2>1. ValAt(m, B, out) = Whole(m, B, b, name, h) /\ Enforces(m, out)
    BY WholeIs, PlainBufs
  <2>2. [i \in DOMAIN args |-> ValAt(m, B, args[i])] = RowsAt(m, B, b, name, h)
    <3>1. \A p \in 1..s : ValAt(m, B, Part(out, "row", p)) = RowAt(m, B, b, name, h, p)
      BY CutIsRow
    <3> HIDE DEF out
    <3>2. DOMAIN args = 1..s /\ \A p \in 1..s : args[p] = Part(out, "row", p)
      OBVIOUS
    <3> HIDE DEF args
    <3> QED BY <3>1, <3>2 DEF RowsAt
  <2>3. ValAt(m, B, out) = FlattenSeq([i \in DOMAIN args |-> ValAt(m, B, args[i])])
    BY <2>1, <2>2 DEF Whole
  <2> HIDE DEF out, args
  <2> QED BY <2>1, <2>3, ConcatComputes
<1>4. ExtractCols(m, Buf(b, src, 0), out, width, col, len) = P \o << Concat(args, out) >>
  BY DEF ExtractCols
<1> HIDE DEF out, op, args
<1>5. IsList(P) /\ \A i \in DOMAIN P : Computes(m, B, P[i])
  <2>1. P = [p \in 1..s |-> P[p]] /\ \A p \in 1..s : P[p] = op(p)
    OBVIOUS
  <2> HIDE DEF P
  <2> QED BY <1>1, <1>2, <2>1, MakeList
<1> HIDE DEF P
<1>6. Runs(m, B, P \o << Concat(args, out) >>, {})
  BY <1>3, <1>5, RunsJoin
<1> QED BY <1>4, <1>6 DEF out

\* ln_per_pos: every row cut and normalized.
LEMMA RunsNorm ==
    ASSUME NEW m \in Models, NEW B, NEW b, NEW name \in NormNames, NEW x,
           \A p \in 1..m.dims.s : CutRow(m, B, b, name, 0, p) = RowOf(ValAt(m, B, x), p, m.dims.d)
    PROVE  Runs(m, B, LnPerPos(m, x, Buf(b, name, 0), Derived(m)), {})
<1> DEFINE out == Buf(b, name, 0)
           s == m.dims.s
           cut(p) == Slice(x, Part(out, "row", p), (p - 1) * m.dims.d, m.dims.d)
           ln(p) == Norm(Part(out, "row", p), Part(out, "norm", p), Derived(m).ln_shift)
           seqs == [p \in 1..s |-> << cut(p), ln(p) >>]
           args == [p \in 1..s |-> Part(out, "norm", p)]
<1>1. s \in Nat /\ m.dims.d \in Nat /\ name # "sum1" /\ Ordinary(name)
  BY ModelFacts DEF NormNames, Ordinary
<1>2. ASSUME NEW p \in 1..s PROVE Computes(m, B, cut(p)) /\ Computes(m, B, ln(p))
  <2>1. PICK start, row, norm, d, shift : /\ start = (p - 1) * m.dims.d /\ row = Part(out, "row", p)
                                          /\ norm = Part(out, "norm", p) /\ d = m.dims.d
                                          /\ shift = Derived(m).ln_shift
    OBVIOUS
  <2>2. ValAt(m, B, row) = CutRow(m, B, b, name, 0, p) /\ ValAt(m, B, norm) = RowAt(m, B, b, name, 0, p)
    BY <2>1, ValsAre
  <2>3. Enforces(m, row) /\ Enforces(m, norm)
    BY <1>1, <2>1, PlainBufs
  <2>4. ValAt(m, B, row) = SubSeq(ValAt(m, B, x), start + 1, start + d)
    <3>1. PICK z : z = ValAt(m, B, x)
      OBVIOUS
    <3>2. d \in Nat /\ p \in Nat
      BY <1>1, <2>1
    <3>3. RowOf(z, p, d) = SubSeq(z, (p - 1) * d + 1, (p - 1) * d + d)
      BY <3>2, RowIs
    <3> QED BY <2>1, <2>2, <3>1, <3>3
  <2>5. ValAt(m, B, norm) = LayerNorm(To8(shift), ValAt(m, B, row), Find(B.tables, TableInvSqrt))
    BY <2>1, <2>2, NormalIs DEF NormRow
  <2> HIDE DEF out
  <2>6. Computes(m, B, Slice(x, row, start, d)) /\ Computes(m, B, Norm(row, norm, shift))
    BY <2>3, <2>4, <2>5, SliceComputes, NormComputes
  <2> QED BY <2>1, <2>6
<1>3. Computes(m, B, Concat(args, out))
  <2>1. ValAt(m, B, out) = Whole(m, B, b, name, 0) /\ Enforces(m, out)
    BY <1>1, WholeIs, PlainBufs
  <2>2. [i \in DOMAIN args |-> ValAt(m, B, args[i])] = RowsAt(m, B, b, name, 0)
    <3>1. \A p \in 1..s : ValAt(m, B, Part(out, "norm", p)) = RowAt(m, B, b, name, 0, p)
      BY ValsAre
    <3> HIDE DEF out
    <3>2. DOMAIN args = 1..s /\ \A p \in 1..s : args[p] = Part(out, "norm", p)
      OBVIOUS
    <3> HIDE DEF args
    <3> QED BY <3>1, <3>2 DEF RowsAt
  <2>3. ValAt(m, B, out) = FlattenSeq([i \in DOMAIN args |-> ValAt(m, B, args[i])])
    BY <2>1, <2>2 DEF Whole
  <2> HIDE DEF out, args
  <2> QED BY <2>1, <2>3, ConcatComputes
<1>4. LnPerPos(m, x, out, Derived(m)) = FlattenSeq(seqs) \o << Concat(args, out) >>
  BY DEF LnPerPos
<1> HIDE DEF out, cut, ln, args
<1>5. IsList(seqs) /\ \A p \in DOMAIN seqs : Runs(m, B, seqs[p], {cut(p), ln(p)})
  <2>1. seqs = [p \in 1..s |-> seqs[p]] /\ \A p \in 1..s : seqs[p] = << cut(p), ln(p) >>
    OBVIOUS
  <2>2. \A p \in 1..s : Runs(m, B, << cut(p), ln(p) >>, {cut(p), ln(p)})
    BY <1>2, RunsTwo
  <2> HIDE DEF seqs
  <2> QED BY <1>1, <2>1, <2>2, MakeList
<1>6. Runs(m, B, FlattenSeq(seqs), {})
  <2>1. PICK S : S = [p \in DOMAIN seqs |-> {cut(p), ln(p)}]
    OBVIOUS
  <2>2. \A p \in DOMAIN seqs : Runs(m, B, seqs[p], S[p])
    BY <1>5, <2>1
  <2>3. {} \subseteq UNION { S[p] : p \in DOMAIN seqs }
    OBVIOUS
  <2> HIDE DEF seqs
  <2> QED BY <1>5, <2>2, <2>3, RunsFlat, RunsMore
<1>7. Runs(m, B, << Concat(args, out) >>, {Concat(args, out)})
  BY <1>3, RunsOne
<1>8. Runs(m, B, FlattenSeq(seqs) \o << Concat(args, out) >>, {})
  <2> HIDE DEF seqs
  <2> QED BY <1>6, <1>7, RunsThen
<1> QED BY <1>4, <1>8 DEF out

\* A linear over every position and its requantization: what the linear sums up is
\* that of the forward pass once its input covers every position.
LEMMA RunsProject ==
    ASSUME NEW m, NEW B, NEW b, InBlock(m, B, b), NEW name \in Projections, NEW k, k = LinearOf(name), NEW in,
           Len(ValAt(m, B, in)) = m.dims.s * ColsOfLinear(m, k)
             => /\ \A p \in 1..m.dims.s :
                       AccRow(m, B, b, name, p) = Dense(B, b, k, RowOf(ValAt(m, B, in), p, ColsOfLinear(m, k)))
                /\ Enforces(m, Part(Buf(b, name, 0), "acc", 0))
    PROVE  Runs(m, B, Project(m, b, k, in, Buf(b, name, 0), Derived(m)),
                {Batched(m, b, k, in, Part(Buf(b, name, 0), "acc", 0))})
<1>1. m \in Models /\ Built(m) /\ B = Binds(m) /\ b \in 1..Depth(m)
  BY DEF InBlock
<1>2. k \in 1..5 /\ Ordinary(name) /\ name # "sum1" /\ RowsOfLinear(m, k) = Width(m, name)
  BY DEF LinearOf, Projections, Ordinary, RowsOfLinear, Width
<1>3. PICK w, s, n, c, acc, out, shift, bias :
          /\ w = Find(B.weights, WeightId(b, k)) /\ s = m.dims.s /\ n = Width(m, name) /\ c = ColsOfLinear(m, k)
          /\ out = Buf(b, name, 0) /\ acc = Part(out, "acc", 0) /\ shift = Derived(m).blocks[b][k]
          /\ bias = [i \in 1..Rows(w) |-> 0]
  OBVIOUS
<1>4. Rows(w) = n /\ Cols(w) = c /\ s \in Nat /\ n \in Nat
  BY <1>1, <1>2, <1>3, DenseShape, WidthIs
<1>5. PICK F : F = AccRows(m, B, b, name)
  OBVIOUS
<1>6. ValAt(m, B, acc) = FlattenSeq(F)
  BY <1>3, <1>5, ValsAre
<1>7. ValAt(m, B, out) = Whole(m, B, b, name, 0) /\ Enforces(m, out)
  BY <1>2, <1>3, WholeIs, PlainBufs
<1>8. Computes(m, B, Batched(m, b, k, in, acc))
  <2>1. ASSUME Len(ValAt(m, B, in)) = s * Cols(w)
        PROVE  ValAt(m, B, acc) = LinearRows(w, ValAt(m, B, in), bias, s) /\ Enforces(m, acc)
    <3>1. PICK v : v = ValAt(m, B, in)
      OBVIOUS
    <3>2. /\ \A p \in 1..s : AccRow(m, B, b, name, p) = Dense(B, b, k, RowOf(v, p, c))
          /\ Enforces(m, acc)
      BY <1>3, <1>4, <2>1, <3>1
    <3>3. \A p : Dense(B, b, k, RowOf(v, p, c)) = Linear(w, RowOf(v, p, Cols(w)), bias)
      BY <1>3, <1>4 DEF Dense
    <3>4. F = [p \in 1..s |-> Linear(w, RowOf(v, p, Cols(w)), bias)]
      BY <1>3, <1>5, <3>2, <3>3 DEF AccRows
    <3>5. LinearRows(w, v, bias, s) = FlattenSeq(F)
      BY <1>4, <3>4, FlatDense
    <3> QED BY <1>6, <3>1, <3>2, <3>5
  <2> QED BY <1>3, <2>1, BatchedComputes
<1>9. Computes(m, B, Requant(acc, out, shift))
  <2>1. Whole(m, B, b, name, 0) = Scaled(FlattenSeq(F), shift)
    BY <1>3, <1>5, ProjectedRows DEF Whole
  <2>2. ValAt(m, B, out) = Scaled(ValAt(m, B, acc), shift)
    BY <1>6, <1>7, <2>1
  <2> QED BY <1>7, <2>2, RequantComputes
<1>10. Project(m, b, k, in, out, Derived(m)) = << Batched(m, b, k, in, acc), Requant(acc, out, shift) >>
  BY <1>3 DEF Project
<1>11. PICK lin, rq : lin = Batched(m, b, k, in, acc) /\ rq = Requant(acc, out, shift)
  OBVIOUS
<1>12. Runs(m, B, << lin, rq >>, {lin})
  <2>1. Runs(m, B, << lin, rq >>, {lin, rq})
    BY <1>8, <1>9, <1>11, RunsTwo
  <2> QED BY <2>1, RunsMore
<1> QED BY <1>3, <1>10, <1>11, <1>12

\* A linear over the rows of a name.
LEMMA RunsDense ==
    ASSUME NEW m, NEW B, NEW b, InBlock(m, B, b), NEW name \in Projections, name # "adaln", NEW k,
           k = LinearOf(name), NEW in, Ordinary(in), Shaped(m, B, b, in, 0), Width(m, in) = ColsOfLinear(m, k),
           \A p : AccRow(m, B, b, name, p) = Dense(B, b, k, RowAt(m, B, b, in, 0, p))
    PROVE  Runs(m, B, Project(m, b, k, Buf(b, in, 0), Buf(b, name, 0), Derived(m)), {})
<1>1. PICK v, buf, acc : v = Whole(m, B, b, in, 0) /\ buf = Buf(b, in, 0) /\ acc = Part(Buf(b, name, 0), "acc", 0)
  OBVIOUS
<1>2. ValAt(m, B, buf) = v
  BY <1>1, WholeIs
<1>3. \A p \in 1..m.dims.s : RowOf(v, p, ColsOfLinear(m, k)) = RowAt(m, B, b, in, 0, p)
  BY <1>1, WholeHolds DEF Whole, InBlock
<1>4. Enforces(m, acc)
  <2>1. name # "sum1"
    BY DEF Projections
  <2>2. Plain(acc)
    BY <1>1, <2>1, PlainAre
  <2> QED BY <2>2, PlainEnforces
<1>5. Runs(m, B, Project(m, b, k, buf, Buf(b, name, 0), Derived(m)),
           {Batched(m, b, k, buf, Part(Buf(b, name, 0), "acc", 0))})
  BY <1>1, <1>2, <1>3, <1>4, RunsProject
<1>6. Runs(m, B, Project(m, b, k, buf, Buf(b, name, 0), Derived(m)), {})
  BY <1>5, RunsMore
<1> QED BY <1>1, <1>6

\* One attention head.
LEMMA RunsHead ==
    ASSUME NEW m, NEW B, NEW b, InBlock(m, B, b), NEW h \in 1..m.dims.h
    PROVE  Runs(m, B, HeadOps(m, b, h, Derived(m)), {})
<1> DEFINE at(name) == Buf(b, name, h)
           w(name) == Whole(m, B, b, name, h)
           qp == Derived(m)
           dh == m.dims.dh
           s == m.dims.s
           band(all, name) == ExtractCols(m, Buf(b, all, 0), at(name), Inner(m), (h - 1) * dh, dh)
           qk == MatMulOp(at("qh"), at("kh"), at("qk"), s, dh, s, TRUE)
           scores == Requant(at("qk"), at("scores"), qp.score_shift)
           prob == SoftmaxOp(at("scores"), at("prob"), s, qp.softmax_one)
           pv == MatMulOp(at("prob"), at("vh"), at("pv"), s, s, dh, FALSE)
           oh == Requant(at("pv"), at("oh"), qp.oh_shift)
<1>1. m \in Models
  BY DEF InBlock
<1>2. HeadOps(m, b, h, qp) = band("q", "qh") \o band("k", "kh") \o band("v", "vh")
                             \o << qk, scores, prob, pv, oh >>
  BY DEF HeadOps
<1>3. /\ Runs(m, B, band("q", "qh"), {})
      /\ Runs(m, B, band("k", "kh"), {})
      /\ Runs(m, B, band("v", "vh"), {})
  <2>1. /\ Width(m, "q") = Inner(m) /\ Width(m, "k") = Inner(m) /\ Width(m, "v") = Inner(m)
        /\ Width(m, "qh") = dh /\ Width(m, "kh") = dh /\ Width(m, "vh") = dh
    BY DEF Width
  <2>2. PICK col : col = (h - 1) * dh
    OBVIOUS
  <2>3. Banded(m, B, b, "q", "qh", h, col)
    BY <2>1, <2>2, 0 \in 0..2, RowsAre, PartBands
  <2>4. Banded(m, B, b, "k", "kh", h, col)
    BY <2>1, <2>2, 1 \in 0..2, RowsAre, PartBands
  <2>5. Banded(m, B, b, "v", "vh", h, col)
    BY <2>1, <2>2, 2 \in 0..2, RowsAre, PartBands
  <2>6. \A name \in {"q", "k", "v", "qh", "kh", "vh"} : Ordinary(name) /\ name # "sum1" /\ name \notin NormNames
    BY DEF Ordinary, NormNames
  <2>7. PICK width, len : width = Inner(m) /\ len = dh
    OBVIOUS
  <2>8. Runs(m, B, ExtractCols(m, Buf(b, "q", 0), Buf(b, "qh", h), width, col, len), {})
    BY <1>1, <2>1, <2>3, <2>6, <2>7, RunsCols
  <2>9. Runs(m, B, ExtractCols(m, Buf(b, "k", 0), Buf(b, "kh", h), width, col, len), {})
    BY <1>1, <2>1, <2>4, <2>6, <2>7, RunsCols
  <2>10. Runs(m, B, ExtractCols(m, Buf(b, "v", 0), Buf(b, "vh", h), width, col, len), {})
    BY <1>1, <2>1, <2>5, <2>6, <2>7, RunsCols
  <2> QED BY <2>2, <2>7, <2>8, <2>9, <2>10
<1>4. \A name \in {"qh", "kh", "vh", "qk", "scores", "prob", "pv", "oh"} :
          ValAt(m, B, at(name)) = w(name) /\ Enforces(m, at(name))
  <2> TAKE name \in {"qh", "kh", "vh", "qk", "scores", "prob", "pv", "oh"}
  <2>1. Ordinary(name) /\ name # "sum1"
    BY DEF Ordinary
  <2> QED BY <2>1, WholeIs, PlainBufs
<1>5. HeadFlow(m, B, b, h)
  BY HeadFlows
<1>6. /\ ScoresOp(qk, s, dh, s) => w("qk") = MatMul(w("qh"), w("kh"), qk)
      /\ w("scores") = Scaled(w("qk"), qp.score_shift)
      /\ w("prob") = SoftmaxRows(w("scores"), s, Find(B.tables, TableExp), qp.softmax_one)
      /\ ValuesOp(pv, s, s, dh) => w("pv") = MatMul(w("prob"), w("vh"), pv)
      /\ w("oh") = Scaled(w("pv"), qp.oh_shift)
  <2> HIDE DEF qk, pv
  <2> QED BY <1>5 DEF HeadFlow
<1>7. ScoresOp(qk, s, dh, s) /\ ValuesOp(pv, s, s, dh)
  BY DEF MatMulOp, ScoresOp, ValuesOp
<1> HIDE DEF at, w, qp, dh, s
<1>8. Computes(m, B, qk)
  <2>1. ValAt(m, B, at("qk")) = MatMul(ValAt(m, B, at("qh")), ValAt(m, B, at("kh")), qk)
    <3> HIDE DEF qk
    <3> QED BY <1>4, <1>6, <1>7
  <2> QED BY <1>4, <2>1, MatMulComputes
<1>9. Computes(m, B, pv)
  <2>1. ValAt(m, B, at("pv")) = MatMul(ValAt(m, B, at("prob")), ValAt(m, B, at("vh")), pv)
    <3> HIDE DEF pv
    <3> QED BY <1>4, <1>6, <1>7
  <2> QED BY <1>4, <2>1, MatMulComputes
<1>10. Computes(m, B, scores) /\ Computes(m, B, oh)
  <2>1. PICK u, v : u = qp.score_shift /\ v = qp.oh_shift
    OBVIOUS
  <2>2. /\ ValAt(m, B, at("scores")) = Scaled(ValAt(m, B, at("qk")), u)
        /\ ValAt(m, B, at("oh")) = Scaled(ValAt(m, B, at("pv")), v)
        /\ Enforces(m, at("scores")) /\ Enforces(m, at("oh"))
    <3> HIDE DEF qk, pv
    <3> QED BY <1>4, <1>6, <2>1
  <2> QED BY <2>1, <2>2, RequantComputes
<1>11. Computes(m, B, prob)
  <2>1. ValAt(m, B, at("prob")) = SoftmaxRows(ValAt(m, B, at("scores")), s, Find(B.tables, TableExp), qp.softmax_one)
    <3> HIDE DEF qk, pv
    <3> QED BY <1>4, <1>6
  <2> QED BY <1>4, <2>1, SoftmaxComputes
<1> HIDE DEF qk, scores, prob, pv, oh, band
<1>12. Runs(m, B, << qk, scores, prob, pv, oh >>, {})
  <2>1. Runs(m, B, << qk, scores, prob >>, {qk, scores, prob}) /\ Runs(m, B, << pv, oh >>, {pv, oh})
    BY <1>8, <1>9, <1>10, <1>11, RunsTwo, RunsThree
  <2> QED BY <2>1, RunsFive
<1>13. Runs(m, B, band("q", "qh") \o band("k", "kh"), {})
  BY <1>3, RunsThen
<1>14. Runs(m, B, band("q", "qh") \o band("k", "kh") \o band("v", "vh"), {})
  BY <1>3, <1>13, RunsThen
<1>15. Runs(m, B, HeadOps(m, b, h, qp), {})
  BY <1>2, <1>12, <1>14, RunsThen
<1> QED BY <1>15 DEF qp

LEMMA RunsAllHeads ==
    ASSUME NEW m, NEW B, NEW b, InBlock(m, B, b)
    PROVE  Runs(m, B, FlattenSeq([h \in 1..m.dims.h |-> HeadOps(m, b, h, Derived(m))]), {})
<1> DEFINE H == m.dims.h
           headOps(h) == HeadOps(m, b, h, Derived(m))
           seqs == [h \in 1..H |-> headOps(h)]
<1>1. H \in Nat
  BY ModelFacts DEF InBlock
<1>2. IsList(seqs) /\ DOMAIN seqs = 1..H /\ \A h \in 1..H : seqs[h] = headOps(h)
  <2>1. seqs = [h \in 1..H |-> seqs[h]] /\ DOMAIN seqs = 1..H /\ \A h \in 1..H : seqs[h] = headOps(h)
    OBVIOUS
  <2> HIDE DEF seqs, headOps
  <2> QED BY <1>1, <2>1, MakeList
<1>3. \A h \in 1..H : Runs(m, B, headOps(h), {})
  BY RunsHead
<1>4. PICK q, S : q = seqs /\ S = [h \in 1..H |-> {}]
  OBVIOUS
<1> HIDE DEF seqs, headOps
<1>5. IsList(q) /\ \A h \in DOMAIN q : Runs(m, B, q[h], S[h])
  BY <1>2, <1>3, <1>4
<1>6. Runs(m, B, FlattenSeq(q), UNION { S[h] : h \in DOMAIN q })
  BY <1>5, RunsFlat
<1>7. Runs(m, B, FlattenSeq(q), {})
  BY <1>6, RunsMore
<1> QED BY <1>4, <1>7 DEF seqs, headOps

\* The slices of all heads, position by position.
LEMMA RunsHeads ==
    ASSUME NEW m, NEW B, NEW b, InBlock(m, B, b)
    PROVE  Runs(m, B, JoinHeads(m, b), {})
<1> DEFINE H == m.dims.h
           pos(e) == ((e - 1) \div H) + 1
           head(e) == ((e - 1) % H) + 1
           part(e) == Part(Buf(b, "oh", head(e)), "part", pos(e))
           places == 1..(m.dims.s * H)
           op(e) == Slice(Buf(b, "oh", head(e)), part(e), (pos(e) - 1) * m.dims.dh, m.dims.dh)
           P == [e \in places |-> op(e)]
           args == [e \in places |-> part(e)]
           out == Buf(b, "attn_cat", 0)
<1>1. m \in Models /\ m.dims.s \in Nat /\ H \in Nat /\ m.dims.s * H \in Nat /\ m.dims.dh \in Nat
  BY ModelFacts DEF InBlock
<1>2. JoinHeads(m, b) = P \o << Concat(args, out) >>
  BY DEF JoinHeads
<1>3. \A e \in places : head(e) \in 1..H /\ pos(e) \in 1..m.dims.s
  BY <1>1, RowIndex
<1>4. ASSUME NEW e \in places PROVE Computes(m, B, op(e))
  <2>1. PICK h, p, start, len : /\ h = head(e) /\ p = pos(e)
                                /\ start = (pos(e) - 1) * m.dims.dh /\ len = m.dims.dh
    OBVIOUS
  <2>2. h \in 1..H /\ p \in 1..m.dims.s
    BY <1>3, <2>1
  <2> HIDE DEF head, pos
  <2>3. PICK src, to : src = Buf(b, "oh", h) /\ to = Part(Buf(b, "oh", h), "part", p)
    OBVIOUS
  <2>4. ValAt(m, B, src) = Whole(m, B, b, "oh", h) /\ ValAt(m, B, to) = RowAt(m, B, b, "oh", h, p)
    <3>1. Ordinary("oh")
      BY DEF Ordinary
    <3>2. ValAt(m, B, src) = Whole(m, B, b, "oh", h)
      BY <2>3, <3>1, WholeIs
    <3>3. ValAt(m, B, to) = RowAt(m, B, b, "oh", h, p)
      BY <2>3, ValsAre
    <3> QED BY <3>2, <3>3
  <2>5. RowAt(m, B, b, "oh", h, p) = RowOf(Whole(m, B, b, "oh", h), p, len)
    <3>1. Shaped(m, B, b, "oh", h) /\ Width(m, "oh") = len
      BY <2>1, <2>2, HeadFlows DEF HeadFlow, Width
    <3> QED BY <1>1, <2>2, <3>1, WholeHolds DEF Whole
  <2>6. ValAt(m, B, to) = SubSeq(ValAt(m, B, src), start + 1, start + len)
    <3>1. PICK z : z = Whole(m, B, b, "oh", h)
      OBVIOUS
    <3>2. p \in Nat /\ len \in Nat /\ start = (p - 1) * len
      BY <1>1, <2>1, <2>2
    <3>3. RowOf(z, p, len) = SubSeq(z, (p - 1) * len + 1, (p - 1) * len + len)
      BY <3>2, RowIs
    <3> QED BY <2>4, <2>5, <3>1, <3>2, <3>3
  <2>7. Enforces(m, to)
    BY <2>3, PlainBufs
  <2>8. Computes(m, B, Slice(src, to, start, len))
    BY <2>6, <2>7, SliceComputes
  <2> QED BY <2>1, <2>3, <2>8
<1>5. Computes(m, B, Concat(args, out))
  <2>1. PICK E : E = [e \in places |-> RowAt(m, B, b, "oh", head(e), pos(e))]
    OBVIOUS
  <2>2. Whole(m, B, b, "attn_cat", 0) = FlattenSeq(E)
    BY <2>1, HeadsJoin
  <2> HIDE DEF head, pos, out
  <2>3. [e \in DOMAIN args |-> ValAt(m, B, args[e])] = E
    <3>1. \A e \in places : ValAt(m, B, part(e)) = RowAt(m, B, b, "oh", head(e), pos(e))
      BY ValsAre
    <3> HIDE DEF part, places
    <3>2. DOMAIN args = places /\ \A e \in places : args[e] = part(e)
      OBVIOUS
    <3> HIDE DEF args
    <3> QED BY <2>1, <3>1, <3>2
  <2>4. ValAt(m, B, out) = Whole(m, B, b, "attn_cat", 0) /\ Enforces(m, out)
    <3>1. Ordinary("attn_cat")
      BY DEF Ordinary
    <3> QED BY <3>1, WholeIs, PlainBufs DEF out
  <2> HIDE DEF args
  <2>5. ValAt(m, B, out) = FlattenSeq([e \in DOMAIN args |-> ValAt(m, B, args[e])])
    BY <2>2, <2>3, <2>4
  <2> QED BY <2>4, <2>5, ConcatComputes
<1> HIDE DEF op, part, head, pos, out, args
<1>6. IsList(P) /\ \A i \in DOMAIN P : Computes(m, B, P[i])
  <2>1. P = [e \in places |-> P[e]] /\ \A e \in places : P[e] = op(e)
    OBVIOUS
  <2> HIDE DEF P
  <2> QED BY <1>1, <1>4, <2>1, MakeList
<1> HIDE DEF P
<1> QED BY <1>2, <1>5, <1>6, RunsJoin

\* The attention sublayer.
LEMMA RunsAttn ==
    ASSUME NEW m, NEW B, NEW b, InBlock(m, B, b)
    PROVE  Runs(m, B, Attn(m, b, Buf(b, "m1", 0), Derived(m)), {})
<1> DEFINE at(name) == Buf(b, name, 0)
           qp == Derived(m)
           third(j, name) == ExtractCols(m, at("qkv"), at(name), 3 * Inner(m), j * Inner(m), Inner(m))
           P1 == LnPerPos(m, at("m1"), at("a0"), qp)
           P2 == Project(m, b, 2, at("a0"), at("qkv"), qp)
           P3 == third(0, "q")
           P4 == third(1, "k")
           P5 == third(2, "v")
           P6 == FlattenSeq([h \in 1..m.dims.h |-> HeadOps(m, b, h, qp)])
           P7 == JoinHeads(m, b)
           P8 == Project(m, b, 3, at("attn_cat"), at("a"), qp)
<1>1. Attn(m, b, at("m1"), qp) = P1 \o P2 \o P3 \o P4 \o P5 \o P6 \o P7 \o P8
  BY DEF Attn
<1>2. m \in Models
  BY DEF InBlock
<1>3. \A name \in {"m1", "a0", "qkv", "q", "k", "v", "attn_cat", "a"} : Ordinary(name) /\ name # "sum1"
  BY DEF Ordinary
<1>4. Runs(m, B, P1, {})
  <2>1. ASSUME NEW p \in 1..m.dims.s
        PROVE  CutRow(m, B, b, "a0", 0, p) = RowOf(ValAt(m, B, at("m1")), p, m.dims.d)
    <3>1. CutRow(m, B, b, "a0", 0, p) = RowAt(m, B, b, "m1", 0, p)
      BY CutsAre, RowsAre
    <3>2. Shaped(m, B, b, "m1", 0) /\ Width(m, "m1") = m.dims.d
      BY AttnInput, NarrowWidth DEF Narrow
    <3>3. RowOf(Whole(m, B, b, "m1", 0), p, m.dims.d) = RowAt(m, B, b, "m1", 0, p)
      BY <1>2, <3>2, WholeHolds DEF Whole
    <3>4. ValAt(m, B, at("m1")) = Whole(m, B, b, "m1", 0)
      BY <1>3, WholeIs
    <3> QED BY <3>1, <3>3, <3>4
  <2> QED BY <1>2, <2>1, RunsNorm, "a0" \in NormNames DEF NormNames
<1>5. Runs(m, B, P2, {})
  <2>1. /\ "qkv" \in Projections /\ LinearOf("qkv") = 2 /\ Width(m, "a0") = ColsOfLinear(m, 2)
    BY NarrowWidth DEF Projections, LinearOf, Narrow, ColsOfLinear
  <2>2. Shaped(m, B, b, "a0", 0)
    BY AttnInput
  <2>3. \A p : AccRow(m, B, b, "qkv", p) = Dense(B, b, 2, RowAt(m, B, b, "a0", 0, p))
    <3>1. \A p : AccRow(m, B, b, "qkv", p) = Dense(B, b, 2, NormRow(m, B, M1Row(m, B, b, p)))
      BY DEF AccRow
    <3> QED BY <3>1, RowsAre
  <2> QED BY <1>3, <2>1, <2>2, <2>3, RunsDense
<1>6. Runs(m, B, P3, {}) /\ Runs(m, B, P4, {}) /\ Runs(m, B, P5, {})
  <2>1. /\ Width(m, "q") = Inner(m) /\ Width(m, "k") = Inner(m) /\ Width(m, "v") = Inner(m)
        /\ Width(m, "qkv") = 3 * Inner(m)
    BY DEF Width
  <2>2. PICK c0, c1, c2 : c0 = 0 * Inner(m) /\ c1 = 1 * Inner(m) /\ c2 = 2 * Inner(m)
    OBVIOUS
  <2>3. Banded(m, B, b, "qkv", "q", 0, c0)
    BY <2>1, <2>2, 0 \in 0..2, RowsAre, ThirdBands
  <2>4. Banded(m, B, b, "qkv", "k", 0, c1)
    BY <2>1, <2>2, 1 \in 0..2, RowsAre, ThirdBands
  <2>5. Banded(m, B, b, "qkv", "v", 0, c2)
    BY <2>1, <2>2, 2 \in 0..2, RowsAre, ThirdBands
  <2>6. PICK width, len : width = 3 * Inner(m) /\ len = Inner(m)
    OBVIOUS
  <2>7. \A name \in {"q", "k", "v"} : name \notin NormNames
    BY DEF NormNames
  <2>8. Runs(m, B, ExtractCols(m, Buf(b, "qkv", 0), Buf(b, "q", 0), width, c0, len), {})
    BY <1>2, <1>3, <2>1, <2>3, <2>6, <2>7, RunsCols
  <2>9. Runs(m, B, ExtractCols(m, Buf(b, "qkv", 0), Buf(b, "k", 0), width, c1, len), {})
    BY <1>2, <1>3, <2>1, <2>4, <2>6, <2>7, RunsCols
  <2>10. Runs(m, B, ExtractCols(m, Buf(b, "qkv", 0), Buf(b, "v", 0), width, c2, len), {})
    BY <1>2, <1>3, <2>1, <2>5, <2>6, <2>7, RunsCols
  <2> QED BY <2>2, <2>6, <2>8, <2>9, <2>10
<1>7. Runs(m, B, P6, {})
  BY RunsAllHeads
<1>8. Runs(m, B, P7, {})
  BY RunsHeads
<1>9. Runs(m, B, P8, {})
  <2>1. /\ "a" \in Projections /\ LinearOf("a") = 3 /\ Width(m, "attn_cat") = ColsOfLinear(m, 3)
    BY DEF Projections, LinearOf, Width, ColsOfLinear
  <2>2. Shaped(m, B, b, "attn_cat", 0)
    BY HeadsJoin
  <2>3. \A p : AccRow(m, B, b, "a", p) = Dense(B, b, 3, RowAt(m, B, b, "attn_cat", 0, p))
    <3>1. \A p : AccRow(m, B, b, "a", p) = Dense(B, b, 3, HeadsRow(m, B, QkvOf(m, B, b), p))
      BY DEF AccRow
    <3> QED BY <3>1, RowsAre
  <2> QED BY <1>3, <2>1, <2>2, <2>3, RunsDense
<1> HIDE DEF at, qp, P1, P2, P3, P4, P5, P6, P7, P8
<1>10. Runs(m, B, P1 \o P2, {})
  BY <1>4, <1>5, RunsThen
<1>11. Runs(m, B, P1 \o P2 \o P3, {})
  BY <1>6, <1>10, RunsThen
<1>12. Runs(m, B, P1 \o P2 \o P3 \o P4, {})
  BY <1>6, <1>11, RunsThen
<1>13. Runs(m, B, P1 \o P2 \o P3 \o P4 \o P5, {})
  BY <1>6, <1>12, RunsThen
<1>14. Runs(m, B, P1 \o P2 \o P3 \o P4 \o P5 \o P6, {})
  BY <1>7, <1>13, RunsThen
<1>15. Runs(m, B, P1 \o P2 \o P3 \o P4 \o P5 \o P6 \o P7, {})
  BY <1>8, <1>14, RunsThen
<1>16. Runs(m, B, P1 \o P2 \o P3 \o P4 \o P5 \o P6 \o P7 \o P8, {})
  BY <1>9, <1>15, RunsThen
<1> QED BY <1>1, <1>16 DEF at, qp

\* The feed-forward sublayer.
LEMMA RunsFfn ==
    ASSUME NEW m, NEW B, NEW b, InBlock(m, B, b)
    PROVE  Runs(m, B, Ffn(m, b, Buf(b, "m2", 0), Derived(m)), {})
<1> DEFINE at(name) == Buf(b, name, 0)
           qp == Derived(m)
           P1 == LnPerPos(m, at("m2"), at("f0"), qp)
           P2 == Project(m, b, 4, at("f0"), at("h1"), qp)
           P3 == << Activate(TableGelu, at("h1"), at("g")) >>
           P4 == Project(m, b, 5, at("g"), at("f"), qp)
<1>1. Ffn(m, b, at("m2"), qp) = P1 \o P2 \o P3 \o P4
  BY DEF Ffn
<1>2. m \in Models
  BY DEF InBlock
<1>3. \A name \in {"m2", "f0", "h1", "g", "f"} : Ordinary(name) /\ name # "sum1"
  BY DEF Ordinary
<1>4. Runs(m, B, P1, {})
  <2>1. ASSUME NEW p \in 1..m.dims.s
        PROVE  CutRow(m, B, b, "f0", 0, p) = RowOf(ValAt(m, B, at("m2")), p, m.dims.d)
    <3>1. CutRow(m, B, b, "f0", 0, p) = RowAt(m, B, b, "m2", 0, p)
      BY CutsAre, RowsAre
    <3>2. Shaped(m, B, b, "m2", 0) /\ Width(m, "m2") = m.dims.d
      BY FfnInput, NarrowWidth DEF Narrow
    <3>3. RowOf(Whole(m, B, b, "m2", 0), p, m.dims.d) = RowAt(m, B, b, "m2", 0, p)
      BY <1>2, <3>2, WholeHolds DEF Whole
    <3>4. ValAt(m, B, at("m2")) = Whole(m, B, b, "m2", 0)
      BY <1>3, WholeIs
    <3> QED BY <3>1, <3>3, <3>4
  <2> QED BY <1>2, <2>1, RunsNorm, "f0" \in NormNames DEF NormNames
<1>5. Runs(m, B, P2, {})
  <2>1. /\ "h1" \in Projections /\ LinearOf("h1") = 4 /\ Width(m, "f0") = ColsOfLinear(m, 4)
    BY NarrowWidth DEF Projections, LinearOf, Narrow, ColsOfLinear
  <2>2. Shaped(m, B, b, "f0", 0)
    BY FfnInput
  <2>3. \A p : AccRow(m, B, b, "h1", p) = Dense(B, b, 4, RowAt(m, B, b, "f0", 0, p))
    <3>1. \A p : AccRow(m, B, b, "h1", p) = Dense(B, b, 4, NormRow(m, B, M2Row(m, B, b, p)))
      BY DEF AccRow
    <3> QED BY <3>1, RowsAre
  <2> QED BY <1>3, <2>1, <2>2, <2>3, RunsDense
<1>6. Runs(m, B, P3, {Activate(TableGelu, at("h1"), at("g"))})
  <2>1. PICK in, out : in = at("h1") /\ out = at("g")
    OBVIOUS
  <2>2. ValAt(m, B, in) = Whole(m, B, b, "h1", 0) /\ ValAt(m, B, out) = Whole(m, B, b, "g", 0)
    BY <1>3, <2>1, WholeIs
  <2>3. Whole(m, B, b, "g", 0) = Through(B, TableGelu, Whole(m, B, b, "h1", 0))
    BY FfnOutput
  <2>4. Enforces(m, out)
    BY <1>3, <2>1, PlainBufs
  <2>5. Computes(m, B, Activate(TableGelu, in, out))
    BY <2>2, <2>3, <2>4, ActivateComputes
  <2> QED BY <2>1, <2>5, RunsOne
<1>7. Runs(m, B, P4, {})
  <2>1. /\ "f" \in Projections /\ LinearOf("f") = 5 /\ Width(m, "g") = ColsOfLinear(m, 5)
    BY DEF Projections, LinearOf, Width, ColsOfLinear
  <2>2. Shaped(m, B, b, "g", 0)
    BY FfnOutput
  <2>3. \A p : AccRow(m, B, b, "f", p) = Dense(B, b, 5, RowAt(m, B, b, "g", 0, p))
    <3>1. \A p : AccRow(m, B, b, "f", p)
                 = Dense(B, b, 5, Through(B, TableGelu, HiddenRow(m, B, MidOf(m, B, b), b, Ada(m, B, b), p)))
      BY DEF AccRow
    <3>2. \A p : RowAt(m, B, b, "g", 0, p) = Through(B, TableGelu, Requanted(m, B, b, "h1", p))
      BY RowsAre
    <3> QED BY <3>1, <3>2, HiddenIs
  <2> QED BY <1>3, <2>1, <2>2, <2>3, RunsDense
<1> HIDE DEF at, qp, P1, P2, P3, P4
<1>8. Runs(m, B, P1 \o P2, {})
  BY <1>4, <1>5, RunsThen
<1>9. Runs(m, B, P1 \o P2 \o P3, {})
  BY <1>6, <1>8, RunsThen
<1>10. Runs(m, B, P1 \o P2 \o P3 \o P4, {})
  BY <1>7, <1>9, RunsThen
<1> QED BY <1>1, <1>10 DEF at, qp

\* A residual whose gate and sum compute.
LEMMA RunsResidual ==
    ASSUME NEW m, NEW B, NEW x, NEW gate, NEW sub, NEW gated, NEW sum, NEW out, NEW bits,
           Computes(m, B, Gate(gate, sub, gated, bits)), Computes(m, B, Add(x, gated, sum)),
           Computes(m, B, Requant(sum, out, 0))
    PROVE  Runs(m, B, Residual(x, gate, sub, gated, sum, out, bits), {Add(x, gated, sum)})
<1>1. PICK g, a, r : g = Gate(gate, sub, gated, bits) /\ a = Add(x, gated, sum) /\ r = Requant(sum, out, 0)
  OBVIOUS
<1>2. Residual(x, gate, sub, gated, sum, out, bits) = << g, a, r >>
  BY <1>1 DEF Residual
<1>3. Runs(m, B, << g, a, r >>, {g, a, r})
  BY <1>1, RunsThree
<1>4. Runs(m, B, << g, a, r >>, {a})
  BY <1>3, RunsMore
<1> QED BY <1>1, <1>2, <1>4

\* The parts of the modulation.
LEMMA RunsChunks ==
    ASSUME NEW m, NEW B, NEW b, InBlock(m, B, b)
    PROVE  LET is(j, name) == Runs(m, B, ExtractCols(m, Buf(b, "adaln", 0), Buf(b, name, 0),
                                                     6 * m.dims.d, j * m.dims.d, m.dims.d), {})
           IN  /\ is(0, "shift_msa") /\ is(1, "scale_msa") /\ is(2, "gate_msa")
               /\ is(3, "shift_mlp") /\ is(4, "scale_mlp") /\ is(5, "gate_mlp")
<1> DEFINE is(j, name) == Runs(m, B, ExtractCols(m, Buf(b, "adaln", 0), Buf(b, name, 0),
                                                 6 * m.dims.d, j * m.dims.d, m.dims.d), {})
<1>1. m \in Models
  BY DEF InBlock
<1>2. ASSUME NEW j, NEW name \in {"shift_msa", "scale_msa", "gate_msa", "shift_mlp", "scale_mlp", "gate_mlp"},
             Banded(m, B, b, "adaln", name, 0, j * m.dims.d)
      PROVE  is(j, name)
  <2>1. PICK width, col, len : width = 6 * m.dims.d /\ col = j * m.dims.d /\ len = m.dims.d
    OBVIOUS
  <2>2. /\ Width(m, "adaln") = width /\ Width(m, name) = len
        /\ Ordinary("adaln") /\ Ordinary(name) /\ name # "sum1" /\ name \notin NormNames
    BY <2>1, NarrowWidth DEF Narrow, Width, Ordinary, NormNames
  <2>3. Banded(m, B, b, "adaln", name, 0, col)
    BY <1>2, <2>1
  <2>4. Runs(m, B, ExtractCols(m, Buf(b, "adaln", 0), Buf(b, name, 0), width, col, len), {})
    BY <1>1, <2>2, <2>3, RunsCols
  <2> QED BY <2>1, <2>4
<1>3. /\ Banded(m, B, b, "adaln", "shift_msa", 0, 0 * m.dims.d)
      /\ Banded(m, B, b, "adaln", "scale_msa", 0, 1 * m.dims.d)
      /\ Banded(m, B, b, "adaln", "gate_msa", 0, 2 * m.dims.d)
      /\ Banded(m, B, b, "adaln", "shift_mlp", 0, 3 * m.dims.d)
      /\ Banded(m, B, b, "adaln", "scale_mlp", 0, 4 * m.dims.d)
      /\ Banded(m, B, b, "adaln", "gate_mlp", 0, 5 * m.dims.d)
  BY ChunkFlows
<1> HIDE DEF is
<1>4. /\ is(0, "shift_msa") /\ is(1, "scale_msa") /\ is(2, "gate_msa")
      /\ is(3, "shift_mlp") /\ is(4, "scale_mlp") /\ is(5, "gate_mlp")
  BY <1>2, <1>3
<1> QED BY <1>4 DEF is

\* The conditioning through its table, and its linear.
LEMMA RunsAda ==
    ASSUME NEW m, NEW B, NEW b, InBlock(m, B, b)
    PROVE  LET silu == Buf(b, "silu_c", 0)
               ada == Buf(b, "adaln", 0)
           IN  /\ Runs(m, B, << Activate(TableSilu, BufC, silu) >>, {})
               /\ Runs(m, B, Project(m, b, 1, silu, ada, Derived(m)), {Batched(m, b, 1, silu, Part(ada, "acc", 0))})
<1>1. m \in Models
  BY DEF InBlock
<1>2. PICK silu, ada, acc, v, s, d : /\ silu = Buf(b, "silu_c", 0) /\ ada = Buf(b, "adaln", 0)
                                     /\ acc = Part(ada, "acc", 0) /\ v = Through(B, TableSilu, m.c)
                                     /\ s = m.dims.s /\ d = m.dims.d
  OBVIOUS
<1>3. ValAt(m, B, silu) = v /\ ValAt(m, B, BufC) = m.c
  <2>1. ValAt(m, B, silu) = WholeVal(m, B, b, "silu_c", 0) /\ ValAt(m, B, BufC) = WholeVal(m, B, 0, "c", 0)
    BY <1>2, ValsAre DEF BufC
  <2>2. WholeVal(m, B, b, "silu_c", 0) = v /\ WholeVal(m, B, 0, "c", 0) = m.c
    BY <1>2 DEF WholeVal
  <2> QED BY <2>1, <2>2
<1>4. Runs(m, B, << Activate(TableSilu, BufC, silu) >>, {})
  <2>1. Enforces(m, silu)
    BY <1>2, PlainBufs
  <2>2. Computes(m, B, Activate(TableSilu, BufC, silu))
    BY <1>2, <1>3, <2>1, ActivateComputes
  <2>3. Runs(m, B, << Activate(TableSilu, BufC, silu) >>, {Activate(TableSilu, BufC, silu)})
    BY <2>2, RunsOne
  <2> QED BY <2>3, RunsMore
<1>5. "adaln" \in Projections /\ LinearOf("adaln") = 1 /\ ColsOfLinear(m, 1) = d
  BY <1>2 DEF Projections, LinearOf, ColsOfLinear
<1>6. ASSUME Len(v) = s * d
      PROVE  /\ \A p \in 1..s : AccRow(m, B, b, "adaln", p) = Dense(B, b, 1, RowOf(v, p, d))
             /\ Enforces(m, acc)
  <2>1. Len(m.c) = m.dims.s * m.dims.d /\ \A p \in 1..s : RowOf(v, p, d) = Through(B, TableSilu, RowOf(m.c, p, d))
    BY <1>1, <1>2, <1>6, SiluRows
  <2>2. \A p : AccRow(m, B, b, "adaln", p) = Dense(B, b, 1, Through(B, TableSilu, RowOf(m.c, p, d)))
    BY <1>2 DEF AccRow
  <2>3. Enforces(m, acc)
    <3>1. acc # Buf(1, "sum1", 0)
      BY <1>2 DEF Buf, Part
    <3> QED BY <2>1, <3>1 DEF Enforces
  <2> QED BY <2>1, <2>2, <2>3
<1>7. Runs(m, B, Project(m, b, 1, silu, ada, Derived(m)), {Batched(m, b, 1, silu, acc)})
  BY <1>2, <1>3, <1>5, <1>6, RunsProject
<1> QED BY <1>2, <1>4, <1>7

\* The norm of the stream before a block, and of the stream between its sublayers.
LEMMA RunsNorms ==
    ASSUME NEW m, NEW B, NEW b, InBlock(m, B, b)
    PROVE  /\ Runs(m, B, LnPerPos(m, Stream(b - 1), Buf(b, "n1", 0), Derived(m)), {})
           /\ Runs(m, B, LnPerPos(m, Buf(b, "x1", 0), Buf(b, "n2", 0), Derived(m)), {})
<1>1. m \in Models
  BY DEF InBlock
<1>2. PICK x, x1, a : x = Stream(b - 1) /\ x1 = Buf(b, "x1", 0) /\ a = b - 1
  OBVIOUS
<1>3. ValAt(m, B, x) = Streams(m, B)[a]
  <2>1. ValAt(m, B, x) = WholeVal(m, B, a, "x", 0)
    BY <1>2, ValsAre DEF Stream
  <2> QED BY <2>1 DEF WholeVal
<1>4. ValAt(m, B, x1) = MidOf(m, B, b)
  <2>1. Ordinary("x1")
    BY DEF Ordinary
  <2> QED BY <1>2, <2>1, WholeIs, MatricesAre DEF Whole
<1>5. \A p : CutRow(m, B, b, "n1", 0, p) = RowOf(ValAt(m, B, x), p, m.dims.d)
  BY <1>2, <1>3, CutsAre DEF InRow
<1>6. \A p : CutRow(m, B, b, "n2", 0, p) = RowOf(ValAt(m, B, x1), p, m.dims.d)
  BY <1>4, CutsAre DEF MidRow
<1>7. "n1" \in NormNames /\ "n2" \in NormNames
  BY DEF NormNames
<1> QED BY <1>1, <1>2, <1>5, <1>6, <1>7, RunsNorm

\* The two modulations.
LEMMA RunsModulate ==
    ASSUME NEW m, NEW B, NEW b, InBlock(m, B, b)
    PROVE  LET at(name) == Buf(b, name, 0)
           IN  /\ Runs(m, B, << Modulate(at("n1"), at("scale_msa"), at("shift_msa"), at("m1"), Derived(m)) >>, {})
               /\ Runs(m, B, << Modulate(at("n2"), at("scale_mlp"), at("shift_mlp"), at("m2"), Derived(m)) >>, {})
<1>1. PICK qp, one, bits : qp = Derived(m) /\ one = 2^m.scheme.f_ln /\ bits = m.scheme.f_ln
  OBVIOUS
<1>2. qp.mod_one = one /\ qp.mod_bits = bits
  BY <1>1, DerivedFacts DEF InBlock
<1>3. \A name \in {"n1", "scale_msa", "shift_msa", "m1", "n2", "scale_mlp", "shift_mlp", "m2"} :
          ValAt(m, B, Buf(b, name, 0)) = Whole(m, B, b, name, 0) /\ Enforces(m, Buf(b, name, 0))
  <2> TAKE name \in {"n1", "scale_msa", "shift_msa", "m1", "n2", "scale_mlp", "shift_mlp", "m2"}
  <2>1. Ordinary(name) /\ name # "sum1"
    BY DEF Ordinary
  <2> QED BY <2>1, WholeIs, PlainBufs
<1>4. ModBy(m) = [one |-> one, shift |-> bits, lo |-> -Half, hi |-> Half - 1, rounding |-> Nearest]
  BY <1>1 DEF ModBy
<1>5. ASSUME NEW x, NEW scale, NEW shift, NEW out,
             ValAt(m, B, out) = ModulateVec(ModBy(m), ValAt(m, B, x), ValAt(m, B, scale), ValAt(m, B, shift)),
             Enforces(m, out)
      PROVE  Runs(m, B, << Modulate(x, scale, shift, out, qp) >>, {})
  <2>1. Computes(m, B, Modulate(x, scale, shift, out, qp))
    BY <1>2, <1>4, <1>5, ModulateComputes
  <2>2. PICK op : op = Modulate(x, scale, shift, out, qp)
    OBVIOUS
  <2>3. Runs(m, B, << op >>, {op})
    BY <2>1, <2>2, RunsOne
  <2> QED BY <2>2, <2>3, RunsMore
<1>6. ValAt(m, B, Buf(b, "m1", 0)) = ModulateVec(ModBy(m), ValAt(m, B, Buf(b, "n1", 0)),
                                                 ValAt(m, B, Buf(b, "scale_msa", 0)), ValAt(m, B, Buf(b, "shift_msa", 0)))
  BY <1>3, AttnInput
<1>7. ValAt(m, B, Buf(b, "m2", 0)) = ModulateVec(ModBy(m), ValAt(m, B, Buf(b, "n2", 0)),
                                                 ValAt(m, B, Buf(b, "scale_mlp", 0)), ValAt(m, B, Buf(b, "shift_mlp", 0)))
  BY <1>3, FfnInput
<1>8. Enforces(m, Buf(b, "m1", 0)) /\ Enforces(m, Buf(b, "m2", 0))
  BY <1>3
<1> QED BY <1>1, <1>5, <1>6, <1>7, <1>8

\* The residual around the attention, over a stream of its length.
LEMMA RunsFirst ==
    ASSUME NEW m, NEW B, NEW b, InBlock(m, B, b)
    PROVE  LET at(name) == Buf(b, name, 0)
           IN  Runs(m, B, Residual(Stream(b - 1), at("gate_msa"), at("a"), at("g1"), at("sum1"), at("x1"),
                                   Derived(m).gate_msa_bits), {Add(Stream(b - 1), at("g1"), at("sum1"))})
<1>1. PICK x, gate, a, g1, sum1, x1, bits, c :
          /\ x = Stream(b - 1) /\ gate = Buf(b, "gate_msa", 0) /\ a = Buf(b, "a", 0) /\ g1 = Buf(b, "g1", 0)
          /\ sum1 = Buf(b, "sum1", 0) /\ x1 = Buf(b, "x1", 0) /\ bits = Derived(m).gate_msa_bits /\ c = b - 1
  OBVIOUS
<1>2. ValAt(m, B, x) = Streams(m, B)[c]
  <2>1. ValAt(m, B, x) = WholeVal(m, B, c, "x", 0)
    BY <1>1, ValsAre DEF Stream
  <2> QED BY <2>1 DEF WholeVal
<1>3. \A name \in {"gate_msa", "a", "g1", "sum1", "x1"} : ValAt(m, B, Buf(b, name, 0)) = Whole(m, B, b, name, 0)
  <2>1. \A name \in {"gate_msa", "a", "g1", "sum1", "x1"} : Ordinary(name)
    BY DEF Ordinary
  <2> QED BY <2>1, WholeIs
<1>4. /\ ValAt(m, B, g1) = GateVec(To8(bits), ValAt(m, B, gate), ValAt(m, B, a))
      /\ ValAt(m, B, x1) = Scaled(ValAt(m, B, sum1), 0)
  BY <1>1, <1>3, AttnOutput
<1>5. Enforces(m, g1) /\ Enforces(m, x1)
  BY <1>1, PlainBufs
<1>6. ASSUME Len(ValAt(m, B, x)) = Len(ValAt(m, B, g1))
      PROVE  ValAt(m, B, sum1) = ResidualAdd(ValAt(m, B, x), ValAt(m, B, g1)) /\ Enforces(m, sum1)
  <2>1. Len(Streams(m, B)[b - 1]) = Len(Whole(m, B, b, "g1", 0))
    BY <1>1, <1>2, <1>3, <1>6
  <2>2. /\ Whole(m, B, b, "sum1", 0) = ResidualAdd(Streams(m, B)[b - 1], Whole(m, B, b, "g1", 0))
        /\ b = 1 => Len(m.x) = m.dims.s * m.dims.d
    BY <2>1, FirstSum
  <2>3. /\ sum1 = Buf(1, "sum1", 0) => b = 1
        /\ sum1 # Part(Buf(1, "adaln", 0), "acc", 0)
    BY <1>1 DEF Buf, Part
  <2> QED BY <1>1, <1>2, <1>3, <2>2, <2>3 DEF Enforces
<1>7. /\ Computes(m, B, Gate(gate, a, g1, bits)) /\ Computes(m, B, Add(x, g1, sum1))
      /\ Computes(m, B, Requant(sum1, x1, 0))
  BY <1>4, <1>5, <1>6, GateComputes, AddComputes, RequantComputes
<1>8. Runs(m, B, Residual(x, gate, a, g1, sum1, x1, bits), {Add(x, g1, sum1)})
  BY <1>7, RunsResidual
<1> QED BY <1>1, <1>8

\* The residual around the feed-forward sublayer.
LEMMA RunsSecond ==
    ASSUME NEW m, NEW B, NEW b, InBlock(m, B, b)
    PROVE  LET at(name) == Buf(b, name, 0)
           IN  Runs(m, B, Residual(at("x1"), at("gate_mlp"), at("f"), at("g2"), at("sum2"), at("x"),
                                   Derived(m).gate_mlp_bits), {})
<1>1. PICK x1, gate, f, g2, sum2, x, bits :
          /\ x1 = Buf(b, "x1", 0) /\ gate = Buf(b, "gate_mlp", 0) /\ f = Buf(b, "f", 0) /\ g2 = Buf(b, "g2", 0)
          /\ sum2 = Buf(b, "sum2", 0) /\ x = Buf(b, "x", 0) /\ bits = Derived(m).gate_mlp_bits
  OBVIOUS
<1>2. ValAt(m, B, x) = Whole(m, B, b, "x", 0)
  <2>1. ValAt(m, B, x) = WholeVal(m, B, b, "x", 0)
    BY <1>1, ValsAre
  <2>2. Streams(m, B)[b] = Whole(m, B, b, "x", 0)
    BY BuiltDepth, StreamIs DEF InBlock, Whole
  <2> QED BY <2>1, <2>2 DEF WholeVal
<1>3. \A name \in {"x1", "gate_mlp", "f", "g2", "sum2"} : ValAt(m, B, Buf(b, name, 0)) = Whole(m, B, b, name, 0)
  <2>1. \A name \in {"x1", "gate_mlp", "f", "g2", "sum2"} : Ordinary(name)
    BY DEF Ordinary
  <2> QED BY <2>1, WholeIs
<1>4. /\ ValAt(m, B, g2) = GateVec(To8(bits), ValAt(m, B, gate), ValAt(m, B, f))
      /\ ValAt(m, B, sum2) = ResidualAdd(ValAt(m, B, x1), ValAt(m, B, g2))
      /\ ValAt(m, B, x) = Scaled(ValAt(m, B, sum2), 0)
  BY <1>1, <1>2, <1>3, FfnOutput
<1>5. Enforces(m, g2) /\ Enforces(m, x) /\ Enforces(m, sum2)
  BY <1>1, PlainBufs
<1>6. /\ Computes(m, B, Gate(gate, f, g2, bits)) /\ Computes(m, B, Add(x1, g2, sum2))
      /\ Computes(m, B, Requant(sum2, x, 0))
  BY <1>4, <1>5, GateComputes, AddComputes, RequantComputes
<1>7. Runs(m, B, Residual(x1, gate, f, g2, sum2, x, bits), {Add(x1, g2, sum2)})
  BY <1>6, RunsResidual
<1>8. Runs(m, B, Residual(x1, gate, f, g2, sum2, x, bits), {})
  BY <1>7, RunsMore
<1> QED BY <1>1, <1>8

\* The two ops of a block that read all of an input, and a block.
AdaOp(m, b) == Batched(m, b, 1, Buf(b, "silu_c", 0), Part(Buf(b, "adaln", 0), "acc", 0))
SumOp(b) == Add(Stream(b - 1), Buf(b, "g1", 0), Buf(b, "sum1", 0))

LEMMA RunsBlock ==
    ASSUME NEW m, NEW B, NEW b, InBlock(m, B, b)
    PROVE  Runs(m, B, ConditionalBlock(m, b, Stream(b - 1), Derived(m)), {AdaOp(m, b), SumOp(b)})
<1> DEFINE at(name) == Buf(b, name, 0)
           x == Stream(b - 1)
           qp == Derived(m)
           d == m.dims.d
           chunk(j, name) == ExtractCols(m, at("adaln"), at(name), 6 * d, j * d, d)
           P1 == << Activate(TableSilu, BufC, at("silu_c")) >>
           P2 == Project(m, b, 1, at("silu_c"), at("adaln"), qp)
           P3 == chunk(0, "shift_msa")
           P4 == chunk(1, "scale_msa")
           P5 == chunk(2, "gate_msa")
           P6 == chunk(3, "shift_mlp")
           P7 == chunk(4, "scale_mlp")
           P8 == chunk(5, "gate_mlp")
           P9 == LnPerPos(m, x, at("n1"), qp)
           P10 == << Modulate(at("n1"), at("scale_msa"), at("shift_msa"), at("m1"), qp) >>
           P11 == Attn(m, b, at("m1"), qp)
           P12 == Residual(x, at("gate_msa"), at("a"), at("g1"), at("sum1"), at("x1"), qp.gate_msa_bits)
           P13 == LnPerPos(m, at("x1"), at("n2"), qp)
           P14 == << Modulate(at("n2"), at("scale_mlp"), at("shift_mlp"), at("m2"), qp) >>
           P15 == Ffn(m, b, at("m2"), qp)
           P16 == Residual(at("x1"), at("gate_mlp"), at("f"), at("g2"), at("sum2"), at("x"), qp.gate_mlp_bits)
           T2 == P1 \o P2
           T3 == T2 \o P3
           T4 == T3 \o P4
           T5 == T4 \o P5
           T6 == T5 \o P6
           T7 == T6 \o P7
           T8 == T7 \o P8
           T9 == T8 \o P9
           T10 == T9 \o P10
           T11 == T10 \o P11
           T12 == T11 \o P12
           T13 == T12 \o P13
           T14 == T13 \o P14
           T15 == T14 \o P15
           T16 == T15 \o P16
           A == {AdaOp(m, b)}
           S == {AdaOp(m, b), SumOp(b)}
<1>1. ConditionalBlock(m, b, x, qp) = T16
  BY DEF ConditionalBlock
<1>2. Runs(m, B, P1, {}) /\ Runs(m, B, P2, A)
  BY RunsAda DEF AdaOp
<1>3. /\ Runs(m, B, P3, {}) /\ Runs(m, B, P4, {}) /\ Runs(m, B, P5, {})
      /\ Runs(m, B, P6, {}) /\ Runs(m, B, P7, {}) /\ Runs(m, B, P8, {})
  BY RunsChunks
<1>4. Runs(m, B, P9, {}) /\ Runs(m, B, P13, {})
  BY RunsNorms
<1>5. Runs(m, B, P10, {}) /\ Runs(m, B, P14, {})
  BY RunsModulate
<1>6. Runs(m, B, P11, {}) /\ Runs(m, B, P15, {})
  BY RunsAttn, RunsFfn
<1>7. Runs(m, B, P12, {SumOp(b)})
  BY RunsFirst DEF SumOp
<1>8. Runs(m, B, P16, {})
  BY RunsSecond
<1>9. S \subseteq A \union {SumOp(b)}
  OBVIOUS
<1> HIDE DEF at, x, qp, chunk, P1, P2, P3, P4, P5, P6, P7, P8, P9, P10, P11, P12, P13, P14, P15, P16,
         T2, T3, T4, T5, T6, T7, T8, T9, T10, T11, T12, T13, T14, T15, T16, A, S
<1>10. Runs(m, B, T2, A)
  BY <1>2, RunsThen DEF T2
<1>11. Runs(m, B, T3, A)
  BY <1>3, <1>10, RunsThen DEF T3
<1>12. Runs(m, B, T4, A)
  BY <1>3, <1>11, RunsThen DEF T4
<1>13. Runs(m, B, T5, A)
  BY <1>3, <1>12, RunsThen DEF T5
<1>14. Runs(m, B, T6, A)
  BY <1>3, <1>13, RunsThen DEF T6
<1>15. Runs(m, B, T7, A)
  BY <1>3, <1>14, RunsThen DEF T7
<1>16. Runs(m, B, T8, A)
  BY <1>3, <1>15, RunsThen DEF T8
<1>17. Runs(m, B, T9, A)
  BY <1>4, <1>16, RunsThen DEF T9
<1>18. Runs(m, B, T10, A)
  BY <1>5, <1>17, RunsThen DEF T10
<1>19. Runs(m, B, T11, A)
  BY <1>6, <1>18, RunsThen DEF T11
<1>20. Runs(m, B, T12, S)
  BY <1>7, <1>9, <1>19, RunsThen DEF T12
<1>21. Runs(m, B, T13, S)
  BY <1>4, <1>20, RunsThen DEF T13
<1>22. Runs(m, B, T14, S)
  BY <1>5, <1>21, RunsThen DEF T14
<1>23. Runs(m, B, T15, S)
  BY <1>6, <1>22, RunsThen DEF T15
<1>24. Runs(m, B, T16, S)
  BY <1>8, <1>23, RunsThen DEF T16
<1> QED BY <1>1, <1>24 DEF x, qp, S

\* The program: every op computes the value of its buffer, and the first block reads
\* both inputs to their end.
LEMMA RunsProgram ==
    ASSUME NEW m \in Models, Built(m), NEW B, B = Binds(m)
    PROVE  Runs(m, B, Program(m), IF Depth(m) > 0 THEN {AdaOp(m, 1), SumOp(1)} ELSE {})
<1> DEFINE n == Depth(m)
           qp == Derived(m)
           block(b) == ConditionalBlock(m, b, Stream(b - 1), qp)
           seqs == [b \in DOMAIN m.blocks |-> block(b)]
           last == LnPerPos(m, Stream(n), OutputBuf, qp)
           S == [b \in 1..n |-> {AdaOp(m, b), SumOp(b)}]
           U == IF n > 0 THEN {AdaOp(m, 1), SumOp(1)} ELSE {}
<1>1. n \in Nat /\ DOMAIN m.blocks = 1..n
  BY BuiltDepth
<1>2. Program(m) = FlattenSeq(seqs) \o last
  BY DEF Program, Depth
<1>3. IsList(seqs) /\ DOMAIN seqs = 1..n /\ \A b \in 1..n : seqs[b] = block(b)
  <2>1. DOMAIN seqs = 1..n /\ \A b \in 1..n : seqs[b] = block(b)
    BY <1>1
  <2>2. seqs = [b \in 1..n |-> seqs[b]]
    BY <1>1
  <2> HIDE DEF seqs, block
  <2> QED BY <1>1, <2>1, <2>2, MakeList
<1>4. PICK q, T : q = seqs /\ T = S
  OBVIOUS
<1>5. \A b \in 1..n : T[b] = {AdaOp(m, b), SumOp(b)}
  BY <1>4
<1>6. \A b \in 1..n : Runs(m, B, block(b), {AdaOp(m, b), SumOp(b)})
  BY RunsBlock DEF InBlock
<1> HIDE DEF seqs, block, S
<1>7. IsList(q) /\ DOMAIN q = 1..n
  BY <1>3, <1>4
<1>8. \A b \in DOMAIN q : Runs(m, B, q[b], T[b])
  BY <1>3, <1>4, <1>5, <1>6, <1>7
<1> HIDE DEF U, last
<1>9. Runs(m, B, FlattenSeq(q), UNION { T[b] : b \in DOMAIN q })
  <2> HIDE DEF n, qp
  <2>1. IsList(q)
    BY <1>7
  <2> QED BY <2>1, <1>8, RunsFlat
<1>10. U \subseteq UNION { T[b] : b \in DOMAIN q }
  <2> USE DEF U
  <2>1. CASE n > 0
    <3>1. 1 \in DOMAIN q /\ T[1] = {AdaOp(m, 1), SumOp(1)}
      BY <1>1, <1>5, <1>7, <2>1
    <3> QED BY <2>1, <3>1
  <2>2. CASE ~(n > 0)
    BY <2>2
  <2> QED BY <2>1, <2>2
<1>11. Runs(m, B, last, {})
  <2>1. PICK x : x = Stream(n)
    OBVIOUS
  <2>2. ValAt(m, B, x) = Streams(m, B)[Depth(m)]
    <3>1. ValAt(m, B, x) = WholeVal(m, B, n, "x", 0)
      BY <2>1, ValsAre DEF Stream
    <3> QED BY <3>1 DEF WholeVal
  <2>3. \A p : CutRow(m, B, 0, "z", 0, p) = RowOf(ValAt(m, B, x), p, m.dims.d)
    BY <2>2, CutsAre
  <2>4. Runs(m, B, LnPerPos(m, x, Buf(0, "z", 0), Derived(m)), {})
    BY <2>3, RunsNorm, "z" \in NormNames DEF NormNames
  <2> QED BY <2>1, <2>4 DEF OutputBuf, last
<1> HIDE DEF n
<1>12. Runs(m, B, FlattenSeq(q) \o last, U)
  BY <1>9, <1>10, <1>11, RunsThen
<1> QED BY <1>2, <1>4, <1>12 DEF U, n

(****************************** the values *********************************)
\* Once built, every buffer holds the value of the forward pass it is named for.
FlowInv ==
    phase \in {"run", "done", "failed"} =>
        /\ binds = Binds(model) /\ DOMAIN bufs = DOMAIN fracs
        /\ \A buf \in DOMAIN bufs : bufs[buf] = ValAt(model, binds, buf) /\ Enforces(model, buf)
        /\ phase = "done" => pc > Len(ops)

\* What an op computes is what its buffer is named for.
LEMMA OpComputes ==
    ASSUME ScaleInv, FlowInv, phase = "run", pc <= Len(ops), Kernel(ops[pc], bufs, binds).err = "ok"
    PROVE  /\ Kernel(ops[pc], bufs, binds).out = ValAt(model, binds, ops[pc].out_buf)
           /\ Enforces(model, ops[pc].out_buf)
<1>1. /\ model \in Models /\ Built(model) /\ ops = Program(model)
      /\ binds = Binds(model) /\ DOMAIN bufs = DOMAIN fracs
      /\ \A buf \in DOMAIN bufs : bufs[buf] = ValAt(model, binds, buf)
  BY DEF ScaleInv, FlowInv
<1>2. PICK op : op = ops[pc]
  OBVIOUS
<1>3. Range(op.args) \subseteq DOMAIN bufs /\ pc \in 1..Len(ops) /\ Len(ops) \in Nat
  BY <1>1, <1>2, OpMeets
<1>4. Fed(model, binds, op, bufs)
  BY <1>1, <1>3 DEF Fed
<1>5. Computes(model, binds, op)
  <2>1. IsList(ops) /\ \A o \in Range(ops) : Computes(model, binds, o)
    BY <1>1, RunsProgram DEF Runs
  <2>2. op \in Range(ops)
    BY <1>2, <1>3, <2>1, ListFacts DEF Range
  <2> QED BY <2>1, <2>2
<1> QED BY <1>2, <1>4, <1>5 DEF Computes

LEMMA FlowInit == Init => FlowInv
  BY DEF Init, FlowInv

\* The buffers the run is given.
LEMMA SeededInputs ==
    ASSUME NEW x, NEW c
    PROVE  LET f == Seed(<< [id |-> Stream(0), vals |-> x], [id |-> BufC, vals |-> c] >>)
           IN  DOMAIN f = {Stream(0), BufC} /\ f[Stream(0)] = x /\ f[BufC] = c
<1>1. PICK s, e, z : /\ s = [id |-> Stream(0), vals |-> x] /\ e = [id |-> BufC, vals |-> c] /\ z = << s, e >>
  OBVIOUS
<1>2. Stream(0) # BufC
  BY DEF Stream, BufC, Buf
<1>3. DOMAIN z = {1, 2} /\ z[1] = s /\ z[2] = e
  BY <1>1, TwoList
<1>4. s.id = Stream(0) /\ s.vals = x /\ e.id = BufC /\ e.vals = c
  BY <1>1
<1>5. { z[i].id : i \in DOMAIN z } = {Stream(0), BufC}
  BY <1>3, <1>4
<1>6. { i \in DOMAIN z : z[i].id = Stream(0) } = {1} /\ { i \in DOMAIN z : z[i].id = BufC } = {2}
  BY <1>2, <1>3, <1>4
<1>7. Max({1}) = 1 /\ Max({2}) = 2
  BY DEF Max
<1>8. Seed(z) = [b \in {Stream(0), BufC} |-> z[Max({ i \in DOMAIN z : z[i].id = b })].vals]
  BY <1>5 DEF Seed
<1>9. DOMAIN Seed(z) = {Stream(0), BufC} /\ Seed(z)[Stream(0)] = x /\ Seed(z)[BufC] = c
  BY <1>3, <1>4, <1>6, <1>7, <1>8
<1> QED BY <1>1, <1>9

LEMMA InputVals ==
    ASSUME NEW m \in Models, Built(m), NEW B
    PROVE  /\ ValAt(m, B, Stream(0)) = m.x /\ ValAt(m, B, BufC) = m.c
           /\ Enforces(m, Stream(0)) /\ Enforces(m, BufC)
<1>1. ValAt(m, B, Stream(0)) = Streams(m, B)[0] /\ ValAt(m, B, BufC) = m.c
  <2>1. ValAt(m, B, Stream(0)) = WholeVal(m, B, 0, "x", 0) /\ ValAt(m, B, BufC) = WholeVal(m, B, 0, "c", 0)
    BY ValsAre DEF Stream, BufC
  <2> QED BY <2>1 DEF WholeVal
<1>2. Streams(m, B)[0] = m.x
  BY BuiltDepth, StreamsAre DEF StreamsTo
<1>3. Enforces(m, Stream(0)) /\ Enforces(m, BufC)
  BY PlainBufs DEF Stream, BufC
<1> QED BY <1>1, <1>2, <1>3

LEMMA FlowNext == ScaleInv /\ FlowInv /\ [Next]_vars => FlowInv'
<1> SUFFICES ASSUME ScaleInv, FlowInv, [Next]_vars PROVE FlowInv'
  OBVIOUS
<1>1. CASE Derive
  <2>1. phase' \in {"refused", "panicked", "build"}
    BY <1>1 DEF Derive, DeriveOutcomes
  <2> QED BY <2>1 DEF FlowInv
<1>2. CASE Build
  <2>1. CASE ~WeightsFit(model)
    <3>1. phase' = "panicked"
      BY <1>2, <2>1 DEF Build
    <3> QED BY <3>1 DEF FlowInv
  <2>2. CASE WeightsFit(model)
    <3>1. /\ phase' = "run" /\ model' = model /\ binds' = Binds(model)
          /\ bufs' = Seed(<< [id |-> Stream(0), vals |-> model.x], [id |-> BufC, vals |-> model.c] >>)
          /\ DOMAIN fracs' = {Stream(0), BufC}
      BY <1>2, <2>2 DEF Build, Binds
    <3>2. /\ DOMAIN bufs' = {Stream(0), BufC}
          /\ bufs'[Stream(0)] = model.x /\ bufs'[BufC] = model.c
      BY <3>1, SeededInputs
    <3>3. /\ ValAt(model, binds', Stream(0)) = model.x /\ ValAt(model, binds', BufC) = model.c
          /\ Enforces(model, Stream(0)) /\ Enforces(model, BufC)
      BY <1>2, InputVals DEF Build, ScaleInv
    <3> QED BY <3>1, <3>2, <3>3 DEF FlowInv
  <2> QED BY <2>1, <2>2
<1>3. CASE RunOp
  <2>1. /\ phase = "run" /\ pc <= Len(ops) /\ model' = model /\ ops' = ops /\ binds' = binds
    BY <1>3 DEF RunOp
  <2>2. CASE phase' = "failed" /\ bufs' = bufs /\ fracs' = fracs
    BY <2>1, <2>2 DEF FlowInv
  <2>3. CASE /\ phase' = phase /\ Kernel(ops[pc], bufs, binds).err = "ok"
             /\ bufs' = Insert(bufs, ops[pc].out_buf, Kernel(ops[pc], bufs, binds).out)
             /\ fracs' = Insert(fracs, ops[pc].out_buf, FracOut(model, ops[pc], fracs))
    <3>1. PICK o, v : o = ops[pc].out_buf /\ v = Kernel(ops[pc], bufs, binds).out
      OBVIOUS
    <3>2. v = ValAt(model, binds, o) /\ Enforces(model, o)
      BY <2>1, <2>3, <3>1, OpComputes
    <3>3. /\ DOMAIN bufs' = DOMAIN bufs \union {o} /\ DOMAIN fracs' = DOMAIN fracs \union {o}
          /\ \A buf \in DOMAIN bufs' : bufs'[buf] = IF buf = o THEN v ELSE bufs[buf]
      BY <2>3, <3>1 DEF Insert
    <3> QED BY <2>1, <2>3, <3>2, <3>3 DEF FlowInv
  <2> QED BY <1>3, <2>2, <2>3 DEF RunOp
<1>4. CASE Finish
  BY <1>4 DEF Finish, FlowInv
<1>5. CASE UNCHANGED vars
  BY <1>5 DEF vars, FlowInv
<1> QED BY <1>1, <1>2, <1>3, <1>4, <1>5 DEF Next

\* Whatever the dims, the scheme, the weights, the tables and the inputs, a le-wm
\* circuit that is proved and audited to its end has computed its forward pass, and
\* from a latent history and a conditioning that cover every position (lewm_predictor.rs
\* attn, extract_cols and ln_per_pos; predictor_quant.rs float_forward).
THEOREM OutputAlwaysForward == Spec => []OutputIsForward
<1>1. ScaleInv /\ FlowInv => OutputIsForward
  <2> SUFFICES ASSUME ScaleInv, FlowInv, phase = "done" PROVE OutputIsForward
    BY DEF OutputIsForward
  <2>1. /\ model \in Models /\ Built(model) /\ ops = Program(model) /\ binds = Binds(model)
        /\ DOMAIN bufs = {Stream(0), BufC} \union { ops[j].out_buf : j \in 1..(pc - 1) }
        /\ \A buf \in DOMAIN bufs : bufs[buf] = ValAt(model, binds, buf) /\ Enforces(model, buf)
        /\ pc \in 1..(Len(ops) + 1) /\ pc > Len(ops)
    BY DEF ScaleInv, FlowInv, Derivable
  <2>2. Laid(model, ops, {Stream(0), BufC}, {OutputBuf})
    BY <2>1, ProgramLaid
  <2>3. Len(ops) \in Nat /\ DOMAIN ops = 1..Len(ops)
    BY <2>2, ListFacts DEF Laid
  <2>4. 1..(pc - 1) = DOMAIN ops
    BY <2>1, <2>3
  <2>5. DOMAIN bufs = {Stream(0), BufC} \union { op.out_buf : op \in Range(ops) }
    BY <2>1, <2>4 DEF Range
  <2>6. bufs[OutputBuf] = Forward(model, binds)
    <3>1. OutputBuf \in DOMAIN bufs
      BY <2>1, <2>2, <2>4 DEF Laid, Outs
    <3>2. ValAt(model, binds, OutputBuf) = Whole(model, binds, 0, "z", 0)
      <4>1. Ordinary("z")
        BY DEF Ordinary
      <4> QED BY <4>1, WholeIs DEF OutputBuf
    <3> QED BY <2>1, <3>1, <3>2, ForwardIs DEF Whole
  <2>7. ASSUME Len(model.blocks) > 0 PROVE WellFormed(model)
    <3>1. PICK lin, add : lin = AdaOp(model, 1) /\ add = SumOp(1)
      OBVIOUS
    <3>2. lin \in Range(ops) /\ add \in Range(ops)
      BY <2>1, <2>7, <3>1, RunsProgram DEF Runs, Depth
    <3>3. lin.out_buf = Part(Buf(1, "adaln", 0), "acc", 0) /\ add.out_buf = Buf(1, "sum1", 0)
      BY <3>1 DEF AdaOp, SumOp, Batched, Add
    <3>4. Enforces(model, Part(Buf(1, "adaln", 0), "acc", 0)) /\ Enforces(model, Buf(1, "sum1", 0))
      BY <2>1, <2>5, <3>2, <3>3
    <3> QED BY <3>4 DEF Enforces, WellFormed
  <2> QED BY <2>6, <2>7 DEF OutputIsForward
<1> QED BY <1>1, ScaleInit, ScaleNext, FlowInit, FlowNext, PTL DEF Spec
=============================================================================
