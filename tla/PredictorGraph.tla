--------------------------- MODULE PredictorGraph ---------------------------
(***************************************************************************)
(* The le-wm conditional predictor as the exporter quantizes it and the    *)
(* builder lays it out (pwm-export predictor_quant.rs, pwm-testkit         *)
(* lewm_predictor.rs): derive turns the fracs of a scheme into the         *)
(* parameters of the ops, the builder writes the ops of every block over   *)
(* flat buffers, and each op is run by the prover and audited.             *)
(*                                                                         *)
(* A buffer is named for the value it holds where the builder takes the    *)
(* next number: every call of the builder writes a buffer of its own.      *)
(* Int8 is scaled to -Half..(Half - 1).  The entries of the SiLU, GELU and *)
(* exp tables are constants; their domains and the inverse-sqrt table are  *)
(* those of the code.                                                      *)
(***************************************************************************)
EXTENDS BlockOps

CONSTANTS Models,          \* [dims, scheme, blocks, x, c] records, see ModelOK
          Half,            \* 128
          IntWidth,        \* 64, the bits of an i64
          Silu(_, _),      \* an entry of the SiLU table, at a frac
          Gelu(_, _, _),   \* an entry of the GELU table, from a frac to a frac
          ExpEntry(_, _, _),
          Draws            \* challenge values that may be drawn per row

Int8 == (-Half)..(Half - 1)
Linears == <<"adaln", "qkv", "out", "fc1", "fc2">>   \* in registration order

Inner(m) == m.dims.h * m.dims.dh

\* The shape of each weight matrix.
WeightShape(m, k) ==
    CASE Linears[k] = "adaln" -> <<6 * m.dims.d, m.dims.d>>
      [] Linears[k] = "qkv"   -> <<3 * Inner(m), m.dims.d>>
      [] Linears[k] = "out"   -> <<m.dims.d, Inner(m)>>
      [] Linears[k] = "fc1"   -> <<m.dims.mlp, m.dims.d>>
      [] Linears[k] = "fc2"   -> <<m.dims.d, m.dims.mlp>>

\* dh is a power of four: derive asserts it.
HalfLog2(dh) == CHOOSE n \in 0..dh : 4^n = dh

Fracs == {"f_x", "f_c", "f_ln", "f_qkv", "f_score", "f_p", "f_att", "f_a", "f_g1", "f_g2", "f_f",
          "t_inv", "f_e"}

\* The units 2^f_p and 2^f_ln fit an i64: derive shifts by both before it checks either,
\* and a larger one would wrap in it.
ASSUME ModelsAssumption ==
    \A m \in Models :
        /\ \A size \in {"d", "s", "h", "dh", "mlp"} : m.dims[size] \in Nat \ {0}
        /\ m.dims.depth \in Nat
        /\ \E n \in 0..m.dims.dh : 4^n = m.dims.dh
        /\ m.x \in Seq(Int8) /\ m.c \in Seq(Int8)
        /\ m.blocks \in Seq([DOMAIN Linears -> Seq(Int)])
        /\ \A frac \in Fracs : m.scheme[frac] \in Int
        /\ m.scheme.f_p \in 0..(IntWidth - 2) /\ m.scheme.f_ln <= IntWidth - 2
        /\ m.scheme.w_log2 \in Seq([DOMAIN Linears -> Int])

(***************************** the derivation ******************************)
\* The shift of every site with its name, in the order derive computes them.
BlockSites(sc, b) ==
    LET fw(k) == -sc.w_log2[b][k]
    IN  << <<"adaln", sc.f_c + fw(1) - sc.f_ln>>, <<"qkv", sc.f_ln + fw(2) - sc.f_qkv>>,
           <<"out", sc.f_att + fw(3) - sc.f_a>>, <<"fc1", sc.f_ln + fw(4) - sc.f_g1>>,
           <<"fc2", sc.f_g2 + fw(5) - sc.f_f>> >>

\* Mutant: the FFN gate is rescaled as the attention gate is.
SharedSitesOneGate(sc, dh) ==
    << <<"layernorm", sc.t_inv - sc.f_ln>>, <<"score", 2 * sc.f_qkv + HalfLog2(dh) - sc.f_score>>,
       <<"prob_v", sc.f_p + sc.f_qkv - sc.f_att>>, <<"gate_msa", sc.f_ln + sc.f_a - sc.f_x>>,
       <<"gate_mlp", sc.f_ln + sc.f_a - sc.f_x>> >>

SharedSites(sc, dh) ==
    << <<"layernorm", sc.t_inv - sc.f_ln>>, <<"score", 2 * sc.f_qkv + HalfLog2(dh) - sc.f_score>>,
       <<"prob_v", sc.f_p + sc.f_qkv - sc.f_att>>, <<"gate_msa", sc.f_ln + sc.f_a - sc.f_x>>,
       <<"gate_mlp", sc.f_ln + sc.f_f - sc.f_x>> >>

Sites(m) ==
    FlattenSeq([b \in DOMAIN m.scheme.w_log2 |-> BlockSites(m.scheme, b)])
    \o SharedSites(m.scheme, m.dims.dh)

HasNegativeSite(m) == \E i \in DOMAIN Sites(m) : Sites(m)[i][2] < 0

\* The parameters of the ops; blocks[b] holds the shift of each linear.
Derived(m) ==
    LET sc == m.scheme
        shared == SharedSites(sc, m.dims.dh)
    IN  [ln_shift |-> shared[1][2], score_shift |-> shared[2][2], oh_shift |-> shared[3][2],
         gate_msa_bits |-> shared[4][2], gate_mlp_bits |-> shared[5][2],
         mod_one |-> 2^sc.f_ln, mod_bits |-> sc.f_ln, softmax_one |-> 2^sc.f_p,
         blocks |-> [b \in DOMAIN sc.w_log2 |->
                        [k \in DOMAIN Linears |-> BlockSites(sc, b)[k][2]]]]

(***************************** weights and tables **************************)
WeightId(b, k) == 1000 + 5 * (b - 1) + k - 1

\* Builder::weight: the k-th tensor registered refers to scale 10 + k.
Weights(m) ==
    FlattenSeq([b \in DOMAIN m.blocks |-> [k \in DOMAIN Linears |->
        [id |-> WeightId(b, k), scale_id |-> 10 + 5 * (b - 1) + k - 1,
         shape |-> WeightShape(m, k), cells |-> m.blocks[b][k]]]])

\* scheme_scales: what the quantization commitment says of the inputs, the
\* output and every weight.
Scales(m) ==
    LET sc == m.scheme
    IN  << [scale_id |-> 0, log2 |-> -sc.f_x], [scale_id |-> 1, log2 |-> -sc.f_c],
           [scale_id |-> 2, log2 |-> -sc.f_ln] >>
        \o FlattenSeq([b \in DOMAIN sc.w_log2 |-> [k \in DOMAIN Linears |->
               [scale_id |-> 10 + 5 * (b - 1) + k - 1, log2 |-> sc.w_log2[b][k]]]])

TableSilu == 1
TableGelu == 2
TableInvSqrt == 3
TableExp == 4

\* round(2^t / sqrt(v)), and 2^t at zero.
InvSqrt(t, v) ==
    IF v = 0 THEN 2^t
    ELSE CHOOSE n \in 0..(2^t) :
            /\ (2 * n + 1) * (2 * n + 1) * v > 4^(t + 1)
            /\ n = 0 \/ (2 * n - 1) * (2 * n - 1) * v <= 4^(t + 1)

\* Mutant: an inverse-sqrt table for rows of int8 and not of modulated values.
InvSqrtDomainInt8 == 0..((Half - 1) * (Half - 1))

\* INVSQRT_DOMAIN_HI is 510 * 510.
InvSqrtDomain == 0..((4 * Half - 2) * (4 * Half - 2))

\* scheme_tables.
Tables(m) ==
    LET sc == m.scheme
        over(lo, hi, entry(_)) == [i \in 1..(hi - lo + 1) |-> entry(lo + i - 1)]
    IN  << [id |-> TableSilu, lo |-> -Half, outs |-> over(-Half, Half - 1, LAMBDA v : Silu(sc.f_c, v))],
           [id |-> TableGelu, lo |-> -Half, outs |-> over(-Half, Half - 1, LAMBDA v : Gelu(sc.f_g1, sc.f_g2, v))],
           [id |-> TableInvSqrt, lo |-> 0, outs |-> over(0, Max(InvSqrtDomain), LAMBDA v : InvSqrt(sc.t_inv, v))],
           [id |-> TableExp, lo |-> -(2 * Half - 1),
            outs |-> over(-(2 * Half - 1), 0, LAMBDA v : ExpEntry(sc.f_score, sc.f_e, v))] >>

(******************************* the builder *******************************)
\* The buffer of a value, and the ones its rows pass through.
Buf(b, name, h) == [block |-> b, name |-> name, head |-> h, stage |-> "whole", pos |-> 0]
Part(buf, stage, p) == [buf EXCEPT !.stage = stage, !.pos = p]

BufC == Buf(0, "c", 0)

Nearest == "NearestTiesToEven"

Requant(in, out, shift) ==
    [kind |-> "Requant", args |-> <<in>>, out_buf |-> out, zero_point |-> 0,
     shift |-> shift, lo |-> -Half, hi |-> Half - 1, rounding |-> Nearest]
Batched(m, b, k, in, out) ==
    [kind |-> "BatchedLinear", args |-> <<in>>, out_buf |-> out, weight |-> WeightId(b, k),
     bias |-> <<>>, seq |-> m.dims.s]
Activate(table, in, out) == [kind |-> "Activation", args |-> <<in>>, out_buf |-> out, table |-> table]
Norm(in, out, shift) ==
    [kind |-> "LayerNorm", args |-> <<in>>, out_buf |-> out, table |-> TableInvSqrt,
     shift |-> shift, lo |-> -Half, hi |-> Half - 1, rounding |-> Nearest]
Modulate(x, scale, shift, out, qp) ==
    [kind |-> "Modulate", args |-> <<x, scale, shift>>, out_buf |-> out, one |-> qp.mod_one,
     shift |-> qp.mod_bits, lo |-> -Half, hi |-> Half - 1, rounding |-> Nearest]
Gate(g, x, out, bits) ==
    [kind |-> "Gate", args |-> <<g, x>>, out_buf |-> out,
     shift |-> bits, lo |-> -Half, hi |-> Half - 1, rounding |-> Nearest]
Add(a, b, out) == [kind |-> "Add", args |-> <<a, b>>, out_buf |-> out]
MatMulOp(a, b, out, rows, inner, cols, t) ==
    [kind |-> "MatMul", args |-> <<a, b>>, out_buf |-> out, rows |-> rows, inner |-> inner,
     cols |-> cols, transpose_b |-> t]
SoftmaxOp(in, out, n, one) ==
    [kind |-> "Softmax", args |-> <<in>>, out_buf |-> out, table |-> TableExp, row_len |-> n, one |-> one]
Slice(in, out, start, len) ==
    [kind |-> "Slice", args |-> <<in>>, out_buf |-> out, start |-> start, len |-> len]
Concat(bufs, out) == [kind |-> "Concat", args |-> bufs, out_buf |-> out]

\* A linear and its requantization.
Project(m, b, k, in, out, qp) ==
    << Batched(m, b, k, in, Part(out, "acc", 0)), Requant(Part(out, "acc", 0), out, qp.blocks[b][k]) >>

\* ln_per_pos: slice each row, normalize it, join the rows.
LnPerPos(m, x, out, qp) ==
    FlattenSeq([p \in 1..m.dims.s |->
        << Slice(x, Part(out, "row", p), (p - 1) * m.dims.d, m.dims.d),
           Norm(Part(out, "row", p), Part(out, "norm", p), qp.ln_shift) >>])
    \o << Concat([p \in 1..m.dims.s |-> Part(out, "norm", p)], out) >>

\* extract_cols: a band of columns of every row.
ExtractCols(m, src, out, width, col, len) ==
    [p \in 1..m.dims.s |-> Slice(src, Part(out, "row", p), (p - 1) * width + col, len)]
    \o << Concat([p \in 1..m.dims.s |-> Part(out, "row", p)], out) >>

HeadOps(m, b, h, qp) ==
    LET at(name) == Buf(b, name, h)
        dh == m.dims.dh
        band(all, name) == ExtractCols(m, Buf(b, all, 0), at(name), Inner(m), (h - 1) * dh, dh)
    IN  band("q", "qh") \o band("k", "kh") \o band("v", "vh")
        \o << MatMulOp(at("qh"), at("kh"), at("qk"), m.dims.s, dh, m.dims.s, TRUE),
              Requant(at("qk"), at("scores"), qp.score_shift),
              SoftmaxOp(at("scores"), at("prob"), m.dims.s, qp.softmax_one),
              MatMulOp(at("prob"), at("vh"), at("pv"), m.dims.s, m.dims.s, dh, FALSE),
              Requant(at("pv"), at("oh"), qp.oh_shift) >>

\* Mutant: the heads are joined head by head.
JoinHeadsByHead(m, b) ==
    << Concat([h \in 1..m.dims.h |-> Buf(b, "oh", h)], Buf(b, "attn_cat", 0)) >>

\* Position by position, the slices of all heads.
JoinHeads(m, b) ==
    LET slot(e) == << ((e - 1) \div m.dims.h) + 1, ((e - 1) % m.dims.h) + 1 >>
        part(e) == Part(Buf(b, "oh", slot(e)[2]), "part", slot(e)[1])
        places == 1..(m.dims.s * m.dims.h)
    IN  [e \in places |->
            Slice(Buf(b, "oh", slot(e)[2]), part(e), (slot(e)[1] - 1) * m.dims.dh, m.dims.dh)]
        \o << Concat([e \in places |-> part(e)], Buf(b, "attn_cat", 0)) >>

Attn(m, b, x, qp) ==
    LET at(name) == Buf(b, name, 0)
        third(j, name) == ExtractCols(m, at("qkv"), at(name), 3 * Inner(m), j * Inner(m), Inner(m))
    IN  LnPerPos(m, x, at("a0"), qp) \o Project(m, b, 2, at("a0"), at("qkv"), qp)
        \o third(0, "q") \o third(1, "k") \o third(2, "v")
        \o FlattenSeq([h \in 1..m.dims.h |-> HeadOps(m, b, h, qp)])
        \o JoinHeads(m, b) \o Project(m, b, 3, at("attn_cat"), at("a"), qp)

Ffn(m, b, x, qp) ==
    LET at(name) == Buf(b, name, 0)
    IN  LnPerPos(m, x, at("f0"), qp) \o Project(m, b, 4, at("f0"), at("h1"), qp)
        \o << Activate(TableGelu, at("h1"), at("g")) >> \o Project(m, b, 5, at("g"), at("f"), qp)

\* x + gate * sublayer, clamped again.
Residual(x, gate, sub, gated, sum, out, bits) ==
    << Gate(gate, sub, gated, bits), Add(x, gated, sum), Requant(sum, out, 0) >>

ConditionalBlock(m, b, x, qp) ==
    LET at(name) == Buf(b, name, 0)
        d == m.dims.d
        chunk(j, name) == ExtractCols(m, at("adaln"), at(name), 6 * d, j * d, d)
    IN  << Activate(TableSilu, BufC, at("silu_c")) >> \o Project(m, b, 1, at("silu_c"), at("adaln"), qp)
        \o chunk(0, "shift_msa") \o chunk(1, "scale_msa") \o chunk(2, "gate_msa")
        \o chunk(3, "shift_mlp") \o chunk(4, "scale_mlp") \o chunk(5, "gate_mlp")
        \o LnPerPos(m, x, at("n1"), qp)
        \o << Modulate(at("n1"), at("scale_msa"), at("shift_msa"), at("m1"), qp) >>
        \o Attn(m, b, at("m1"), qp)
        \o Residual(x, at("gate_msa"), at("a"), at("g1"), at("sum1"), at("x1"), qp.gate_msa_bits)
        \o LnPerPos(m, at("x1"), at("n2"), qp)
        \o << Modulate(at("n2"), at("scale_mlp"), at("shift_mlp"), at("m2"), qp) >>
        \o Ffn(m, b, at("m2"), qp)
        \o Residual(at("x1"), at("gate_mlp"), at("f"), at("g2"), at("sum2"), at("x"), qp.gate_mlp_bits)

\* The residual stream after block b; the latent history is the stream at first.
Stream(b) == Buf(b, "x", 0)
OutputBuf == Buf(0, "z", 0)

\* build_predictor_with: the blocks in turn, then the final norm.
Program(m) ==
    FlattenSeq([b \in DOMAIN m.blocks |-> ConditionalBlock(m, b, Stream(b - 1), Derived(m))])
    \o LnPerPos(m, Stream(Len(m.blocks)), OutputBuf, Derived(m))

(******************************* the scales ********************************)
\* What the committed scales say of a scale id, and of a weight tensor.
ScaleLog2(m, id) == Scales(m)[Min({ i \in DOMAIN Scales(m) : Scales(m)[i].scale_id = id })].log2
DeclaredLog2(m, id) == ScaleLog2(m, Find(Weights(m), id).scale_id)

\* The frac of an op's output, given the fracs f of the buffers before it.
FracOut(m, op, f) ==
    LET in(i) == f[op.args[i]]
        sc == m.scheme
    IN  CASE op.kind = "BatchedLinear" -> in(1) - DeclaredLog2(m, op.weight)
          [] op.kind = "Requant"       -> in(1) - op.shift
          [] op.kind = "Activation"    -> IF op.table = TableSilu THEN sc.f_c ELSE sc.f_g2
          [] op.kind = "LayerNorm"     -> sc.t_inv - op.shift
          [] op.kind = "Modulate"      -> in(1) + in(2) - op.shift
          [] op.kind = "Gate"          -> in(1) + in(2) - op.shift
          [] op.kind = "MatMul"        -> in(1) + in(2) + IF op.transpose_b THEN HalfLog2(m.dims.dh) ELSE 0
          [] op.kind = "Softmax"       -> sc.f_p
          [] OTHER                     -> in(1)

\* Its operands are at the fracs it takes them to be at.
Aligned(m, op, f) ==
    LET in(i) == f[op.args[i]]
        sc == m.scheme
    IN  CASE op.kind = "Activation" -> in(1) = IF op.table = TableSilu THEN sc.f_c ELSE sc.f_g1
          [] op.kind = "Modulate"   -> op.one = 2^in(2) /\ in(3) = FracOut(m, op, f)
          [] op.kind = "Softmax"    -> op.one = 2^sc.f_p /\ in(1) = sc.f_score
          [] op.kind = "Add"        -> in(1) = in(2)
          [] op.kind = "Concat"     -> \A i \in DOMAIN op.args : in(i) = in(1)
          [] OTHER                  -> Shifts(op) => op.shift >= 0

(********************************* the run *********************************)
VARIABLES model,     \* dims, scheme, quantized weights and inputs
          phase,     \* derive, build, run, done; or refused, panicked, failed
          ops,       \* the ops of the block
          binds,     \* the weights and the tables
          pc, bufs,  \* the next op and the buffers written so far
          fracs      \* history: the frac of every buffer written so far

vars == <<model, phase, ops, binds, pc, bufs, fracs>>

Init ==
    /\ model \in Models
    /\ phase = "derive" /\ ops = <<>> /\ binds = [weights |-> <<>>, tables |-> <<>>]
    /\ pc = 1 /\ bufs = <<>> /\ fracs = <<>>

\* The unit 2^f_ln is computed before f_ln itself is checked, so a debug build
\* panics on a negative f_ln where a release build masks the shift and then refuses.
DeriveOutcomes(m) ==
    IF Len(m.scheme.w_log2) # m.dims.depth \/ Len(m.blocks) # m.dims.depth \/ HasNegativeSite(m)
    THEN {"refused"}
    ELSE IF m.scheme.f_ln < 0 THEN {"refused", "panicked"}
    ELSE {"build"}

\* build_predictor_real: the block counts, then derive.
Derive ==
    /\ phase = "derive"
    /\ phase' \in DeriveOutcomes(model)
    /\ UNCHANGED <<model, ops, binds, pc, bufs, fracs>>

\* Builder::weight expects int8 values, as many as the shape has.
WeightsFit(m) ==
    \A b \in DOMAIN m.blocks : \A k \in DOMAIN Linears :
        /\ Len(m.blocks[b][k]) = WeightShape(m, k)[1] * WeightShape(m, k)[2]
        /\ Range(m.blocks[b][k]) \subseteq Int8

Build ==
    /\ phase = "build"
    /\ IF WeightsFit(model)
       THEN /\ phase' = "run"
            /\ ops' = Program(model)
            /\ binds' = [weights |-> Weights(model), tables |-> Tables(model)]
            /\ bufs' = Seed(<< [id |-> Stream(0), vals |-> model.x], [id |-> BufC, vals |-> model.c] >>)
            /\ fracs' = [b \in {Stream(0), BufC} |->
                              IF b = BufC THEN model.scheme.f_c ELSE model.scheme.f_x]
       ELSE phase' = "panicked" /\ UNCHANGED <<ops, binds, bufs, fracs>>
    /\ UNCHANGED <<model, pc>>

\* prove_block computes the op, and audit_block accepts what it wrote.
Audited(op, out) ==
    \A n \in Draws :
        AuditOp(op, out, bufs, binds,
                [i \in 1..(IF IsLinear(op) THEN Rows(WeightOf(op, binds)) ELSE 0) |-> n]) = "ok"

RunOp ==
    /\ phase = "run" /\ pc <= Len(ops)
    /\ LET k == Kernel(ops[pc], bufs, binds)
       IN  IF k.err = "ok" /\ Audited(ops[pc], k.out)
           THEN /\ bufs' = Insert(bufs, ops[pc].out_buf, k.out) /\ pc' = pc + 1
                /\ fracs' = Insert(fracs, ops[pc].out_buf, FracOut(model, ops[pc], fracs))
                /\ UNCHANGED phase
           ELSE phase' = "failed" /\ UNCHANGED <<bufs, pc, fracs>>
    /\ UNCHANGED <<model, ops, binds>>

Finish ==
    /\ phase = "run" /\ pc > Len(ops)
    /\ phase' = "done"
    /\ UNCHANGED <<model, ops, binds, pc, bufs, fracs>>

Next == Derive \/ Build \/ RunOp \/ Finish

Spec == Init /\ [][Next]_vars

(****************************** the reference ******************************)
\* float_forward over the integer kernels and the bindings B, row by row.
To8(shift) == [shift |-> shift, lo |-> -Half, hi |-> Half - 1, rounding |-> Nearest]
Scaled(x, shift) == [i \in DOMAIN x |-> Rescale(To8(shift), x[i])]

NormRow(m, B, x) == LayerNorm(To8(Derived(m).ln_shift), x, Find(B.tables, TableInvSqrt))
Through(B, table, x) == [i \in DOMAIN x |-> Lookup(Find(B.tables, table), x[i])]

\* A linear of block b, before and after it is rescaled.
Dense(B, b, k, x) == LET w == Find(B.weights, WeightId(b, k)) IN Linear(w, x, [i \in 1..Rows(w) |-> 0])
Projected(m, B, b, k, x) == Scaled(Dense(B, b, k, x), Derived(m).blocks[b][k])

\* n (1 + scale) + shift.
ModulatedRow(m, n, scale, shift) ==
    ModulateVec([one |-> 2^m.scheme.f_ln, shift |-> m.scheme.f_ln, lo |-> -Half, hi |-> Half - 1,
                 rounding |-> Nearest], n, scale, shift)

\* What a linear of the block is given: the row normalized, modulated and normalized again.
SublayerRow(m, B, x, scale, shift) == NormRow(m, B, ModulatedRow(m, NormRow(m, B, x), scale, shift))

GatedRow(x, gate, sub, bits) ==
    Scaled(ResidualAdd(x, GateVec(To8(bits), gate, sub)), 0)

\* The modulation of a block, and its six parts at a position.
Ada(m, B, b) == FlattenSeq([p \in 1..m.dims.s |-> Projected(m, B, b, 1, Through(B, TableSilu, RowOf(m.c, p, m.dims.d)))])
Chunk(m, ada, p, j) == SubSeq(RowOf(ada, p, 6 * m.dims.d), j * m.dims.d + 1, (j + 1) * m.dims.d)

Qkv(m, B, x, b, ada) ==
    FlattenSeq([p \in 1..m.dims.s |->
        Projected(m, B, b, 2, SublayerRow(m, B, RowOf(x, p, m.dims.d), Chunk(m, ada, p, 1), Chunk(m, ada, p, 0)))])

\* The part of head h in a third of position p, and head h of position i, which
\* attends to every position.
HeadPart(m, qkv, p, third, h) ==
    SubSeq(RowOf(qkv, p, 3 * Inner(m)), third * Inner(m) + (h - 1) * m.dims.dh + 1,
           third * Inner(m) + h * m.dims.dh)

ScoreRow(m, qkv, h, i) ==
    [j \in 1..m.dims.s |->
        SumTo([t \in 1..m.dims.dh |-> HeadPart(m, qkv, i, 0, h)[t] * HeadPart(m, qkv, j, 1, h)[t]], m.dims.dh)]

ProbRow(m, B, qkv, h, i) ==
    Softmax(Scaled(ScoreRow(m, qkv, h, i), Derived(m).score_shift), Find(B.tables, TableExp),
            Derived(m).softmax_one)

ValueRow(m, prob, qkv, h) ==
    [t \in 1..m.dims.dh |->
        SumTo([j \in 1..m.dims.s |-> prob[j] * HeadPart(m, qkv, j, 2, h)[t]], m.dims.s)]

HeadRow(m, B, qkv, h, i) == Scaled(ValueRow(m, ProbRow(m, B, qkv, h, i), qkv, h), Derived(m).oh_shift)

HeadsRow(m, B, qkv, i) == FlattenSeq([h \in 1..m.dims.h |-> HeadRow(m, B, qkv, h, i)])

\* The stream between attention and FFN, and the hidden layer of the FFN.
Mid(m, B, x, b, ada, qkv) ==
    FlattenSeq([p \in 1..m.dims.s |->
        GatedRow(RowOf(x, p, m.dims.d), Chunk(m, ada, p, 2), Projected(m, B, b, 3, HeadsRow(m, B, qkv, p)),
                 Derived(m).gate_msa_bits)])

HiddenRow(m, B, mid, b, ada, p) ==
    Projected(m, B, b, 4, SublayerRow(m, B, RowOf(mid, p, m.dims.d), Chunk(m, ada, p, 4), Chunk(m, ada, p, 3)))

ForwardBlock(m, B, x, b) ==
    LET ada == Ada(m, B, b)
        qkv == Qkv(m, B, x, b, ada)
        mid == Mid(m, B, x, b, ada, qkv)
        ffn(p) == Projected(m, B, b, 5, Through(B, TableGelu, HiddenRow(m, B, mid, b, ada, p)))
    IN  FlattenSeq([p \in 1..m.dims.s |->
            GatedRow(RowOf(mid, p, m.dims.d), Chunk(m, ada, p, 5), ffn(p), Derived(m).gate_mlp_bits)])

\* The residual stream after each block, and the normalized output.
Streams(m, B) ==
    LET x[b \in 0..Len(m.blocks)] == IF b = 0 THEN m.x ELSE ForwardBlock(m, B, x[b - 1], b)
    IN  x

Forward(m, B) ==
    LET x == Streams(m, B)[Len(m.blocks)]
    IN  FlattenSeq([p \in 1..m.dims.s |-> NormRow(m, B, RowOf(x, p, m.dims.d))])

------------------------------------------------------------------------------
\* The scheme's fracs meet at every op, and the residual stream and the output keep
\* the ones that the committed scales declare (predictor_quant.rs, scheme invariants;
\* lewm_predictor.rs, scheme_scales).
ScalesMeet ==
    /\ phase = "run" /\ pc <= Len(ops) => Aligned(model, ops[pc], fracs)
    /\ \A b \in DOMAIN model.blocks :
           Stream(b) \in DOMAIN fracs => fracs[Stream(b)] = -ScaleLog2(model, 0)
    /\ OutputBuf \in DOMAIN fracs => fracs[OutputBuf] = -ScaleLog2(model, 2)

\* The inputs cover every position.
WellFormed(m) == Len(m.x) = m.dims.s * m.dims.d /\ Len(m.c) = m.dims.s * m.dims.d

Abs(n) == IF n < 0 THEN -n ELSE n

\* derive has no upper limit on a shift; the audit refuses one past MAX_SHIFT.
ShiftsUsable(m) ==
    /\ \A i \in DOMAIN Sites(m) : Sites(m)[i][2] <= MaxShift
    /\ m.scheme.f_ln <= MaxShift

\* The largest operand of the k-th linear: an int8, or an entry of a table, which nothing clamps.
Reach(m, k) ==
    CASE Linears[k] = "adaln" -> Max({ Abs(Silu(m.scheme.f_c, v)) : v \in Int8 })
      [] Linears[k] = "fc2"   -> Max({ Abs(Gelu(m.scheme.f_g1, m.scheme.f_g2, v)) : v \in Int8 })
      [] OTHER                -> Half

LinearsFit(m) ==
    \A b \in DOMAIN m.blocks : \A k \in DOMAIN Linears :
        LET cols == WeightShape(m, k)[2]
            row(i) == RowOf(m.blocks[b][k], i, cols)
        IN  /\ DimsWithinMargin(cols) /\ Reach(m, k) <= Bound
            /\ \A i \in 1..WeightShape(m, k)[1] :
                   Reach(m, k) * SumSeq([j \in 1..cols |-> Abs(row(i)[j])]) <= Bound

\* The largest term of a softmax row, exp(0), does not round to zero.
ExpFits(m) ==
    LET entry(v) == ExpEntry(m.scheme.f_score, m.scheme.f_e, v)
    IN  entry(0) > 0 /\ \A v \in (-(2 * Half - 1))..0 : entry(v) >= 0

\* No int8 input drives an op out of a table or past a guard: what is built over inputs
\* of the right length is proved and audited to the end (INVSQRT_DOMAIN_HI and the exp
\* domain of scheme_tables) under a scheme with usable shifts (what calibrate
\* caps its fracs for), linears within the guard, fc2 after GELU included, and a
\* nonzero exp(0).  And a block with an unusable shift is never accepted.
RunsToTheEnd ==
    /\ phase = "failed" => ~(WellFormed(model) /\ ShiftsUsable(model) /\ LinearsFit(model) /\ ExpFits(model))
    /\ (phase = "done" /\ model.blocks # <<>>) => ShiftsUsable(model)

\* The ops over flat buffers compute the forward pass they mirror, position by
\* position and head by head, and where there is a block nothing is computed from
\* inputs of another length (lewm_predictor.rs attn and extract_cols;
\* predictor_quant.rs float_forward).
OutputIsForward ==
    phase = "done" =>
        /\ bufs[OutputBuf] = Forward(model, binds)
        /\ Len(model.blocks) > 0 => WellFormed(model)
=============================================================================
