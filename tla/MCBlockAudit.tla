---------------------------- MODULE MCBlockAudit ----------------------------
(***************************************************************************)
(* Model-checking instance: p = 29, operand bound 6, weights in -1..1 and  *)
(* shifts up to 2.  The programs cover every op kind, a chain of dense     *)
(* layers, buffers that are overwritten, and every error of prove_block.   *)
(***************************************************************************)
EXTENDS BlockAudit

(******************************** bindings *********************************)
W(id, shape, cells) == [id |-> id, shape |-> shape, cells |-> cells]
T(id, lo, outs) == [id |-> id, lo |-> lo, outs |-> outs]

Binds ==
    [weights |-> << W(1, <<2, 2>>, <<1, -1, 0, 1>>), W(2, <<1, 2>>, <<1, 1>>),
                    W(3, <<2>>, <<1, -1>>), W(4, <<1, 3>>, <<1, 1, 1>>),
                    W(1, <<2, 2>>, <<1, 1, 1, 1>>), W(5, <<3>>, <<0, 1, 4>>) >>,
     tables  |-> << T(1, -3, <<0, 0, 0, 0, 1, 2, 3>>), T(2, 0, <<2, 2, 1, 1, 1>>),
                    T(3, -3, <<0, 1, 2, 4>>), T(4, -3, <<0, 0, 0, 0>>) >>]

(********************************** ops ************************************)
Linear1(w, bias, in, out) ==
    [kind |-> "Linear", args |-> <<in>>, out_buf |-> out, weight |-> w, bias |-> bias]
Batched(w, bias, in, out, seq) ==
    [kind |-> "BatchedLinear", args |-> <<in>>, out_buf |-> out, weight |-> w, bias |-> bias,
     seq |-> seq]
Requant(in, out, shift, mode) ==
    [kind |-> "Requant", args |-> <<in>>, out_buf |-> out, shift |-> shift, zero_point |-> 1,
     lo |-> -2, hi |-> 3, rounding |-> mode]
Activation(t, in, out) ==
    [kind |-> "Activation", args |-> <<in>>, out_buf |-> out, table |-> t]
LayerN(t, in, out, shift, mode) ==
    [kind |-> "LayerNorm", args |-> <<in>>, out_buf |-> out, table |-> t, shift |-> shift,
     lo |-> -3, hi |-> 3, rounding |-> mode]
Modulate(x, scale, shift, out, bits, mode) ==
    [kind |-> "Modulate", args |-> <<x, scale, shift>>, out_buf |-> out, one |-> 2,
     shift |-> bits, lo |-> -3, hi |-> 3, rounding |-> mode]
Gate(g, x, out, bits, mode) ==
    [kind |-> "Gate", args |-> <<g, x>>, out_buf |-> out, shift |-> bits, lo |-> -3, hi |-> 3,
     rounding |-> mode]
Add(a, b, out) == [kind |-> "Add", args |-> <<a, b>>, out_buf |-> out]
MatM(a, b, out, rows, inner, cols, tr) ==
    [kind |-> "MatMul", args |-> <<a, b>>, out_buf |-> out, rows |-> rows, inner |-> inner,
     cols |-> cols, transpose_b |-> tr]
Softm(t, in, out, n) ==
    [kind |-> "Softmax", args |-> <<in>>, out_buf |-> out, table |-> t, row_len |-> n, one |-> 3]
Slice(in, out, start, len) ==
    [kind |-> "Slice", args |-> <<in>>, out_buf |-> out, start |-> start, len |-> len]
Concat(ins, out) == [kind |-> "Concat", args |-> ins, out_buf |-> out]

Near == "NearestTiesToEven"
Trunc == "TruncateTowardZero"

(******************************** programs *********************************)
In(id, vals) == [id |-> id, vals |-> vals]
Program(ops, output, inputs) ==
    [ops |-> ops, output_buf |-> output, inputs |-> inputs, binds |-> Binds]

\* dense layer, rescale, activation, dense layer
FeedForward ==
    << Linear1(1, <<3>>, 0, 1), Requant(1, 2, 1, Near), Activation(1, 2, 3), Linear1(2, <<>>, 3, 4) >>

\* LayerNorm, a chunk of two AdaLN parameters, modulation, gate, residual
AdaLN ==
    << LayerN(2, 0, 1, 1, Near), Slice(5, 2, 0, 2), Slice(5, 3, 2, 2), Modulate(1, 2, 3, 4, 1, Trunc),
       Gate(2, 4, 6, 1, Near), Add(0, 6, 7) >>

\* scores, probabilities, values, and a projection of every row
Attention ==
    << MatM(0, 1, 2, 2, 1, 2, TRUE), Softm(3, 2, 3, 2), MatM(3, 1, 4, 2, 2, 1, FALSE),
       Concat(<<4, 0>>, 5), Batched(2, <<>>, 5, 6, 2) >>

\* every op overwrites the buffer it reads
InPlace == << Linear1(1, <<>>, 0, 0), Linear1(1, <<3>>, 0, 0), Add(0, 0, 0), Requant(0, 0, 1, Trunc) >>

Workloads ==
    { Program(FeedForward, 4, <<In(0, x)>>) : x \in { <<1, 2>>, <<3, -3>>, <<-1, 0>> } }
    \union { Program(AdaLN, 7, <<In(0, x), In(5, <<1, -1, 2, 0>>)>>) : x \in { <<1, 2>>, <<3, -3>> } }
    \union { Program(Attention, 6, <<In(0, x), In(1, <<2, -1>>)>>) : x \in { <<1, 1>>, <<1, -1>> } }
    \union { Program(InPlace, 0, <<In(0, <<9, 9>>), In(0, x)>>) : x \in { <<1, 0>>, <<2, -1>> } }

\* One op each, on the inputs 0 |-> <<1, 2>> and 1 |-> <<3>>; output_buf is 2,
\* or 7, which nothing writes.
Faulty ==
    { Linear1(1, <<>>, 8, 2), Linear1(9, <<>>, 0, 2), Linear1(3, <<>>, 0, 2), Linear1(1, <<>>, 1, 2),
      Linear1(1, <<9>>, 0, 2), Linear1(2, <<3>>, 0, 2), Linear1(2, <<5>>, 0, 2), Linear1(4, <<>>, 0, 2),
      Batched(2, <<>>, 0, 2, 2), Batched(2, <<9>>, 0, 2, 1), Batched(2, <<>>, 3, 2, 0),
      Requant(8, 2, 0, Near), Requant(0, 2, 0, "unknown"), Requant(0, 2, 3, Near),
      Activation(9, 0, 2), Activation(2, 0, 2), Activation(4, 0, 2), LayerN(9, 0, 2, 0, Near),
      LayerN(2, 0, 2, 0, "unknown"), LayerN(2, 0, 2, 3, Trunc), LayerN(1, 0, 2, 0, Near),
      LayerN(2, 3, 2, 0, Near), Modulate(0, 0, 1, 2, 0, Near), Modulate(0, 0, 0, 2, 3, Near),
      Modulate(0, 0, 8, 2, 0, Near), Modulate(0, 0, 0, 2, 0, "unknown"), Gate(0, 1, 2, 0, Near),
      Gate(0, 0, 2, 3, Trunc), Gate(0, 0, 2, 0, "unknown"), Add(0, 1, 2), Add(0, 8, 2),
      MatM(0, 1, 2, 1, 1, 1, FALSE), Softm(9, 0, 2, 2), Softm(3, 0, 2, 0), Softm(4, 0, 2, 1),
      Softm(2, 0, 2, 2), Slice(0, 2, 1, 2), Slice(8, 2, 0, 0), Concat(<<0, 8>>, 2), Concat(<<>>, 2) }

MCPrograms ==
    Workloads \union { Program(<<op>>, o, <<In(0, <<1, 2>>), In(1, <<3>>), In(3, <<>>)>>) :
                          op \in Faulty, o \in {2, 7} }

(******************************** the prover *******************************)
\* Lengths 0 to 4; 29 and -28 alias 0 and 1 modulo p.
MCClaims ==
    { <<>>, <<0, 0, 1, 1>>, <<2, 1, 2, 1>>, <<0, 0, 0>> }
    \union { <<a>> : a \in {-28, 0, 1, 2, 3, 29} }
    \union { <<a, b>> : a \in {-1, 0, 1, 29}, b \in {-28, -1, 0, 1, 2} }

MCDraws == {0, 1, 5}
=============================================================================
