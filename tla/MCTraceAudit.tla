---------------------------- MODULE MCTraceAudit ----------------------------
(***************************************************************************)
(* Model-checking instance: p = 29, operand bound 6, weights in -1..1.  The *)
(* models have one or two layers, and among them are a shared weight, a    *)
(* duplicated id, a wide shift, two failing runs and an empty model.       *)
(***************************************************************************)
EXTENDS TraceAudit

T(id, shape, cells) == [id |-> id, shape |-> shape, cells |-> cells]
Requant(shift) ==
    [kind |-> "Requant", args |-> <<0>>, out_buf |-> 0, shift |-> shift, zero_point |-> 0,
     lo |-> -2, hi |-> 2, rounding |-> "NearestTiesToEven"]
Act(t) == [kind |-> "Activation", args |-> <<0>>, out_buf |-> 0, table |-> t]
Norm(t) ==
    [kind |-> "LayerNorm", args |-> <<0>>, out_buf |-> 0, table |-> t, shift |-> 0, lo |-> -3,
     hi |-> 3, rounding |-> "NearestTiesToEven"]

Layer(ln, weight, bias, shift, act) ==
    [ln |-> ln, weight |-> weight, bias |-> bias, requant |-> Requant(shift), act |-> act]

Square == T(1, <<2, 2>>, <<1, -1, 0, 1>>)
Other == T(1, <<2, 2>>, <<1, 1, 0, 1>>)
Wide == T(2, <<1, 2>>, <<1, 1>>)
Offset == T(3, <<2>>, <<1, 0>>)

Model(layers, relu) ==
    [layers |-> layers, scales |-> "scales",
     tables |-> << [id |-> 1, lo |-> -2, outs |-> relu], [id |-> 2, lo |-> 0, outs |-> <<2, 2, 1, 1, 1>>],
                   [id |-> 3, lo |-> 0, outs |-> <<1>>] >>]

Relu == <<0, 0, 0, 1, 2>>
Identity == <<-2, -1, 0, 1, 2>>

Mlp(weight, relu) ==
    Model(<< Layer(<<>>, weight, << Offset >>, 1, << Act(1) >>), Layer(<<>>, Wide, <<>>, 0, <<>>) >>, relu)

MCModels ==
    { Mlp(Square, Relu), Mlp(Square, Identity), Mlp(Other, Relu), Model(<<>>, Relu),
      Model(<< Layer(<< Norm(2) >>, Square, <<>>, 0, <<>>) >>, Relu),
      Model(<< Layer(<<>>, Square, <<>>, 1, <<>>), Layer(<<>>, Square, <<>>, 0, <<>>) >>, Relu),
      Model(<< Layer(<<>>, Square, <<>>, 0, <<>>), Layer(<<>>, Other, <<>>, 0, <<>>) >>, Relu),
      Model(<< Layer(<<>>, Wide, <<>>, 3, << Act(3) >>) >>, Relu),
      Model(<< Layer(<<>>, Wide, <<>>, 0, << Act(3) >>) >>, Relu),
      Model(<< Layer(<<>>, Wide, <<>>, 0, << Act(9) >>) >>, Relu),
      Model(<< Layer(<<>>, Offset, <<>>, 0, <<>>) >>, Relu) }

MCInputs == { <<1, 0>>, <<0, -3>>, <<21, 0>> }

\* Outputs a forged record may claim; 29 and -28 alias 0 and 1 modulo p.
MCOutputs == { <<>>, <<0>>, <<1>>, <<29>>, <<0, 1>>, <<1, 1>>, <<-28, 0>> }

MCRecords ==
    { Rec(Act(3), <<1>>, <<1>>), Rec(Act(9), <<1>>, <<1>>) } \union
    { Rec(op, x, z) : op \in { Graph(Mlp(Square, Relu))[i] : i \in 1..4 },
                      x \in { <<1, 0>>, <<2, 0>> }, z \in MCOutputs }

MCDraws == {0, 5}
MCSecrets == { <<>>, <<2>>, <<2, 1>>, <<2, 2>>, <<1, 1>> }
=============================================================================
