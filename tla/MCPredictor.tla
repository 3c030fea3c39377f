---------------------------- MODULE MCPredictor -----------------------------
(***************************************************************************)
(* Model-checking instances of Predictor: small blocks and the artifacts   *)
(* that may be sent under their statement.                                 *)
(***************************************************************************)
EXTENDS Predictor

Dense(w, in, out) ==
    [kind |-> "Linear", args |-> <<in>>, out_buf |-> out, weight |-> w, bias |-> <<>>]
Rescaled(in, out) ==
    [kind |-> "Requant", args |-> <<in>>, out_buf |-> out, shift |-> 1, zero_point |-> 0,
     lo |-> -2, hi |-> 2, rounding |-> "NearestTiesToEven"]
Table(in, out) == [kind |-> "Activation", args |-> <<in>>, out_buf |-> out, table |-> 1]

W(id, cells) == [id |-> id, shape |-> <<2, 2>>, cells |-> cells]
Weights == << W(2, <<1, -1, 0, 1>>), W(1, <<1, 0, 1, 1>>) >>
Swapped == << Weights[2], Weights[1] >>
Other == << W(2, <<1, -1, 0, 1>>), W(1, <<1, 0, -1, 1>>) >>
Tables(outs) == << [id |-> 1, lo |-> -2, outs |-> outs] >>
In(x) == << [id |-> 0, vals |-> x] >>

Artifact(ops, read, inputs, weights, tables, scales) ==
    [ops |-> ops, output_buf |-> read, inputs |-> inputs, scales |-> scales,
     binds |-> [weights |-> weights, tables |-> tables]]

Relu == <<0, 0, 0, 2, 2>>
Shifted == <<0, 0, 1, 1, 2>>

\* Two ops, so the Merkle tree is full.
Chain == << Dense(1, 0, 1), Table(1, 2) >>

Base(ops, read) == Artifact(ops, read, In(<<1, 0>>), Weights, Tables(Relu), "scales")

\* One part of the artifact differs from the base: inputs, weights (reordered,
\* or other cells), a table, the scales, the wiring, an op's parameters.
MCPrograms ==
    { Base(Chain, 2),
      Artifact(Chain, 2, In(<<0, 1>>), Weights, Tables(Relu), "scales"),
      Artifact(Chain, 2, In(<<1, 0>>), Swapped, Tables(Relu), "scales"),
      Artifact(Chain, 2, In(<<1, 0>>), Other, Tables(Relu), "scales"),
      Artifact(Chain, 2, In(<<1, 0>>), Weights, Tables(Shifted), "scales"),
      Artifact(Chain, 2, In(<<1, 0>>), Weights, Tables(Relu), "others"),
      Artifact(Chain, 2, In(<<6, 6>>), Weights, Tables(Relu), "scales"),
      Base(<< Dense(2, 0, 1), Table(1, 2) >>, 2),
      Base(<< Dense(1, 0, 0), Rescaled(0, 0), Dense(1, 0, 2), Dense(2, 2, 2) >>, 2),
      Base(<< Rescaled(0, 0), Dense(1, 0, 2) >>, 2),
      Base(<< Dense(1, 0, 1), [Rescaled(1, 2) EXCEPT !.shift = 5] >>, 2),
      Base(<< Dense(1, 0, 1) >>, 0),
      Base(<< Dense(1, 0, 1), Dense(9, 1, 2) >>, 1) }

\* Three ops and the same three with the last repeated.
MCRepeatedOp ==
    { Base(<< Dense(1, 0, 0), Dense(1, 0, 0), Dense(1, 0, 0) >>, 0),
      Base(<< Dense(1, 0, 0), Dense(1, 0, 0), Dense(1, 0, 0), Dense(1, 0, 0) >>, 0) }

MCClaims == { <<>>, <<0>>, <<29>> } \union { <<a, b>> : a \in {0, 1, 2, 6}, b \in {-29, 0, 1} }

\* Every field that is read, and one of those that are not.
MCMayAlter == ReadFields \union {"selected_index"}

MCDraws == {0, 1, 5}
=============================================================================
