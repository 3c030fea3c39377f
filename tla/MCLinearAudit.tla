--------------------------- MODULE MCLinearAudit ----------------------------
(***************************************************************************)
(* Model-checking instance: p = 13, operand bound 3 and two-bit weights    *)
(* (i8 scaled to -2..1), so that the margin admits layers of at most two   *)
(* columns.                                                                *)
(***************************************************************************)
EXTENDS LinearAudit

Mat(rows, cols, cells) == [shape |-> <<rows, cols>>, cells |-> cells]

Layer(w, x, bias) == [w |-> w, x |-> x, bias |-> bias]

\* Symmetric int8 weights, plus one weight outside i8 (3 is truncated to -1),
\* a layer too wide for the margin, inputs and biases beyond the bound, an
\* input of the wrong length, and a weight that is not a matrix.
MCLayers ==
    { Layer(Mat(2, 2, c), x, b) :
        c \in { <<1, 0, -1, 1>>, <<1, 1, 1, 1>>, <<0, -1, 0, 0>>, <<-1, -1, 1, 3>> },
        x \in { <<3, 3>>, <<-3, 2>>, <<0, 1>>, <<4, 0>> },
        b \in { <<0, 0>>, <<-2, 3>> } }
    \union { Layer(Mat(1, 3, <<1, -1, 1>>), <<1, 2, 3>>, <<0>>),
             Layer(Mat(1, 2, <<1, -1>>), <<-3, 3>>, <<4>>), Layer(Mat(1, 2, <<1, -1>>), <<-3, 3>>, <<0>>),
             Layer(Mat(2, 1, <<1, -1>>), <<2>>, <<1, 1>>),
             Layer(Mat(1, 2, <<1, 1>>), <<1>>, <<0>>),
             Layer([shape |-> <<2>>, cells |-> <<1, 1>>], <<1, 1>>, <<0, 0>>) }

MCClaims == { <<a, b>> : a \in -4..4, b \in {-3, -1, 0, 2, 10} } \union { <<a>> : a \in {-3, 0, 2, 3, 7} }

MCDraws == {0, 1, 6, 12}
=============================================================================
