-------------------------- MODULE MCPredictorGraph --------------------------
(***************************************************************************)
(* Model-checking instance: int8 scaled to -8..7; two blocks of two heads  *)
(* over two positions, and one block of one head of four values over       *)
(* three.  The fracs of a scheme and the logs of its weights all differ.   *)
(***************************************************************************)
EXTENDS PredictorGraph

Small == [d |-> 3, s |-> 2, h |-> 2, dh |-> 1, mlp |-> 3, depth |-> 2]
Wide  == [d |-> 3, s |-> 3, h |-> 1, dh |-> 4, mlp |-> 2, depth |-> 1]

\* Weights in -3..3.
Cells(n, seed) == [i \in 1..n |-> (((seed + 3) * i * i + 5 * i + seed) % 7) - 3]
Blocks(dims, count) ==
    [b \in 1..count |-> [k \in 1..5 |->
        LET shape == WeightShape([dims |-> dims], k) IN Cells(shape[1] * shape[2], 3 * b + k)]]

Logs(count) == [b \in 1..count |-> [k \in 1..5 |-> IF (b + k) % 2 = 0 THEN -1 ELSE -2]]

Plain(count) ==
    [f_x |-> 2, f_c |-> 2, f_ln |-> 2, f_qkv |-> 2, f_score |-> 3, f_p |-> 3, f_att |-> 2, f_a |-> 2,
     f_g1 |-> 2, f_g2 |-> 2, f_f |-> 1, t_inv |-> 6, f_e |-> 4, w_log2 |-> Logs(count)]

Mixed(count) ==
    [f_x |-> 1, f_c |-> 3, f_ln |-> 2, f_qkv |-> 1, f_score |-> 2, f_p |-> 4, f_att |-> 1, f_a |-> 0,
     f_g1 |-> 3, f_g2 |-> 4, f_f |-> 1, t_inv |-> 7, f_e |-> 3, w_log2 |-> Logs(count)]

\* No site has a negative shift, but f_ln is negative.
Negative(count) ==
    [Plain(count) EXCEPT !.f_x = 1, !.f_ln = -1, !.f_qkv = 0, !.f_score = 0, !.f_g1 = 0, !.f_f = 2]

\* A shift at MaxShift and one past it, in the modulation and in a residual; GELU entries
\* at the bound of the dense layer and past it; an exp table of zeros.
Limits ==
    { [Plain(2) EXCEPT !.f_c = 8], [Plain(2) EXCEPT !.f_c = 9],
      [Plain(2) EXCEPT !.f_x = -4, !.f_f = 2], [Plain(2) EXCEPT !.f_x = -4, !.f_f = 3],
      [Plain(2) EXCEPT !.f_g2 = 3], [Plain(2) EXCEPT !.f_g2 = 5], [Plain(2) EXCEPT !.f_g2 = 7],
      [Plain(2) EXCEPT !.f_e = 0], [Plain(2) EXCEPT !.f_e = -2] }

MCSilu(f, v) == IF v >= 0 THEN v - v \div 4 ELSE -((-v) \div (f + 3))
MCGelu(f, g, v) == IF v <= 0 THEN 0 ELSE (v * 2^g) \div 2^f
MCExpEntry(f, g, v) == IF g < 0 THEN 0 ELSE 2^g \div 2^((-v) \div 2^f)

Model(dims, sc, blocks, x, c) == [dims |-> dims, scheme |-> sc, blocks |-> blocks, x |-> x, c |-> c]

SmallInputs == { <<-8, 7, 3, -1, 0, 2>>, <<7, -8, -8, 7, 7, 7>>, <<0, 0, 5, 5, 5, 6>>, <<-8, 7, -8, 7, -8, 7>> }
SmallActions == { <<-8, 7, 7, -8, 1, 5>>, <<2, -3, 1, 4, 6, -7>>, <<7, 7, 7, -8, -8, -8>> }
WideInputs == { <<-8, 7, 7, 1, 2, 3, -5, 0, 4>>, <<7, 7, -8, -8, -8, -8, 7, -8, 0>> }

SmallX == <<1, 2, 3, 4, 5, 6>>

MCModels ==
    { Model(Small, sc, Blocks(Small, 2), x, c) :
          sc \in { Plain(2), Mixed(2) }, x \in SmallInputs, c \in SmallActions }
    \union { Model(Wide, sc, Blocks(Wide, 1), x, c) :
          sc \in { Plain(1), Mixed(1) }, x \in WideInputs, c \in WideInputs }
    \union { Model(Small, sc, Blocks(Small, n), x, <<2, -3, 1, 4, 0, 5>>) :
          sc \in { Plain(2), Plain(1), [Plain(2) EXCEPT !.f_ln = -1], [Plain(2) EXCEPT !.f_x = 5], Negative(2) },
          n \in {1, 2}, x \in { <<1, 2, 3, 4, 5, 6>>, <<1, 2, 3>>, <<1, 2, 3, 4, 5, 6, 7>> } }
    \union { Model(Small, sc, Blocks(Small, 2), x, <<-8, 7, 7, -8, 1, 5>>) : sc \in Limits, x \in SmallInputs }
    \union { Model(Small, Plain(2), Blocks(Small, 2), <<1, 2, 3, 4, 5, 6>>, c) :
          c \in { <<1, 2, 3>>, <<1, 2, 3, 4, 5, 6, 7, -8, 0>> } }
    \union { Model(Small, Plain(2), [Blocks(Small, 2) EXCEPT ![2][4] = w], SmallX, SmallX) :
          w \in { Cells(8, 1), Cells(10, 1), <<0, 1, 2, 3, 4, 8, 0, 0, 0>> } }
=============================================================================
