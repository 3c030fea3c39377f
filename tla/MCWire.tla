------------------------------- MODULE MCWire -------------------------------
(***************************************************************************)
(* Model-checking instance: 32 byte values, a u32 of one byte and a u64 of *)
(* two.  Among the documents are an artifact with all four kinds of op and *)
(* one with none, a public input of every shape of option, a predictor     *)
(* proof with empty lists, and traces that repeat their last records.      *)
(***************************************************************************)
EXTENDS Wire

B(v, lo, hi) == [value |-> v, lo |-> lo, hi |-> hi]
Cells(id, shape, data) == [tensor_id |-> id, scale_id |-> 0, shape |-> shape, data |-> data]
Variant(tag, body) == [tag |-> tag, body |-> body]

PublicInput(history, goal, index, cost) ==
    [relation_id |-> 1, model_commitment |-> 2, quantization_commitment |-> 3,
     planner_config_commitment |-> 4, statement_type |-> 4, latent_history_commitment |-> <<>>,
     latent_history_public |-> history, goal_latent_commitment |-> goal, goal_latent_public |-> <<>>,
     candidate_actions_commitment |-> <<>>, candidate_actions_public |-> <<>>,
     claimed_output_commitment |-> 5, selected_index |-> index, selected_cost |-> cost]

Artifact(pi, ops, weights, tables, scales, trace) ==
    [artifact_version |-> 1, public_input |-> pi, graph |-> [ops |-> ops], weights |-> weights,
     tables |-> tables, scales |-> scales, trace |-> trace, claimed_output |-> Cells(1, <<>>, << B(1, 0, 2) >>)]

Bare == Artifact(PublicInput(<< <<>> >>, <<>>, <<>>, <<>>), <<>>, <<>>, <<>>, <<>>, <<>>)

Tensors ==
    Artifact(PublicInput(<< <<0, 4>> >>, <<3>>, <<2>>, << B(-1, -2, 0) >>), <<>>,
             << Cells(2, <<2, 1>>, << B(0, 0, 0), B(2, -2, 2) >>), Cells(3, <<0>>, <<>>) >>,
             << [table_id |-> 1, lo |-> -512, outputs |-> <<511, -1>>] >>,
             << [scale_id |-> 0, log2 |-> -16, dtype |-> 2] >>, <<>>)

Graph ==
    << Variant(0, [op_id |-> 1, weight_id |-> 2, bias_id |-> <<3>>, rows |-> 1, cols |-> 2]),
       Variant(1, [op_id |-> 1, shift |-> 5, zero_point |-> -1, clamp_lo |-> -7, clamp_hi |-> 8, rounding |-> 1]),
       Variant(3, [op_id |-> 2, table_id |-> 1, shift |-> 0, clamp_lo |-> -2, clamp_hi |-> 2, rounding |-> 5]) >>

Ops == Artifact(PublicInput(<< <<>> >>, <<>>, <<>>, <<>>), Graph, <<>>, <<>>, <<>>, <<>>)

Trace ==
    Artifact(PublicInput(<< <<>> >>, <<>>, <<>>, <<>>), <<>>, <<>>, <<>>, <<>>,
        << Variant(0, [op_id |-> 1, weight_id |-> 2, bias_id |-> <<>>, input |-> <<-6>>, output |-> <<>>]),
           Variant(1, [op_id |-> 2, input |-> <<>>, output |-> <<3>>, shift |-> 2, zero_point |-> 0,
                       clamp_lo |-> 0, clamp_hi |-> 1, rounding |-> 0]),
           Variant(2, [op_id |-> 2, table_id |-> 0, input |-> <<>>, output |-> <<>>]),
           Variant(3, [op_id |-> 3, table_id |-> 1, input |-> <<>>, output |-> <<>>, shift |-> 4,
                       clamp_lo |-> 0, clamp_hi |-> 1, rounding |-> 1]) >>)

\* Traces that only the duplicated last node of a level tells from one another, or does not.
A == Variant(2, [op_id |-> 1, table_id |-> 0, input |-> <<>>, output |-> <<>>])
C == Variant(0, [op_id |-> 1, weight_id |-> 2, bias_id |-> <<>>, input |-> <<>>, output |-> <<>>])
Traced(trace) == Artifact(PublicInput(<< <<>> >>, <<>>, <<>>, <<>>), <<>>, <<>>, <<>>, <<>>, trace)

Repeats ==
    { Traced(trace) : trace \in { <<A>>, <<A, A>>, <<A, A, C>>, <<A, A, C, C>>,
                                   <<A, A, C, C, A, C>>, <<A, A, C, C, A, C, A, C>> } }

MCMaxDamage(d) == IF d[1] = "manifest" \/ (d[1] = "artifact" /\ d[2] \in Repeats) THEN 1 ELSE 2
OneDamage(d) == 1

MCDocuments ==
    { <<"artifact", d>> : d \in { Bare, Tensors, Ops, Trace } \union Repeats }
    \union { <<"predictor", [inputs |-> << <<1>>, <<>> >>, op_outputs |-> << <<-1, 2>> >>]>>,
             <<"predictor", [inputs |-> <<>>, op_outputs |-> << <<>> >>]>> }
=============================================================================
