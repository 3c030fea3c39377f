----------------------------- MODULE MCManifest -----------------------------
(***************************************************************************)
(* Model-checking instance: the documents of MCWire, and manifests: pairs  *)
(* whose texts and options hold the same bytes in other fields, one with   *)
(* every option, and one for every rule that validate refuses.  A text is  *)
(* made of the bytes 1, 2 and 3; the byte 3 is the dot and <<2, 3>> is the *)
(* prefix.  The hash of a draft is its place among the drafts, past the    *)
(* bytes that a change puts in; every other string hashes to one byte that *)
(* nobody stores.                                                          *)
(***************************************************************************)
EXTENDS Manifest, MCWire

MCVersion == <<1>>
MCWireVersion == <<2>>
MCPrefix == <<2, 3>>
MCWeightOps == { <<2, 1>> }

Op(id, op, weight, acc, commitment) ==
    [id |-> id, op |-> op, in_scale_id |-> 1, weight_scale_id |-> weight, acc_scale_id |-> acc,
     out_scale_id |-> 1, activation |-> <<>>, lookup_table |-> <<>>, weight_commitment |-> commitment]

Dense == Op(<<1>>, <<2, 1>>, <<1>>, <<1>>, <<4>>)
Other == Op(<<1, 2>>, <<1>>, <<1>>, <<1>>, <<4>>)

Scale(id) == [scale_id |-> id, log2 |-> -3, dtype |-> 0]

Cem == [num_samples |-> 3, n_steps |-> 1, topk |-> 2, var_scale_milli |-> 5, seed |-> 7]

Planner(kind, cem) ==
    [kind |-> kind, cost |-> 0, tie_break |-> 0, horizon |-> 1, action_block |-> 1, cem |-> cem]

Draft(family, relation, scales, planner, ops) ==
    [manifest_version |-> <<1>>, model_family |-> family, relation_id |-> relation,
     field |-> [base |-> 0, extension |-> 0, signed_encoding |-> 0, max_abs_value |-> 0],
     quantization |-> [arithmetic |-> 0, default_rounding |-> 0, overflow_policy |-> 0,
                       clamp_policy |-> 0, activation_tables_commitment |-> 5],
     scales |-> scales,
     architecture |-> [latent_dim |-> 1, history_size |-> 2,
         predictor |-> [depth |-> 1, heads |-> 1, dim_head |-> 1, mlp_dim |-> 2,
             block |-> [modulation_activation_silu |-> TRUE, ffn_activation_gelu |-> TRUE,
                        positional_embedding_learned |-> FALSE]],
         action_encoder_silu |-> TRUE, encoder |-> <<>>],
     weights |-> [visibility |-> 0, commitment_scheme |-> 0, root |-> 3],
     planner |-> planner, ops |-> ops,
     serialization |-> [serialization_version |-> <<2>>, canonical_json_hash |-> 0]]

Relation == <<2, 3, 1, 3, 1, 3, 1>>
Fixed == Planner(0, <<>>)
Good == Draft(<<1>>, Relation, << Scale(1) >>, Fixed, << Dense >>)

WithOptions ==
    [Draft(<<>>, Relation, << Scale(1) >>, Planner(1, << [Cem EXCEPT !.seed = 1023] >>),
           << [Dense EXCEPT !.activation = << <<>> >>, !.lookup_table = << <<1, 2>> >>] >>)
         EXCEPT !.architecture.encoder = << [hidden |-> 1, image_size |-> 2, patch_size |-> 3] >>]

ManifestDrafts ==
    << Good, Draft(<<1>>, Relation, << Scale(1) >>, Fixed, << Other >>), WithOptions,
       Draft(<<1, 2>>, <<3, 1, 3, 1, 3, 1>>, << Scale(1) >>, Fixed, << Dense >>),
       Draft(<<1>>, Relation, << Scale(1), Scale(2) >>, Fixed, << Dense, Other >>),
       Draft(<<1>>, Relation, << Scale(1) >>, Planner(1, <<>>), <<>>),
       Draft(<<1>>, Relation, << Scale(1) >>, Planner(0, << Cem >>), <<>>),
       Draft(<<1>>, Relation, <<>>, Fixed, <<>>),
       Draft(<<1>>, Relation, << Scale(2) >>, Fixed, << Dense >>),
       Draft(<<1>>, Relation, << Scale(1) >>, Fixed, << Op(<<1>>, <<2, 1>>, <<>>, <<1>>, <<4>>) >>),
       Draft(<<1>>, Relation, << Scale(1) >>, Fixed, << Op(<<1>>, <<1>>, <<1>>, <<>>, <<>>) >>),
       [Good EXCEPT !.manifest_version = <<2>>],
       [Good EXCEPT !.serialization.serialization_version = <<1>>] >>

MCManifestDocuments == MCDocuments \union { <<"manifest", m>> : m \in Range(ManifestDrafts) }

BytesOf == [i \in DOMAIN ManifestDrafts |-> Encode(ManifestModelType, ManifestDrafts[i])]
MCHash(s) ==
    LET at == { i \in DOMAIN BytesOf : BytesOf[i] = s }
    IN  IF at = {} THEN 15 ELSE 15 + Min(at)
=============================================================================
