------------------------------ MODULE Schemas ------------------------------
(***************************************************************************)
(* The types that are written and read: the feed-forward artifact with its *)
(* public input, graph, tables and trace, the predictor proof of the demo, *)
(* and the model manifest.  The fields and their order are the schedule of *)
(* the bytes.  The types with a shift take the type that reads it.         *)
(***************************************************************************)
EXTENDS Codec

\* f, g, h read as one field each.
Each(names, t) == [i \in DOMAIN names |-> << names[i], t >>]

StatementType == Enum(5)

PublicInputType == Struct(
    Each(<<"relation_id", "model_commitment", "quantization_commitment", "planner_config_commitment">>, Digest)
    \o << <<"statement_type", StatementType>>,
          <<"latent_history_commitment", Option(Digest)>>,
          <<"latent_history_public", Option(List(M31))>>,
          <<"goal_latent_commitment", Option(Digest)>>,
          <<"goal_latent_public", Option(List(M31))>>,
          <<"candidate_actions_commitment", Option(Digest)>>,
          <<"candidate_actions_public", Option(List(M31))>>,
          <<"claimed_output_commitment", Digest>>,
          <<"selected_index", Option(U32)>>,
          <<"selected_cost", Option(BoundedIntType)>> >>)

LinearIds == Each(<<"op_id", "weight_id">>, U32) \o << <<"bias_id", Option(U32)>> >>
TableIds == Each(<<"op_id", "table_id">>, U32)
Activations == Each(<<"input", "output">>, List(I64))
Clamps == Each(<<"clamp_lo", "clamp_hi">>, I64) \o << <<"rounding", U8>> >>

OpSpecType(shift) == Tagged(<<
    LinearIds \o Each(<<"rows", "cols">>, U32),
    << <<"op_id", U32>>, <<"shift", shift>>, <<"zero_point", I64>> >> \o Clamps,
    TableIds,
    TableIds \o << <<"shift", shift>> >> \o Clamps >>)

OpRecordType(shift) == Tagged(<<
    LinearIds \o Activations,
    << <<"op_id", U32>> >> \o Activations \o << <<"shift", shift>>, <<"zero_point", I64>> >> \o Clamps,
    TableIds \o Activations,
    TableIds \o Activations \o << <<"shift", shift>> >> \o Clamps >>)

GraphSpecType(shift) == Struct(<< <<"ops", List(OpSpecType(shift))>> >>)

ActivationTableType == Struct(<< <<"table_id", U32>>, <<"lo", I64>>, <<"outputs", List(I64)>> >>)

Dtype == Enum(3)
ScaleType == Struct(<< <<"scale_id", U32>>, <<"log2", I32>>, <<"dtype", Dtype>> >>)

AuditArtifactType(shift) == Struct(<<
    <<"artifact_version", U32>>,
    <<"public_input", PublicInputType>>,
    <<"graph", GraphSpecType(shift)>>,
    <<"weights", List(TensorType)>>,
    <<"tables", List(ActivationTableType)>>,
    <<"scales", List(ScaleType)>>,
    <<"trace", List(OpRecordType(shift))>>,
    <<"claimed_output", TensorType>> >>)

PredictorProofType == Struct(Each(<<"inputs", "op_outputs">>, List(List(I64))))

(******************************** the manifest *****************************)
FieldConfigType ==
    Struct(Each(<<"base", "extension", "signed_encoding", "max_abs_value">>, Enum(1)))

Rounding == Enum(2)
OverflowPolicy == Enum(1)
QuantConfigType == Struct(<<
    <<"arithmetic", Enum(1)>>, <<"default_rounding", Rounding>>, <<"overflow_policy", OverflowPolicy>>,
    <<"clamp_policy", Enum(1)>>, <<"activation_tables_commitment", Digest>> >>)

BlockConfigType ==
    Struct(Each(<<"modulation_activation_silu", "ffn_activation_gelu", "positional_embedding_learned">>, Bool))

PredictorConfigType ==
    Struct(Each(<<"depth", "heads", "dim_head", "mlp_dim">>, U32) \o << <<"block", BlockConfigType>> >>)

EncoderConfigType == Struct(Each(<<"hidden", "image_size", "patch_size">>, U32))

ArchitectureType == Struct(<<
    <<"latent_dim", U32>>, <<"history_size", U32>>, <<"predictor", PredictorConfigType>>,
    <<"action_encoder_silu", Bool>>, <<"encoder", Option(EncoderConfigType)>> >>)

WeightsConfigType ==
    Struct(<< <<"visibility", Enum(2)>>, <<"commitment_scheme", Enum(1)>>, <<"root", Digest>> >>)

CemConfigType ==
    Struct(Each(<<"num_samples", "n_steps", "topk", "var_scale_milli">>, U32) \o << <<"seed", U64>> >>)

PlannerConfigType == Struct(<<
    <<"kind", Enum(2)>>, <<"cost", Enum(1)>>, <<"tie_break", Enum(1)>>, <<"horizon", U32>>,
    <<"action_block", U32>>, <<"cem", Option(CemConfigType)>> >>)

OpType == Struct(<<
    <<"id", Text>>, <<"op", Text>>, <<"in_scale_id", U32>>, <<"weight_scale_id", Option(U32)>>,
    <<"acc_scale_id", Option(U32)>>, <<"out_scale_id", U32>>, <<"activation", Option(Text)>>,
    <<"lookup_table", Option(Text)>>, <<"weight_commitment", Option(Digest)>> >>)

SerializationConfigType == Struct(<< <<"serialization_version", Text>>, <<"canonical_json_hash", Digest>> >>)

ManifestModelType == Struct(
    Each(<<"manifest_version", "model_family", "relation_id">>, Text)
    \o << <<"field", FieldConfigType>>, <<"quantization", QuantConfigType>>, <<"scales", List(ScaleType)>>,
          <<"architecture", ArchitectureType>>, <<"weights", WeightsConfigType>>,
          <<"planner", PlannerConfigType>>, <<"ops", List(OpType)>>,
          <<"serialization", SerializationConfigType>> >>)

\* The kinds of document, by the type that reads a shift.
DocumentType(kind, shift) ==
    CASE kind = "artifact"  -> AuditArtifactType(shift)
      [] kind = "predictor" -> PredictorProofType
      [] kind = "manifest"  -> ManifestModelType

Kinds == {"artifact", "predictor", "manifest"}
=============================================================================
