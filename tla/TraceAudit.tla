----------------------------- MODULE TraceAudit -----------------------------
(***************************************************************************)
(* The feed-forward statement: Model::run (pwm-export reference.rs) records *)
(* a trace of ops, prove_feedforward binds it, and verify_with             *)
(* (pwm-verifier lib.rs) recomputes the commitments, checks the trace      *)
(* against the committed graph and walks it, threading the activation from *)
(* record to record.  The dense layers are checked under one of four       *)
(* sources of challenges.                                                  *)
(*                                                                         *)
(* A graph op is a BlockOps op that reads and writes one buffer, 0; a      *)
(* dense op also states its rows and cols.  A record is [op, input,        *)
(* output].                                                                *)
(***************************************************************************)
EXTENDS Commitments, FixedPoint

CONSTANTS Models,     \* [layers, tables, scales] records
          Inputs,     \* input vectors
          Records,    \* records a dishonest prover may put in the trace
          Outputs,    \* outputs a dishonest prover may claim
          Draws,      \* challenge values that may be drawn per row
          Samples,    \* sample sizes verify_sampled may be called with
          MaxPicks,   \* turns of verify_sampled's loop at most (100 000)
          Secrets,    \* the lengths of the secret vectors verify_interactive may get
          MaxFaults   \* bound: dishonest choices in one artifact

ASSUME DrawsAssumption == Draws \subseteq FieldElems /\ MaxPicks \in Nat

\* The Rust types, and what the exporter guarantees of a layer: its tensors', an op
\* of each kind in its place, ordered clamp bounds, and a bias that covers every row.
OptionOf(opt) == IsList(opt) /\ Len(opt) <= 1

ExactOK(op, kind) ==
    OpTyped(op) /\ op.kind = kind /\ op.args = <<0>> /\ (Shifts(op) => op.lo <= op.hi)

LayerOK(layer) ==
    /\ OptionOf(layer.ln) /\ OptionOf(layer.bias) /\ OptionOf(layer.act)
    /\ \A op \in Range(layer.ln) : ExactOK(op, "LayerNorm")
    /\ ExactOK(layer.requant, "Requant")
    /\ \A op \in Range(layer.act) : ExactOK(op, "Activation")
    /\ \A w \in { layer.weight } \union Range(layer.bias) : TensorOK(w)
    /\ \A b \in Range(layer.bias) :
          Len(layer.weight.shape) = 2 => Len(b.cells) >= Rows(layer.weight)

ModelOK(m) ==
    /\ IsList(m.layers) /\ \A layer \in Range(m.layers) : LayerOK(layer)
    /\ IsList(m.tables) /\ \A t \in Range(m.tables) : t.id \in Nat

ASSUME ModelsAssumption == \A m \in Models : ModelOK(m)

ASSUME VectorsAssumption == Inputs \union Outputs \subseteq Seq(Int)

VARIABLES model,          \* the model that runs, and that the artifact carries
          stated,         \* the model whose commitments the public input holds
          input,
          phase,          \* run, failed, sealed, pick, picked, walk, done
          trace, forged,  \* the records, and the position that was forged
          claimed, pi,    \* the claimed output and the public input
          alter,          \* the public-input field changed in transit, or "none"
          mode,           \* the source of challenges
          cursor,         \* dense records met so far, the cursor of the source
          pos, current,   \* the verifier's position and running activation
          audited,        \* history: positions whose record was checked
          fooled,         \* history: a wrong dense record passed by luck
          verdict

made  == <<model, stated, input, trace, forged, claimed>>
check == <<mode, cursor, pos, current, audited, fooled>>
vars  == <<made, phase, pi, alter, check, verdict>>

(********************************* the model *******************************)
\* A layer is [ln, weight, bias, requant, act]: ln, bias and act are sequences of
\* at most one op or tensor.  Its ops, each with the tensors that it owns:
DenseOp(layer) ==
    [kind |-> "Linear", args |-> <<0>>, out_buf |-> 0, weight |-> layer.weight.id,
     bias |-> [i \in DOMAIN layer.bias |-> layer.bias[i].id],
     rows |-> Head(layer.weight.shape), cols |-> Last(layer.weight.shape)]

LayerTasks(layer) ==
    LET ops == layer.ln \o << DenseOp(layer), layer.requant >> \o layer.act
    IN  [i \in DOMAIN ops |-> [op |-> ops[i], own |-> << layer.weight >> \o layer.bias]]

Tasks(m) == FlattenSeq([i \in DOMAIN m.layers |-> LayerTasks(m.layers[i])])

Graph(m) == LET tasks == Tasks(m) IN [i \in DOMAIN tasks |-> tasks[i].op]

WeightTensors(m) ==
    FlattenSeq([i \in DOMAIN m.layers |-> << m.layers[i].weight >> \o m.layers[i].bias])

\* What the verifier looks tensors and tables up in.
Binds(m) == [weights |-> WeightTensors(m), tables |-> m.tables]

Apply(op, in, binds) == Kernel(op, [b \in {0} |-> in], binds)

\* One op of Model::run, which uses the layer's own tensors.
RunTask(m, i, in) == Apply(Tasks(m)[i].op, in, [weights |-> Tasks(m)[i].own, tables |-> m.tables])

Rec(op, in, out) == [op |-> op, input |-> in, output |-> out]

ASSUME RecordsAssumption ==
    \A rec \in Records :
        rec = Rec(rec.op, rec.input, rec.output) /\ rec.input \in Seq(Int) /\ rec.output \in Seq(Int)

\* What follows the records so far: the last output, or the model's input.
Tip == IF trace = <<>> THEN input ELSE Last(trace).output

Header(m, in, out) ==
    [version |-> "v1", relation |-> "mlp", statement |-> "P0Step",
     model   |-> ModelCommitment(GraphCommitment(Graph(m)), WeightTensors(m)),
     quant   |-> QuantCommitment(m.scales, m.tables),
     planner |-> PlannerSentinel,
     history |-> << [i \in DOMAIN in |-> Encode(in[i])] >>,
     output  |-> OutputCommitment(out)]

\* The dishonest choices made so far.
Count(choice) == IF choice THEN 1 ELSE 0
Faults ==
    Count(stated # model) + Count(forged # {}) + Count(phase # "run" /\ claimed # Tip)
        + Count(alter # "none")

Init ==
    /\ model \in Models /\ stated \in Models /\ input \in Inputs
    /\ phase = "run" /\ trace = <<>> /\ forged = {}
    /\ claimed = <<>> /\ pi = <<>> /\ alter = "none"
    /\ mode = [kind |-> "none"] /\ cursor = 0
    /\ pos = 1 /\ current = <<>> /\ audited = {} /\ fooled = FALSE /\ verdict = "none"

------------------------------------------------------------------------------
\* The prover.
Running == phase = "run" /\ Len(trace) < Len(Graph(model))

RunOp ==
    /\ Running
    /\ LET i == Len(trace) + 1
           k == RunTask(model, i, Tip)
       IN  IF k.err = "ok"
           THEN trace' = Append(trace, Rec(Graph(model)[i], Tip, k.out)) /\ UNCHANGED phase
           ELSE phase' = "failed" /\ UNCHANGED trace
    /\ UNCHANGED <<model, stated, input, forged, claimed, pi, alter, check, verdict>>

\* A dishonest prover records something else, once, and goes on from there.
ForgeRecord(rec) ==
    /\ Running /\ forged = {} /\ Faults < MaxFaults
    /\ LET i == Len(trace) + 1
           k == RunTask(model, i, Tip)
       IN  /\ k.err = "ok" => rec # Rec(Graph(model)[i], Tip, k.out)
           /\ forged' = {i}
    /\ trace' = Append(trace, rec)
    /\ UNCHANGED <<model, stated, input, phase, claimed, pi, alter, check, verdict>>

\* A value a tensor or the public history can hold.
Encodable(vec) == \A i \in DOMAIN vec : InSignedRange(vec[i])

\* The output is bound as a tensor and the history as field elements.
SealAs(out) ==
    /\ phase = "run" /\ (Len(trace) = Len(Graph(model)) \/ forged # {})
    /\ IF Encodable(out) /\ Encodable(input)
       THEN phase' = "sealed" /\ claimed' = out /\ pi' = Header(stated, input, out)
       ELSE phase' = "failed" /\ UNCHANGED <<claimed, pi>>
    /\ UNCHANGED <<model, stated, input, trace, forged, alter, check, verdict>>

Seal == SealAs(Tip)
SealForged(out) == Faults < MaxFaults /\ Encodable(out) /\ SealAs(out)

\* One field of the public input is changed on the way.
Altered(field) ==
    CASE field = "history" -> { <<>> } \union { << [i \in DOMAIN x |-> Encode(x[i])] >> : x \in Inputs }
      [] field \in {"planner", "output"} -> { Commit32("altered", <<>>) }
      [] OTHER -> { "other" }

Alter(field) ==
    /\ phase = "sealed" /\ alter = "none" /\ Faults < MaxFaults
    /\ alter' = field
    /\ \E value \in Altered(field) \ { pi[field] } : pi' = [pi EXCEPT ![field] = value]
    /\ UNCHANGED <<made, phase, check, verdict>>

Fields == {"version", "relation", "statement", "planner", "history", "output"}

------------------------------------------------------------------------------
\* The verifier.
DenseIn(tr) == { i \in DOMAIN tr : IsLinear(tr[i].op) }

Smaller(a, b) == IF a <= b THEN a ELSE b

WeightRows(id) == Rows(Find(WeightTensors(model), id))

\* verify_planning_batched: one vector per weight, drawn from every candidate's
\* trace root and shared by all of them.
SharedVectors ==
    LET ids == { model.layers[i].weight.id : i \in DOMAIN model.layers }
        tall == Max({0} \union { WeightRows(id) : id \in ids })
    IN  { f \in [ids -> UNION { [1..n -> Draws] : n \in 0..tall }] :
             \A id \in ids : DOMAIN f[id] = 1..WeightRows(id) }

\* verify, verify_interactive, verify_sampled, and one candidate's view of
\* verify_planning_batched.  verify_sampled wants a sample no larger than the number
\* of dense records, which it counts before anything is checked.
ChallengeModes ==
    { [kind |-> "Fiat"] }
    \union { [kind |-> "Secret", lengths |-> s] : s \in Secrets }
    \union { [kind |-> "Sampled", want |-> Smaller(n, Cardinality(DenseIn(trace))), sample |-> {},
              picks |-> 0] : n \in Samples }
    \union { [kind |-> "Batched", rmap |-> f] : f \in SharedVectors }

\* check_graph_conformance: same number of ops, and each record the op's own.
ConformsAt(i) ==
    /\ trace[i].op = Graph(model)[i]
    /\ IsLinear(trace[i].op) => /\ Len(trace[i].input) = trace[i].op.cols
                                /\ Len(trace[i].output) = trace[i].op.rows

Conforms == Len(trace) = Len(Graph(model)) /\ \A i \in DOMAIN trace : ConformsAt(i)

\* Mutant: the field elements are compared as they stand.
HistoryRaw == pi.history[1]

\* decode_public_input.
History == [i \in DOMAIN pi.history[1] |-> Decode(pi.history[1][i])]

\* Mutant: the artifact's tables and scales are not compared with the commitment.
GateWithoutQuant ==
    LET own == Header(model, input, claimed) IN
    IF pi.version # "v1" THEN "UnsupportedArtifactVersion"
    ELSE IF pi.relation # "mlp" THEN "UnsupportedRelation"
    ELSE IF pi.statement # "P0Step" THEN "RelationMismatch"
    ELSE IF pi.model # own.model THEN "ModelMismatch"
    ELSE IF pi.planner # PlannerSentinel THEN "PlannerMismatch"
    ELSE IF ~Conforms THEN "GraphMismatch"
    ELSE IF pi.history = <<>> THEN "PublicInputMismatch"
    ELSE IF trace # <<>> /\ Head(trace).input # History THEN "PublicInputMismatch"
    ELSE "ok"

\* The checks before the walk, in their order, against the artifact's own parts.
GateResult ==
    LET own == Header(model, input, claimed) IN
    IF pi.version # "v1" THEN "UnsupportedArtifactVersion"
    ELSE IF pi.relation # "mlp" THEN "UnsupportedRelation"
    ELSE IF pi.statement # "P0Step" THEN "RelationMismatch"
    ELSE IF pi.model # own.model THEN "ModelMismatch"
    ELSE IF pi.quant # own.quant THEN "QuantizationMismatch"
    ELSE IF pi.planner # PlannerSentinel THEN "PlannerMismatch"
    ELSE IF ~Conforms THEN "GraphMismatch"
    ELSE IF pi.history = <<>> THEN "PublicInputMismatch"
    ELSE IF trace # <<>> /\ Head(trace).input # History THEN "PublicInputMismatch"
    ELSE "ok"

\* The batched verifier reads every weight before it looks at a candidate.
Opened(m) ==
    IF m.kind = "Batched" /\ \E i \in DOMAIN model.layers : Len(model.layers[i].weight.shape) # 2
    THEN "MissingBinding"
    ELSE GateResult

Open(m) ==
    /\ mode' = m
    /\ IF Opened(m) = "ok"
       THEN phase' = "walk" /\ current' = History /\ UNCHANGED verdict
       ELSE phase' = "done" /\ verdict' = Opened(m) /\ UNCHANGED current
    /\ UNCHANGED <<made, pi, alter, cursor, pos, audited, fooled>>

Start(m) == phase = "sealed" /\ m.kind # "Sampled" /\ Open(m)

StartSampled(m) ==
    /\ phase = "sealed" /\ m.kind = "Sampled"
    /\ phase' = "pick" /\ mode' = m
    /\ UNCHANGED <<made, pi, alter, cursor, pos, current, audited, fooled, verdict>>

Picking == phase = "pick" /\ Cardinality(mode.sample) < mode.want /\ mode.picks < MaxPicks

\* One turn of the loop: the transcript may draw an index that it drew before.
Pick(i) ==
    /\ Picking
    /\ mode' = [mode EXCEPT !.sample = @ \union {i}, !.picks = @ + 1]
    /\ UNCHANGED <<made, phase, pi, alter, cursor, pos, current, audited, fooled, verdict>>

Picked ==
    /\ phase' = "picked"
    /\ UNCHANGED <<made, pi, alter, mode, cursor, pos, current, audited, fooled, verdict>>

\* Mutant: the loop ends with a full sample only.
EndPicksFull == phase = "pick" /\ Cardinality(mode.sample) = mode.want /\ Picked

\* The sample is full or the guard has run out.
EndPicks == phase = "pick" /\ ~Picking /\ Picked

OpenSampled == phase = "picked" /\ Open([mode EXCEPT !.picks = 0])

DrawnFor(op, vals) ==
    IF ~IsLinear(op) THEN { <<>> }
    ELSE IF mode.kind = "Batched" THEN { mode.rmap[op.weight] }
    ELSE [1..WeightRows(op.weight) -> vals]

\* Mutant: the cursor counts from one.
SkippedFromOne(op) == IsLinear(op) /\ mode.kind = "Sampled" /\ cursor + 1 \notin mode.sample

\* linear_step: an unsampled record is trusted, and a secret vector has to be there.
Skipped(op) == IsLinear(op) /\ mode.kind = "Sampled" /\ cursor \notin mode.sample

SecretMissing(op) ==
    /\ IsLinear(op) /\ mode.kind = "Secret"
    /\ \/ cursor >= Len(mode.lengths)
       \/ mode.lengths[cursor + 1] # WeightRows(op.weight)

\* check_linear.
CheckLinear(rec, r) ==
    LET B == Binds(model)
        w == WeightOf(rec.op, B)
    IN  IF Len(w.shape) # 2 THEN "MissingBinding"
        ELSE IF Len(rec.output) # Rows(w) \/ Len(rec.input) # Cols(w) THEN "FreivaldsCheckFailed"
        ELSE IF ~RangeGuard(Cols(w), rec.input, Bias(rec.op, B), rec.output) THEN "AccumulatorRange"
        ELSE IF ~CheckLinearBiased(PrecomputeV(r, w), rec.input, Bias(rec.op, B), r, rec.output)
             THEN "FreivaldsCheckFailed"
        ELSE "ok"

\* check_requant, check_activation and check_layernorm run the audit of the same
\* op in a block, and report a mismatch under their own code.
CheckExact(rec) ==
    LET e == AuditExact(rec.op, rec.output, [b \in {0} |-> rec.input], Binds(model))
    IN  IF e = "BlockOpMismatch" THEN "ExactReplayMismatch" ELSE e

\* Mutant: exact records are left out of the sample as well.
CheckRecordSampled(rec, r) ==
    IF rec.input # current THEN "WiringMismatch"
    ELSE IF mode.kind = "Sampled" /\ cursor \notin mode.sample THEN "ok"
    ELSE IF ~IsLinear(rec.op) THEN CheckExact(rec)
    ELSE IF SecretMissing(rec.op) THEN "FreivaldsCheckFailed"
    ELSE CheckLinear(rec, r)

CheckRecord(rec, r) ==
    IF rec.input # current THEN "WiringMismatch"
    ELSE IF ~IsLinear(rec.op) THEN CheckExact(rec)
    ELSE IF Skipped(rec.op) THEN "ok"
    ELSE IF SecretMissing(rec.op) THEN "FreivaldsCheckFailed"
    ELSE CheckLinear(rec, r)

\* A wrong record passed, but other challenges would have caught it.
Wrong(rec) == rec.output # Apply(rec.op, rec.input, Binds(model)).out

Lucky(rec) ==
    /\ IsLinear(rec.op) /\ ~Skipped(rec.op) /\ Wrong(rec)
    /\ \E r \in [1..WeightRows(rec.op.weight) -> FieldElems] : CheckLinear(rec, r) # "ok"

Walk(r) ==
    LET rec == trace[pos] IN
    /\ IF CheckRecord(rec, r) = "ok"
       THEN /\ current' = rec.output /\ pos' = pos + 1
            /\ cursor' = IF IsLinear(rec.op) THEN cursor + 1 ELSE cursor
            /\ audited' = IF Skipped(rec.op) THEN audited ELSE audited \union {pos}
            /\ fooled' = (fooled \/ Lucky(rec))
            /\ UNCHANGED <<phase, verdict>>
       ELSE /\ phase' = "done" /\ verdict' = CheckRecord(rec, r)
            /\ UNCHANGED <<current, pos, cursor, audited, fooled>>
    /\ UNCHANGED <<made, pi, alter, mode>>

WalkNext ==
    /\ phase = "walk" /\ pos <= Len(trace)
    /\ \E r \in DrawnFor(trace[pos].op, Draws) : Walk(r)

\* The computed output must be the claimed one, and the committed one.
FinishWalk ==
    /\ phase = "walk" /\ pos > Len(trace)
    /\ phase' = "done"
    /\ verdict' = IF claimed # current THEN "OutputMismatch"
                  ELSE IF pi.output # OutputCommitment(current) THEN "OutputCommitmentMismatch"
                  ELSE "ok"
    /\ UNCHANGED <<made, pi, alter, check>>

PickNext ==
    \/ \E i \in 0..(Cardinality(DenseIn(trace)) - 1) : Pick(i)
    \/ EndPicks

Next ==
    \/ RunOp
    \/ \E rec \in Records : ForgeRecord(rec)
    \/ Seal
    \/ \E out \in Outputs : SealForged(out)
    \/ \E f \in Fields : Alter(f)
    \/ \E m \in ChallengeModes : Start(m) \/ StartSampled(m)
    \/ PickNext
    \/ OpenSampled
    \/ WalkNext
    \/ FinishWalk

\* The loop runs on: it waits for nobody.
Spec == Init /\ [][Next]_vars /\ WF_vars(PickNext)

------------------------------------------------------------------------------
\* The output of Model::run, as a sequence of at most one vector.
RunOf(m, in) ==
    LET acts[n \in 0..Len(Graph(m))] ==
            IF n = 0 THEN << in >>
            ELSE IF acts[n - 1] = <<>> THEN <<>>
            ELSE LET k == RunTask(m, n, acts[n - 1][1]) IN IF k.err = "ok" THEN << k.out >> ELSE <<>>
    IN  acts[Len(Graph(m))]

\* Model::run reads the layer's own tensors and the verifier looks them up by id.
OwnIds(m) ==
    \A i \in DOMAIN Tasks(m) : \A t \in DOMAIN Tasks(m)[i].own :
        LET own == Tasks(m)[i].own IN Find(WeightTensors(m), own[t].id) = own[t]

\* The statement of verify (pwm-verifier lib.rs): an accepted artifact claims what
\* every model with the committed architecture, weights and tables computes from
\* the public history, unless a dense record was lucky or was left out of the sample.
CommittedModelRan ==
    (verdict = "ok" /\ ~fooled /\ audited = DOMAIN trace) =>
        \A m \in Models :
            (/\ OwnIds(m)
             /\ Header(m, <<>>, <<>>).model = pi.model
             /\ Header(m, <<>>, <<>>).quant = pi.quant)
            => RunOf(m, History) = << claimed >>

\* No forged record survives a check: what is accepted is luck, or a dense record
\* that verify_sampled left out, and no exact op is ever left out.  A trace forged
\* from its first input on passes when the public history says that input.
ForgeryCaught ==
    (verdict = "ok" /\ forged # {} /\ ~fooled /\ OwnIds(model) /\ History = input) =>
        forged \cap audited = {} /\ forged \subseteq DenseIn(trace)

\* The honest artifact is accepted under every source of challenges, unless the
\* operand bound refuses it, a shift is out of range, the secret vectors do not
\* fit, or an id names two tensors.
HonestAccepted ==
    (phase = "done" /\ forged = {} /\ alter = "none" /\ stated = model /\ claimed = Tip
        /\ OwnIds(model)) =>
        \/ verdict \in {"ok", "AccumulatorRange"}
        \/ verdict = "InvalidShift" /\ ShiftRejected(trace[pos].op)
        \/ verdict = "FreivaldsCheckFailed" /\ SecretMissing(trace[pos].op)

\* verify_sampled returns the number of dense ops it checked.
CoverageReported ==
    (verdict = "ok" /\ mode.kind = "Sampled") =>
        Cardinality(audited \cap DenseIn(trace)) = Cardinality(mode.sample)

\* A call of verify_sampled gets past its picks, whatever the transcript draws: the
\* guard ends the loop over a sample that never fills (lib.rs, verify_sampled).
PickingEnds == phase = "pick" ~> phase = "picked"
=============================================================================
