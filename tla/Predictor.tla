----------------------------- MODULE Predictor ------------------------------
(***************************************************************************)
(* The commitment-bound predictor statement: prove_predictor runs the      *)
(* block prover and binds its model, tables, inputs and output into a      *)
(* public input; verify_predictor recomputes every commitment, audits the  *)
(* block and compares the claimed output.                                  *)
(*                                                                         *)
(* stated is the program the public input is about, prog the one the       *)
(* artifact carries and the audit runs: an honest prover makes them the    *)
(* same.  alter names one header field that is not what the prover sealed, *)
(* changed on the way or before the challenge was drawn: any is drawn.     *)
(***************************************************************************)
EXTENDS BlockAudit, Commitments, FixedPoint

CONSTANT MayAlter     \* bound: the header fields that may be changed, among Fields

VARIABLES stated,     \* the program whose commitments the public input holds
          pi,         \* the public input
          alter,      \* the header field changed in transit, or "none"
          output,     \* the claimed output of the artifact
          outcome     \* none, ok, or the error verify_predictor returned

pvars == <<vars, stated, pi, alter, output, outcome>>

\* The fields of the header that verify_predictor reads: the artifact's version, and
\* of its public input those it compares.  "inputs" is latent_history_commitment.
ReadFields == {"version", "relation", "statement", "model", "quant", "planner", "inputs", "output"}

\* The fields of a public input for other statements, which prove_predictor leaves
\* at None and verify_predictor does not read.
UnreadFields ==
    {"latent_history_public", "goal_latent_commitment", "goal_latent_public",
     "candidate_actions_commitment", "candidate_actions_public", "selected_index", "selected_cost"}

Fields == ReadFields \union UnreadFields

ASSUME MayAlterAssumption == MayAlter \subseteq Fields

PInit ==
    /\ Init
    /\ stated \in Programs
    /\ pi = <<>> /\ alter = "none" /\ output = <<>> /\ outcome = "none"

------------------------------------------------------------------------------
\* The prover: the block prover's steps, then the statement is bound.
Block(step) == step /\ UNCHANGED <<stated, pi, alter, output, outcome>>

Writers == { i \in DOMAIN prog.ops : prog.ops[i].out_buf = prog.output_buf }

None == <<>>

Public(program, out) ==
    [version   |-> "v1", relation |-> "predictor", statement |-> "P0Step",
     model     |-> ModelCommitment(BlockArchitectureCommitment(program.ops), program.binds.weights),
     quant     |-> QuantCommitment(program.scales, program.binds.tables),
     planner   |-> PlannerSentinel,
     inputs    |-> InputsCommitment(program.inputs),
     output    |-> OutputCommitment(out),
     latent_history_public        |-> None,
     goal_latent_commitment       |-> None,
     goal_latent_public           |-> None,
     candidate_actions_commitment |-> None,
     candidate_actions_public     |-> None,
     selected_index               |-> None,
     selected_cost                |-> None]

\* A tensor holds bounded integers only, whoever builds it.
IsTensor(out) == \A i \in DOMAIN out : NewBounded(out[i], out[i], out[i]).err = "ok"

Proved == phase = "prove" /\ Len(claims) = Len(prog.ops)

BindOutput(out) ==
    /\ phase' = "sent" /\ output' = out /\ pi' = Public(stated, out)
    /\ UNCHANGED <<prog, claims, pbufs, forged, pc, bufs, verdict, fooled, stated, alter, outcome>>

\* The claimed output is what the last op writing output_buf claims; no such op,
\* or a value no tensor can hold, ends the proof with an error.
Bindable == Writers # {} /\ IsTensor(claims[Max(Writers)])

Bind ==
    /\ Proved /\ Bindable
    /\ BindOutput(claims[Max(Writers)])

BindFail ==
    /\ Proved /\ ~Bindable
    /\ phase' = "failed"
    /\ UNCHANGED <<prog, claims, pbufs, forged, pc, bufs, verdict, fooled>>
    /\ UNCHANGED <<stated, pi, alter, output, outcome>>

\* A dishonest prover claims another output for the same block.
BindForged(out) == Proved /\ IsTensor(out) /\ BindOutput(out)

\* A digest of something else, a value where there was none, another constant.
Altered(field) ==
    CASE field \in {"model", "quant", "planner", "inputs", "output"} -> Commit32("altered", None)
      [] field \in UnreadFields                                     -> << "some" >>
      [] OTHER                                                      -> "other"

Alter(field) ==
    /\ phase = "sent" /\ alter = "none"
    /\ alter' = field /\ pi' = [pi EXCEPT ![field] = Altered(field)]
    /\ UNCHANGED <<vars, stated, output, outcome>>

------------------------------------------------------------------------------
\* Mutant: the verifier takes the weights in the artifact's order.
RecomputedUnsorted ==
    LET w == prog.binds.weights
        root == MerkleRoot("wnode", [i \in DOMAIN w |-> <<"wleaf", w[i]>>])
    IN  [Public(prog, output) EXCEPT
            !.model = Commit32("model", << BlockArchitectureCommitment(prog.ops), root >>)]

\* What the verifier recomputes from the parts it holds.
Recomputed == Public(prog, output)

\* Mutants: the inputs, the statement kind are not compared.
GateWithoutInputs ==
    IF pi.version # "v1" THEN "UnsupportedArtifactVersion"
    ELSE IF pi.relation # "predictor" THEN "UnsupportedRelation"
    ELSE IF pi.statement # "P0Step" THEN "RelationMismatch"
    ELSE IF pi.model # Recomputed.model THEN "ModelMismatch"
    ELSE IF pi.quant # Recomputed.quant THEN "QuantizationMismatch"
    ELSE IF pi.planner # PlannerSentinel THEN "PlannerMismatch"
    ELSE "ok"

GateWithoutStatement ==
    IF pi.version # "v1" THEN "UnsupportedArtifactVersion"
    ELSE IF pi.relation # "predictor" THEN "UnsupportedRelation"
    ELSE IF pi.model # Recomputed.model THEN "ModelMismatch"
    ELSE IF pi.quant # Recomputed.quant THEN "QuantizationMismatch"
    ELSE IF pi.planner # PlannerSentinel THEN "PlannerMismatch"
    ELSE IF pi.inputs # Recomputed.inputs THEN "InputsMismatch"
    ELSE "ok"

\* The verifier's gate: the checks before the audit, in their order.
GateResult ==
    IF pi.version # "v1" THEN "UnsupportedArtifactVersion"
    ELSE IF pi.relation # "predictor" THEN "UnsupportedRelation"
    ELSE IF pi.statement # "P0Step" THEN "RelationMismatch"
    ELSE IF pi.model # Recomputed.model THEN "ModelMismatch"
    ELSE IF pi.quant # Recomputed.quant THEN "QuantizationMismatch"
    ELSE IF pi.planner # PlannerSentinel THEN "PlannerMismatch"
    ELSE IF pi.inputs # Recomputed.inputs THEN "InputsMismatch"
    ELSE "ok"

Gate ==
    /\ phase = "sent"
    /\ IF GateResult = "ok"
       THEN phase' = "audit" /\ UNCHANGED outcome
       ELSE phase' = "done" /\ outcome' = GateResult
    /\ UNCHANGED <<prog, claims, pbufs, forged, pc, bufs, verdict, fooled>>
    /\ UNCHANGED <<stated, pi, alter, output>>

\* After the audit: the claimed output, then its commitment.
OutputResult ==
    IF verdict # "ok" THEN verdict
    ELSE IF output # bufs[prog.output_buf] THEN "OutputMismatch"
    ELSE IF pi.output # OutputCommitment(bufs[prog.output_buf]) THEN "OutputCommitmentMismatch"
    ELSE "ok"

CheckOutput ==
    /\ phase = "done" /\ outcome = "none"
    /\ outcome' = OutputResult
    /\ UNCHANGED <<vars, stated, pi, alter, output>>

PNext ==
    \/ Block(ProveOp)
    \/ Block(ProveFail)
    \/ \E z \in Claims : Block(ForgeOp(z))
    \/ Bind
    \/ BindFail
    \/ \E z \in Claims : BindForged(z)
    \/ \E f \in MayAlter : Alter(f)
    \/ Gate
    \/ Block(AuditNext)
    \/ Block(Finish)
    \/ CheckOutput

PSpec == PInit /\ [][PNext]_pvars

------------------------------------------------------------------------------
\* What a program computes: its buffers after each op, by the exact kernels.
\* A failing op leaves the buffers as they are, and so does everything after it.
RunsTo(p) ==
    LET run[n \in 0..Len(p.ops)] ==
          IF n = 0 THEN [ok |-> TRUE, bufs |-> Seed(p.inputs)]
          ELSE LET k == Kernel(p.ops[n], run[n - 1].bufs, p.binds)
               IN  IF run[n - 1].ok /\ k.err = "ok"
                   THEN [ok |-> TRUE, bufs |-> Insert(run[n - 1].bufs, p.ops[n].out_buf, k.out)]
                   ELSE [ok |-> FALSE, bufs |-> run[n - 1].bufs]
    IN  run[Len(p.ops)]

Computes(p, out) ==
    LET end == RunsTo(p) IN end.ok /\ p.output_buf \in DOMAIN end.bufs /\ end.bufs[p.output_buf] = out

\* verify_predictor's promise (pwm-verifier lib.rs:1030-1036): accepting means
\* that the committed model ran on the committed inputs, whatever program the
\* artifact carries.
CommittedModelRan == (outcome = "ok" /\ ~fooled) => Computes(stated, output)

\* An artifact made by prove_predictor from what it states is accepted, or
\* refused for the two conditions only the verifier checks; in particular the
\* prover's last writer of output_buf is the verifier's final buffer.
HonestPredictorAccepted ==
    (outcome # "none" /\ stated = prog /\ forged = {} /\ alter = "none"
        /\ Writers # {} /\ output = claims[Max(Writers)])
    => \/ outcome \in {"ok", "AccumulatorRange"}
       \/ outcome = "InvalidShift" /\ ShiftRejected(prog.ops[pc])

\* The header of an accepted artifact is the one that was sealed, in every field
\* that verify_predictor reads; the others may say anything (pwm-verifier lib.rs:1048).
HeaderBound == outcome = "ok" => alter \in UnreadFields \union {"none"}
==============================================================================
