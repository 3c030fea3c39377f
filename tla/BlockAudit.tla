----------------------------- MODULE BlockAudit -----------------------------
(***************************************************************************)
(* Commit-and-audit of a named-buffer block: prove_block fills every op's  *)
(* claimed output, the transcript absorbs the block root and the inputs,   *)
(* and audit_block replays the ops over its own buffer map, drawing one    *)
(* challenge per dense layer (pwm-prover lib.rs, pwm-verifier lib.rs).     *)
(*                                                                         *)
(* The prover may claim anything: ForgeOp stands for a prover that does    *)
(* not run the kernel and goes on from the forged buffer.  The challenges  *)
(* come after every claim, because the block root that seeds them commits  *)
(* every claimed output.                                                   *)
(***************************************************************************)
EXTENDS BlockOps

CONSTANTS Programs,   \* [ops, output_buf, inputs, binds] records
          Claims,     \* the vectors a dishonest prover may claim
          Draws,      \* challenge values that may be drawn per row
          MaxForged   \* bound: claims that may differ from the kernel's

ASSUME ClaimsAssumption == Claims \subseteq Seq(Int) /\ Draws \subseteq FieldElems

\* The Rust types of a program.
ProgramTyped(p) ==
    /\ IsList(p.ops) /\ \A i \in DOMAIN p.ops : OpTyped(p.ops[i])
    /\ IsList(p.inputs) /\ \A i \in DOMAIN p.inputs : p.inputs[i].vals \in Seq(Int)
    /\ IsList(p.binds.weights) /\ IsList(p.binds.tables)
    /\ \A i \in DOMAIN p.binds.tables : p.binds.tables[i].id \in Nat

\* What the exporter guarantees of it: its tensors', a bias covers every row, and
\* clamp bounds are ordered (i64::clamp panics otherwise).
ProgramOK(p) ==
    /\ ProgramTyped(p)
    /\ \A i \in DOMAIN p.binds.weights : TensorOK(p.binds.weights[i])
    /\ \A i \in DOMAIN p.ops : LET op == p.ops[i] IN
          /\ Shifts(op) => op.lo <= op.hi
          /\ (IsLinear(op) /\ Has(p.binds.weights, op.weight) /\ ~BiasMissing(op, p.binds)
                /\ Len(WeightOf(op, p.binds).shape) = 2)
             => Len(Bias(op, p.binds)) >= Rows(WeightOf(op, p.binds))

ASSUME ProgramsAssumption == \A p \in Programs : ProgramOK(p)

VARIABLES prog,       \* the program: skeleton, inputs and bindings
          phase,      \* prove, failed (prove_block returned Err), audit, done
          claims,     \* the claimed output of every op proved so far
          pbufs,      \* the prover's buffer map
          forged,     \* history: ops whose claim is not what the kernel gave
          pc, bufs,   \* the verifier's position and buffer map
          verdict,    \* none, ok, or the error audit_block returned
          fooled      \* history: a wrong dense layer passed by luck

vars == <<prog, phase, claims, pbufs, forged, pc, bufs, verdict, fooled>>

Init ==
    /\ prog \in Programs
    /\ phase = "prove" /\ claims = <<>> /\ pbufs = Seed(prog.inputs) /\ forged = {}
    /\ pc = 1 /\ bufs = Seed(prog.inputs) /\ verdict = "none" /\ fooled = FALSE

------------------------------------------------------------------------------
\* The prover.
Proving == phase = "prove" /\ Len(claims) < Len(prog.ops)

NextOp == prog.ops[Len(claims) + 1]

\* prove_block does not check the shift: past MAX_SHIFT the divisor it uses is
\* any one a build produces.
UsedShifts == 0..MaxShift

Computed == Kernel(NextOp, pbufs, prog.binds)

Claim(z) ==
    /\ claims' = Append(claims, z)
    /\ pbufs' = Insert(pbufs, NextOp.out_buf, z)
    /\ UNCHANGED <<prog, phase, pc, bufs, verdict, fooled>>

ProveOp ==
    /\ Proving /\ Computed.err = "ok"
    /\ IF ~ShiftRejected(NextOp) THEN Claim(Computed.out)
       ELSE \E s \in UsedShifts :
                Claim(Kernel([NextOp EXCEPT !.shift = s], pbufs, prog.binds).out)
    /\ UNCHANGED forged

ProveFail ==
    /\ Proving /\ Computed.err # "ok"
    /\ phase' = "failed"
    /\ UNCHANGED <<prog, claims, pbufs, forged, pc, bufs, verdict, fooled>>

ForgeOp(z) ==
    /\ Proving /\ Cardinality(forged) < MaxForged
    /\ Computed.err = "ok" => z # Computed.out
    /\ Claim(z)
    /\ forged' = forged \union { Len(claims) + 1 }

\* The block root and the inputs are absorbed; no claim changes after this.
Commit ==
    /\ phase = "prove" /\ Len(claims) = Len(prog.ops)
    /\ phase' = "audit"
    /\ UNCHANGED <<prog, claims, pbufs, forged, pc, bufs, verdict, fooled>>

------------------------------------------------------------------------------
\* The verifier.
Auditing == phase = "audit" /\ pc <= Len(prog.ops)

\* One value per row of the weight, when the op gets as far as drawing it.
DrawnBy(op, vals) ==
    IF IsLinear(op) /\ Has(prog.binds.weights, op.weight)
    THEN [1..Rows(WeightOf(op, prog.binds)) -> vals]
    ELSE { <<>> }

Audit(op, r) == AuditOp(op, claims[pc], bufs, prog.binds, r)

\* A wrong claim passed, but another challenge would have caught it.
Lucky(op) ==
    /\ claims[pc] # Kernel(op, bufs, prog.binds).out
    /\ \E r \in DrawnBy(op, FieldElems) : Audit(op, r) # "ok"

AuditStep(r) ==
    /\ Auditing
    /\ LET op == prog.ops[pc] IN
       /\ r \in DrawnBy(op, Draws)
       /\ Audit(op, r) = "ok"
       /\ bufs' = Insert(bufs, op.out_buf, claims[pc])
       /\ fooled' = (fooled \/ Lucky(op))
    /\ pc' = pc + 1
    /\ UNCHANGED <<prog, phase, claims, pbufs, forged, verdict>>

AuditReject(r) ==
    /\ Auditing
    /\ LET op == prog.ops[pc] IN
       /\ r \in DrawnBy(op, Draws)
       /\ Audit(op, r) # "ok"
       /\ verdict' = Audit(op, r)
    /\ phase' = "done"
    /\ UNCHANGED <<prog, claims, pbufs, forged, pc, bufs, fooled>>

\* Mutant: the walk stops one op short.
FinishEarly ==
    /\ phase = "audit" /\ pc >= Len(prog.ops)
    /\ verdict' = IF prog.output_buf \in DOMAIN bufs THEN "ok" ELSE "MissingBuffer"
    /\ phase' = "done"
    /\ UNCHANGED <<prog, claims, pbufs, forged, pc, bufs, fooled>>

\* The walk is over: the output buffer is read.
Finish ==
    /\ phase = "audit" /\ pc > Len(prog.ops)
    /\ verdict' = IF prog.output_buf \in DOMAIN bufs THEN "ok" ELSE "MissingBuffer"
    /\ phase' = "done"
    /\ UNCHANGED <<prog, claims, pbufs, forged, pc, bufs, fooled>>

AuditNext ==
    phase = "audit" /\ pc <= Len(prog.ops) /\
    \E r \in DrawnBy(prog.ops[pc], Draws) : AuditStep(r) \/ AuditReject(r)

Next ==
    \/ ProveOp
    \/ ProveFail
    \/ \E z \in Claims : ForgeOp(z)
    \/ Commit
    \/ AuditNext
    \/ Finish

Spec == Init /\ [][Next]_vars

------------------------------------------------------------------------------
\* Soundness (lib.rs of pwm-verifier, verify_block): an accepted block is what
\* the trusted evaluator computes.  A wrong claim is either rejected or a dense
\* layer that another challenge would have caught.
Eval == INSTANCE BlockEval WITH
            lucky  <- fooled,
            result <- IF verdict = "none" THEN "none"
                      ELSE IF verdict = "ok" THEN "accepted" ELSE "rejected"

Evaluates == Eval!Spec

\* A forgery anywhere in the prover's run is caught when the block is audited,
\* though every later claim is computed honestly from the forged buffer.
ForgeryCaught == (verdict = "ok" /\ forged # {}) => fooled

\* The prover's and the verifier's rules agree: an honest proof is accepted,
\* or refused for one of the three conditions prove_block does not check.
HonestAccepted ==
    (phase = "done" /\ forged = {}) =>
        \/ verdict = "ok"
        \/ verdict = "AccumulatorRange"
        \/ verdict = "InvalidShift" /\ ShiftRejected(prog.ops[pc])
        \/ verdict = "MissingBuffer" /\ pc > Len(prog.ops)
==============================================================================
