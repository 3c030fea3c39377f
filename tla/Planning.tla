------------------------------ MODULE Planning ------------------------------
(***************************************************************************)
(* Fixed-candidate planning: prove_planning (pwm-prover) runs the model on *)
(* every candidate, scores each output against the goal and selects the    *)
(* first minimum; verify_planning (pwm-verifier) checks every one-step     *)
(* proof, recomputes every cost and checks the selection (pwm-core         *)
(* planning.rs).  BatchedPlanning adds verify_planning_batched.            *)
(*                                                                         *)
(* A dishonest prover may put any artifact, cost and selection in the      *)
(* proof.  Indices into the proof count from 0, as in the code.            *)
(***************************************************************************)
EXTENDS StepProofs, Sums

CONSTANTS CostMax,    \* i64::MAX, the largest cost
          Requests,   \* the candidate inputs a caller may ask for
          Goals,      \* goal latents
          Forged,     \* artifacts a dishonest prover may send
          Costs,      \* costs it may claim
          MaxSent     \* bound: candidates in a dishonest proof

ASSUME PlanningAssumption ==
    /\ CostMax \in Nat /\ Costs \subseteq Int /\ MaxSent \in Nat
    /\ Requests \subseteq Seq(Seq(Int)) /\ Goals \subseteq Seq(Int) /\ Forged \subseteq Artifacts

VARIABLES model, wanted, goal,   \* what prove_planning is called with
          phase,                 \* prove, failed, check, done
          candidates, costs,     \* the proof
          index, cost,           \* its selection
          honest,                \* history: the proof is prove_planning's
          pos,                   \* candidates the verifier has accepted
          verdict

call  == <<model, wanted, goal>>
proof == <<candidates, costs, index, cost>>
vars  == <<call, phase, proof, honest, pos, verdict>>

(********************************* planning.rs *****************************)
SquaredDistance(pred, target) ==
    SumTo([j \in 1..ZipLen(pred, target) |-> (pred[j] - target[j]) * (pred[j] - target[j])],
          ZipLen(pred, target))

\* mse_cost: None when the exact cost does not fit.
CostFits(pred, target) == SquaredDistance(pred, target) <= CostMax

\* Mutant: the last of equal costs is kept.
ArgMinLast(cs) ==
    LET best[n \in 1..Len(cs)] ==
            IF n = 1 THEN 1 ELSE IF cs[n] > cs[best[n - 1]] THEN best[n - 1] ELSE n
    IN  best[Len(cs)]

\* argmin: a later cost replaces the best only when it is strictly smaller.
ArgMin(cs) ==
    LET best[n \in 1..Len(cs)] ==
            IF n = 1 THEN 1 ELSE IF cs[n] >= cs[best[n - 1]] THEN best[n - 1] ELSE n
    IN  best[Len(cs)]

\* Mutant: an earlier candidate of the same cost is not looked for.
ArgminNotFirst(cs, i, c) == i < Len(cs) /\ cs[i + 1] = c /\ \A j \in DOMAIN cs : cs[j] >= c

\* verify_argmin.
ArgminVerified(cs, i, c) ==
    /\ i < Len(cs) /\ cs[i + 1] = c
    /\ \A j \in DOMAIN cs : cs[j] >= c
    /\ \A j \in 1..i : cs[j] # c

Init ==
    /\ model \in Models /\ wanted \in Requests /\ goal \in Goals
    /\ phase = "prove" /\ candidates = <<>> /\ costs = <<>> /\ index = 0 /\ cost = 0
    /\ honest = TRUE /\ pos = 0 /\ verdict = "none"

------------------------------------------------------------------------------
\* The prover.
NextInput == wanted[Len(candidates) + 1]
Proving == phase = "prove" /\ honest /\ Len(candidates) < Len(wanted)

\* The candidate's run fails, or its cost does not fit.
CandidateFails ==
    LET ran == Predicted(model, NextInput) IN \A i \in DOMAIN ran : ~CostFits(ran[i], goal)

ProveCandidate ==
    /\ Proving /\ ~CandidateFails
    /\ LET out == Head(Predicted(model, NextInput)) IN
       /\ candidates' = Append(candidates, Artifact(model, NextInput, out))
       /\ costs' = Append(costs, SquaredDistance(out, goal))
    /\ UNCHANGED <<call, phase, index, cost, honest, pos, verdict>>

ProveFail ==
    /\ phase = "prove" /\ honest
    /\ wanted = <<>> \/ (Len(candidates) < Len(wanted) /\ CandidateFails)
    /\ phase' = "failed"
    /\ UNCHANGED <<call, proof, honest, pos, verdict>>

Select ==
    /\ phase = "prove" /\ honest /\ wanted # <<>> /\ Len(candidates) = Len(wanted)
    /\ index' = ArgMin(costs) - 1 /\ cost' = costs[ArgMin(costs)]
    /\ phase' = "check"
    /\ UNCHANGED <<call, candidates, costs, honest, pos, verdict>>

\* A dishonest prover adds any artifact with at most one cost, then selects at will.
ForgeCandidate(a, cs) ==
    /\ phase = "prove" /\ Len(candidates) < MaxSent
    /\ candidates' = Append(candidates, a) /\ costs' = costs \o cs
    /\ honest' = FALSE
    /\ UNCHANGED <<call, phase, index, cost, pos, verdict>>

ForgeSelection(i, c) ==
    /\ phase = "prove"
    /\ index' = i /\ cost' = c /\ honest' = FALSE /\ phase' = "check"
    /\ UNCHANGED <<call, candidates, costs, pos, verdict>>

------------------------------------------------------------------------------
\* The verifier.
\* Mutant: the verdict is recorded and the loop goes on.
ReturnLater(v) ==
    /\ verdict' = v
    /\ UNCHANGED <<call, phase, proof, honest, pos>>

Return(v) ==
    /\ phase' = "done" /\ verdict' = v
    /\ UNCHANGED <<call, proof, honest, pos>>

GateFails == candidates = <<>> \/ Len(costs) # Len(candidates)

Reject == /\ phase = "check" /\ pos = 0 /\ GateFails
          /\ Return(IF candidates = <<>> THEN "NoCandidates" ELSE "ArgminViolation")

Checking == phase = "check" /\ ~GateFails /\ pos < Len(candidates)

CostMatches(a, c) ==
    /\ Len(a.output) = Len(goal)
    /\ CostFits(a.output, goal) /\ SquaredDistance(a.output, goal) = c

CheckCandidate ==
    /\ Checking
    /\ Verified(candidates[pos + 1]) /\ CostMatches(candidates[pos + 1], costs[pos + 1])
    /\ pos' = pos + 1
    /\ UNCHANGED <<call, phase, proof, honest, verdict>>

RejectCandidate ==
    /\ Checking
    /\ \/ ~Verified(candidates[pos + 1]) /\ Return("Candidate")
       \/ /\ Verified(candidates[pos + 1])
          /\ ~CostMatches(candidates[pos + 1], costs[pos + 1])
          /\ Return("CostMismatch")

CheckSelection ==
    /\ phase = "check" /\ ~GateFails /\ pos = Len(candidates)
    /\ Return(IF ArgminVerified(costs, index, cost) THEN "ok" ELSE "ArgminViolation")

Next ==
    \/ ProveCandidate
    \/ ProveFail
    \/ Select
    \/ \E a \in Forged, cs \in { <<>> } \union { <<c>> : c \in Costs } : ForgeCandidate(a, cs)
    \/ \E i \in 0..MaxSent, c \in Costs : ForgeSelection(i, c)
    \/ Reject
    \/ CheckCandidate
    \/ RejectCandidate
    \/ CheckSelection

Spec == Init /\ [][Next]_vars

------------------------------------------------------------------------------
Verdicts == { "none", "ok", "NoCandidates", "ArgminViolation", "Candidate", "CostMismatch" }

\* The proof holds artifacts, integers and an index, and the verifier has a
\* verdict exactly when it is done.
TypeOK ==
    /\ model \in Models /\ wanted \in Requests /\ goal \in Goals
    /\ phase \in {"prove", "failed", "check", "done"}
    /\ candidates \in Seq(Artifacts) /\ costs \in Seq(Int)
    /\ index \in Nat /\ cost \in Int
    /\ honest \in BOOLEAN /\ pos \in 0..Len(candidates)
    /\ verdict \in Verdicts /\ (verdict # "none" <=> phase = "done")

\* What a candidate costs: the distance of what its model computes to the goal.
TrueCost(a) == SquaredDistance(Head(Predicted(a.model, a.input)), goal)

\* specs of verify_planning: an accepted plan selects the first of the candidates
\* of least cost, where every candidate counts with the cost of what its model
\* really computes, and that cost did not overflow.
SelectionSound ==
    verdict = "ok" =>
        /\ index < Len(candidates) /\ cost = TrueCost(candidates[index + 1]) /\ cost <= CostMax
        /\ \A j \in DOMAIN candidates :
              /\ TrueCost(candidates[j]) >= cost
              /\ j <= index => TrueCost(candidates[j]) > cost

\* prove_planning's own proof is accepted, unless the goal has another length
\* than an output, which only the verifier looks at.
HonestPlanAccepted ==
    (phase = "done" /\ honest) =>
        \/ verdict = "ok"
        \/ verdict = "CostMismatch" /\ Len(candidates[pos + 1].output) # Len(goal)
=============================================================================
