--------------------------- MODULE BatchedPlanning ---------------------------
(***************************************************************************)
(* Planning, with verify_planning_batched (pwm-verifier lib.rs) called on  *)
(* the proof that verify_planning has answered.  The batched verifier      *)
(* prepares every dense weight of the first candidate once and checks all  *)
(* candidates with what it prepared, so it first makes sure that they      *)
(* share one model, and calls verify_planning when they do not.  What it   *)
(* prepares is the first candidate's model here; the challenges it shares  *)
(* are the Batched source of TraceAudit.                                   *)
(***************************************************************************)
EXTENDS Planning

CONSTANT Unbound   \* models with a dense op whose weight is missing or no matrix

\* Model::run and the trace audit stop at such an op.
ASSUME UnboundAssumption == Unbound \subseteq Models /\ \A m \in Unbound, x \in Vecs : Run[m][x] = <<>>

VARIABLES batch,      \* idle, walk, done
          at,         \* candidates the batched verifier has accepted
          answer      \* its verdict

bvars == <<batch, at, answer>>

BInit == Init /\ batch = "idle" /\ at = 0 /\ answer = "none"

PlanStep == Next /\ UNCHANGED bvars

------------------------------------------------------------------------------
Answer(v) == batch' = "done" /\ answer' = v /\ UNCHANGED <<vars, at>>

First == candidates[1].model

\* Mutant: the candidates are taken to share the first one's model.
AssumedShared == TRUE

\* Graph, weights, tables and the two commitments are the first candidate's.
Shared == \A j \in DOMAIN candidates : candidates[j].model = First

Called == phase = "done" /\ batch = "idle"

\* Mutant: the costs are not counted, so that a walk would read past them.
BatchRejectEmpty == Called /\ candidates = <<>> /\ Answer("NoCandidates")

BatchReject ==
    /\ Called /\ GateFails
    /\ Answer(IF candidates = <<>> THEN "NoCandidates" ELSE "ArgminViolation")

FallBack == Called /\ ~GateFails /\ ~Shared /\ Answer(verdict)

PrepareFails == Called /\ ~GateFails /\ Shared /\ First \in Unbound /\ Answer("MissingBinding")

Prepare ==
    /\ Called /\ ~GateFails /\ Shared /\ First \notin Unbound
    /\ batch' = "walk"
    /\ UNCHANGED <<vars, at, answer>>

\* verify_with on a candidate, under what was prepared from the first.
Audited(a) == Predicted(First, a.input) = << a.output >>

BatchCandidate ==
    /\ batch = "walk" /\ at < Len(candidates)
    /\ LET a == candidates[at + 1] IN
       \/ Audited(a) /\ CostMatches(a, costs[at + 1]) /\ at' = at + 1 /\ UNCHANGED <<vars, batch, answer>>
       \/ ~Audited(a) /\ Answer("Candidate")
       \/ Audited(a) /\ ~CostMatches(a, costs[at + 1]) /\ Answer("CostMismatch")

BatchSelection ==
    /\ batch = "walk" /\ at = Len(candidates)
    /\ Answer(IF ArgminVerified(costs, index, cost) THEN "ok" ELSE "ArgminViolation")

Verify == Reject \/ CheckCandidate \/ RejectCandidate \/ CheckSelection

VerifyBatched ==
    BatchReject \/ FallBack \/ PrepareFails \/ Prepare \/ BatchCandidate \/ BatchSelection

BNext == PlanStep \/ VerifyBatched

\* Each verifier is a call that waits for nobody.
BSpec == BInit /\ [][BNext]_<<vars, bvars>> /\ WF_vars(Verify) /\ WF_<<vars, bvars>>(VerifyBatched)

------------------------------------------------------------------------------
\* verify_planning_batched is "verdict-equivalent to verify_planning; only cheaper"
\* (lib.rs): whatever the proof holds, both accept it, or both give the same reason to
\* refuse it, except that a weight no check can use is found before a candidate is named.
SameVerdict ==
    batch = "done" =>
        \/ answer = verdict
        \/ answer = "MissingBinding" /\ verdict = "Candidate"

\* A proof that was handed over gets an answer from both verifiers: their loops over the
\* candidates come to an end, and neither goes back to wait for the other.
BothAnswer == phase = "check" ~> (phase = "done" /\ batch = "done")
=============================================================================
