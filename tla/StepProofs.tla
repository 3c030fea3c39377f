----------------------------- MODULE StepProofs -----------------------------
(***************************************************************************)
(* One-step proofs as planning and rollout use them.  An artifact is       *)
(* [model, input, output]; verify accepts it exactly when the output is    *)
(* what the model computes, which is what TraceAudit checks of the trace   *)
(* audit (an unlucky challenge aside).  Run gives what a model computes    *)
(* from a vector it takes: a sequence of at most one vector, <<>> when     *)
(* Model::run fails.                                                       *)
(***************************************************************************)
EXTENDS Integers, Sequences

CONSTANTS Models, Vecs, Run

ASSUME StepAssumption ==
    /\ Vecs \subseteq Seq(Int)
    /\ Run \in [Models -> [Vecs -> Seq(Seq(Int))]]
    /\ \A m \in Models, x \in Vecs : Len(Run[m][x]) <= 1

Artifact(m, x, z) == [model |-> m, input |-> x, output |-> z]

Artifacts == [model : Models, input : Seq(Int), output : Seq(Int)]

\* Model::run, which fails on a vector no layer takes.
Predicted(m, x) == IF x \in Vecs THEN Run[m][x] ELSE <<>>

Verified(a) == Predicted(a.model, a.input) = << a.output >>
=============================================================================
