------------------------------ MODULE Rollout -------------------------------
(***************************************************************************)
(* Autoregressive rollout: prove_rollout (pwm-prover) runs the model on    *)
(* the flattened window of the last latents, appends its output and goes   *)
(* on for the horizon; verify_rollout (pwm-verifier) checks every one-step *)
(* proof and that each step's input is the window of what came before.     *)
(*                                                                         *)
(* A dishonest prover may record any artifact and any latent.              *)
(***************************************************************************)
EXTENDS StepProofs, SequencesExt

CONSTANTS Starts,      \* the initial latents a caller may give
          Windows,     \* history sizes
          Horizons,    \* horizons
          Forged,      \* artifacts a dishonest prover may record
          Recorded,    \* latents it may record with them
          MaxSteps     \* bound: steps of a dishonest rollout

ASSUME RolloutAssumption ==
    /\ Starts \subseteq Seq(Seq(Int))
    /\ Windows \subseteq Nat /\ Horizons \subseteq Nat
    /\ Forged \subseteq Artifacts /\ Recorded \subseteq Seq(Int)

VARIABLES model, initial, window, horizon,   \* what prove_rollout is called with
          phase,                             \* prove, failed, check, done
          steps, trajectory,                 \* the proof
          honest,                            \* history: the proof is prove_rollout's
          latents,                           \* the verifier's latents so far
          verdict

call  == <<model, initial, window, horizon>>
proof == <<steps, trajectory>>
vars  == <<call, phase, proof, honest, latents, verdict>>

\* The flattened trailing window of a list of latents.
Trailing(list, n) == FlattenSeq(SubSeq(list, Len(list) - n + 1, Len(list)))

Init ==
    /\ model \in Models /\ initial \in Starts /\ window \in Windows /\ horizon \in Horizons
    /\ phase = "prove" /\ steps = <<>> /\ trajectory = <<>>
    /\ honest = TRUE /\ latents = <<>> /\ verdict = "none"

------------------------------------------------------------------------------
\* The prover.
BadHistory == window = 0 \/ horizon = 0 \/ Len(initial) < window

Input == Trailing(initial \o trajectory, window)

Predicting == phase = "prove" /\ honest /\ ~BadHistory /\ Len(steps) < horizon

Predict ==
    /\ Predicting /\ Predicted(model, Input) # <<>>
    /\ LET next == Head(Predicted(model, Input)) IN
       /\ steps' = Append(steps, Artifact(model, Input, next))
       /\ trajectory' = Append(trajectory, next)
    /\ UNCHANGED <<call, phase, honest, latents, verdict>>

ProveFail ==
    /\ phase = "prove" /\ honest
    /\ BadHistory \/ (Predicting /\ Predicted(model, Input) = <<>>)
    /\ phase' = "failed"
    /\ UNCHANGED <<call, proof, honest, latents, verdict>>

Send ==
    /\ phase = "prove"
    /\ honest => ~BadHistory /\ Len(steps) = horizon
    /\ phase' = "sent"
    /\ UNCHANGED <<call, proof, honest, latents, verdict>>

\* A dishonest prover records any artifact with at most one latent.
ForgeStep(a, next) ==
    /\ phase = "prove" /\ Len(steps) < MaxSteps
    /\ steps' = Append(steps, a) /\ trajectory' = trajectory \o next
    /\ honest' = FALSE
    /\ UNCHANGED <<call, phase, latents, verdict>>

\* Nothing at all, where prove_rollout refuses.
ForgeEmpty ==
    /\ phase = "prove" /\ steps = <<>> /\ BadHistory
    /\ honest' = FALSE
    /\ UNCHANGED <<call, phase, proof, latents, verdict>>

------------------------------------------------------------------------------
\* The verifier.
Return(v) ==
    /\ phase' = "done" /\ verdict' = v
    /\ UNCHANGED <<call, proof, honest, latents>>

\* Mutant: a history of exactly the window's size is refused.
MalformedAtWindow == window = 0 \/ Len(initial) <= window \/ Len(steps) # Len(trajectory)

Malformed == window = 0 \/ Len(initial) < window \/ Len(steps) # Len(trajectory)

Open ==
    /\ phase = "sent"
    /\ IF Malformed THEN Return("RolloutWiring")
       ELSE /\ phase' = "check" /\ latents' = initial
            /\ UNCHANGED <<call, proof, honest, verdict>>

At == Len(latents) - Len(initial) + 1

\* Mutant: the step's input is not compared with the window.
CheckStepUnwired ==
    /\ phase = "check" /\ At <= Len(steps)
    /\ IF ~Verified(steps[At]) THEN Return("RolloutStep")
       ELSE IF steps[At].output # trajectory[At] THEN Return("RolloutWiring")
       ELSE /\ latents' = Append(latents, steps[At].output)
            /\ UNCHANGED <<call, phase, proof, honest, verdict>>

CheckStep ==
    /\ phase = "check" /\ At <= Len(steps)
    /\ IF ~Verified(steps[At]) THEN Return("RolloutStep")
       ELSE IF steps[At].input # Trailing(latents, window) THEN Return("RolloutWiring")
       ELSE IF steps[At].output # trajectory[At] THEN Return("RolloutWiring")
       ELSE /\ latents' = Append(latents, steps[At].output)
            /\ UNCHANGED <<call, phase, proof, honest, verdict>>

Finish ==
    /\ phase = "check" /\ At > Len(steps)
    /\ Return("ok")

Next ==
    \/ Predict
    \/ ProveFail
    \/ Send
    \/ \E a \in Forged, next \in { <<>> } \union { <<z>> : z \in Recorded } : ForgeStep(a, next)
    \/ ForgeEmpty
    \/ Open
    \/ CheckStep
    \/ Finish

Spec == Init /\ [][Next]_vars

------------------------------------------------------------------------------
\* The trajectory of one model: its own predictions fed back n times.
Iterated(m, n) ==
    LET so[k \in 0..n] ==
            IF k = 0 THEN <<>>
            ELSE so[k - 1] \o Predicted(m, Trailing(initial \o so[k - 1], window))
    IN  so[n]

\* An accepted rollout whose steps are all of one model is that model's own
\* trajectory, whatever the prover recorded.
TrajectorySound ==
    verdict = "ok" =>
        \A m \in Models :
            (\A i \in DOMAIN steps : steps[i].model = m) => trajectory = Iterated(m, Len(steps))

\* prove_rollout's own proof is accepted, with the horizon it was asked for.
HonestRolloutAccepted == (phase = "done" /\ honest) => verdict = "ok" /\ Len(trajectory) = horizon
=============================================================================
