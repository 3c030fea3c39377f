---------------------------- MODULE RolloutProofs ----------------------------
(***************************************************************************)
(* An accepted rollout is the trajectory of its model, and prove_rollout's *)
(* own proof is accepted.  The invariant says which steps the verifier has *)
(* passed and what its latents are then, and that every step of an honest  *)
(* proof passes.                                                           *)
(***************************************************************************)
EXTENDS Rollout, SumsProofs, SequenceTheorems, TLAPS

Latent == Seq(Int)

\* What verify_rollout asks of step j, given the steps before it.
Passes(j) ==
    /\ Verified(steps[j])
    /\ steps[j].input = Trailing(initial \o SubSeq(trajectory, 1, j - 1), window)
    /\ steps[j].output = trajectory[j]

Typed ==
    /\ model \in Models /\ initial \in Seq(Latent) /\ window \in Nat /\ horizon \in Nat
    /\ phase \in {"prove", "failed", "sent", "check", "done"}
    /\ steps \in Seq(Artifacts) /\ trajectory \in Seq(Latent)
    /\ honest \in BOOLEAN

\* The verifier's latents are the initial ones and those of the steps it passed.
CheckedSoFar ==
    /\ phase = "check" =>
         /\ Len(steps) = Len(trajectory)
         /\ \E k \in 0..Len(steps) :
               latents = initial \o SubSeq(trajectory, 1, k) /\ \A j \in 1..k : Passes(j)
    /\ phase \in {"prove", "failed", "sent", "check"} => verdict = "none"
    /\ verdict = "ok" => Len(steps) = Len(trajectory) /\ \A j \in 1..Len(steps) : Passes(j)

HonestSoFar ==
    honest =>
        /\ Len(steps) = Len(trajectory) /\ \A j \in 1..Len(steps) : Passes(j)
        /\ phase \in {"sent", "check", "done"} => ~BadHistory /\ Len(steps) = horizon

RInv == Typed /\ CheckedSoFar /\ HonestSoFar /\ HonestRolloutAccepted

------------------------------------------------------------------------------
\* A list of latents and one more.
LEMMA AppendEntry ==
    ASSUME NEW S, NEW s \in Seq(S), NEW e \in S
    PROVE  /\ Append(s, e) \in Seq(S) /\ Len(Append(s, e)) = Len(s) + 1
           /\ Append(s, e)[Len(s) + 1] = e
           /\ \A j \in 1..Len(s) : Append(s, e)[j] = s[j]
  OBVIOUS

\* The beginnings of a list do not change when one more is appended.
LEMMA Beginnings ==
    ASSUME NEW S, NEW s \in Seq(S), NEW e \in S, NEW n \in 0..Len(s)
    PROVE  SubSeq(Append(s, e), 1, n) = SubSeq(s, 1, n)
<1> DEFINE a == Append(s, e)
<1>1. a \in Seq(S) /\ Len(a) = Len(s) + 1 /\ \A j \in 1..Len(s) : a[j] = s[j]
  BY AppendEntry
<1> HIDE DEF a
<1>2. /\ SubSeq(a, 1, n) \in Seq(S) /\ Len(SubSeq(a, 1, n)) = n
      /\ \A i \in 1..n : SubSeq(a, 1, n)[i] = a[i]
  BY <1>1
<1>3. /\ SubSeq(s, 1, n) \in Seq(S) /\ Len(SubSeq(s, 1, n)) = n
      /\ \A i \in 1..n : SubSeq(s, 1, n)[i] = s[i]
  OBVIOUS
<1>4. \A i \in 1..n : SubSeq(a, 1, n)[i] = SubSeq(s, 1, n)[i]
  BY <1>1, <1>2, <1>3
<1>5. SubSeq(a, 1, n) = SubSeq(s, 1, n)
  <2> DEFINE b == SubSeq(a, 1, n)
             c == SubSeq(s, 1, n)
  <2> HIDE DEF b, c
  <2>1. b \in Seq(S) /\ c \in Seq(S) /\ Len(b) = Len(c) /\ \A i \in 1..Len(b) : b[i] = c[i]
    BY <1>2, <1>3, <1>4 DEF b, c
  <2>2. b = c
    BY <2>1, SeqEqual
  <2> QED BY <2>2 DEF b, c
<1> QED BY <1>5 DEF a

\* The latents after one more step is passed.
LEMMA OneMore ==
    ASSUME NEW S, NEW i \in Seq(S), NEW t \in Seq(S), NEW k \in Nat, k + 1 <= Len(t)
    PROVE  /\ Append(i \o SubSeq(t, 1, k), t[k + 1]) = i \o SubSeq(t, 1, k + 1)
           /\ SubSeq(t, 1, k + 1) = SubSeq(t, 1, k) \o << t[k + 1] >>
<1> DEFINE b == SubSeq(t, 1, k)
           e == t[k + 1]
<1>1. b \in Seq(S) /\ e \in S
  OBVIOUS
<1>2. SubSeq(t, 1, k + 1) = b \o << e >>
  <2>1. 1 \in 1..Len(t) /\ k + 1 \in 1..Len(t) /\ (k + 1) - 1 = k
    OBVIOUS
  <2>2. SubSeq(t, 1, k + 1) = SubSeq(t, 1, (k + 1) - 1) \o << t[k + 1] >>
    BY <2>1, SubSeqRecursiveSecond
  <2> QED BY <2>1, <2>2
<1> HIDE DEF b, e
<1>3. Append(i \o b, e) = i \o (b \o << e >>)
  <2>1. i \o b \in Seq(S) /\ << e >> \in Seq(S)
    BY <1>1, ConcatProperties
  <2>2. Append(i \o b, e) = (i \o b) \o << e >>
    BY <1>1, <2>1, AppendIsConcat
  <2>3. (i \o b) \o << e >> = i \o (b \o << e >>)
    BY <1>1, <2>1, ConcatAssociative
  <2> QED BY <2>2, <2>3
<1> QED BY <1>2, <1>3 DEF b, e

\* What a model predicts: one latent, from a vector it takes, or nothing.
LEMMA PredictedType ==
    ASSUME NEW m \in Models, NEW x, Predicted(m, x) # <<>>
    PROVE  /\ x \in Seq(Int) /\ Head(Predicted(m, x)) \in Latent
           /\ Predicted(m, x) = << Head(Predicted(m, x)) >>
<1>1. x \in Vecs /\ Predicted(m, x) = Run[m][x]
  BY DEF Predicted
<1>2. Run[m][x] \in Seq(Latent) /\ Len(Run[m][x]) <= 1 /\ x \in Seq(Int)
  BY <1>1, StepAssumption DEF Latent
<1>3. Predicted(m, x) \in Seq(Latent) /\ Len(Predicted(m, x)) <= 1
  BY <1>1, <1>2
<1>4. Predicted(m, x)[1] \in Latent /\ Head(Predicted(m, x)) = Predicted(m, x)[1]
      /\ Predicted(m, x) = << Predicted(m, x)[1] >>
  BY <1>3, Singleton
<1> QED BY <1>2, <1>4

------------------------------------------------------------------------------
LEMMA InitRInv == Init => RInv
<1> SUFFICES ASSUME Init PROVE RInv
  OBVIOUS
<1>1. Typed
  BY RolloutAssumption DEF Init, Typed, Latent
<1>2. CheckedSoFar /\ HonestSoFar /\ HonestRolloutAccepted
  BY DEF Init, CheckedSoFar, HonestSoFar, HonestRolloutAccepted
<1> QED BY <1>1, <1>2 DEF RInv

\* A step of prove_rollout: the new step passes after the ones before it.
LEMMA PredictRInv == RInv /\ Predict => RInv'
<1> SUFFICES ASSUME RInv, Predict PROVE RInv'
  OBVIOUS
<1> DEFINE next == Head(Predicted(model, Input))
           a == Artifact(model, Input, next)
<1>1. /\ phase = "prove" /\ honest /\ verdict = "none"
      /\ Predicted(model, Input) # <<>>
      /\ steps' = Append(steps, a) /\ trajectory' = Append(trajectory, next)
      /\ UNCHANGED <<model, initial, window, horizon, phase, honest, latents, verdict>>
  BY DEF Predict, Predicting, RInv, CheckedSoFar, call
<1>2. PICK n \in Nat : n = Len(steps) /\ Typed /\ Len(trajectory) = n /\ \A j \in 1..n : Passes(j)
  BY <1>1 DEF RInv, HonestSoFar, Typed
<1>3. Input \in Seq(Int) /\ next \in Latent /\ Predicted(model, Input) = << next >>
  BY <1>1, <1>2, PredictedType DEF Typed
<1>4. a \in Artifacts /\ Verified(a) /\ a.input = Input /\ a.output = next
  <2> HIDE DEF next
  <2> QED BY <1>2, <1>3 DEF Typed, Artifact, Artifacts, Verified, Latent
<1> HIDE DEF next, a
<1>5. /\ steps' \in Seq(Artifacts) /\ Len(steps') = n + 1 /\ steps'[n + 1] = a
      /\ \A j \in 1..n : steps'[j] = steps[j]
  BY <1>1, <1>2, <1>4, AppendEntry DEF Typed
<1>6. /\ trajectory' \in Seq(Latent) /\ Len(trajectory') = n + 1 /\ trajectory'[n + 1] = next
      /\ \A j \in 1..n : trajectory'[j] = trajectory[j]
  BY <1>1, <1>2, <1>3, AppendEntry DEF Typed
<1>7. ASSUME NEW j \in 0..n
      PROVE  SubSeq(trajectory', 1, j) = SubSeq(trajectory, 1, j)
  BY <1>1, <1>2, <1>3, Beginnings DEF Typed
<1>8. Typed'
  BY <1>1, <1>2, <1>5, <1>6 DEF Typed
<1>9. \A j \in 1..(n + 1) : Passes(j)'
  <2>1. ASSUME NEW j \in 1..n PROVE Passes(j)'
    <3>1. SubSeq(trajectory', 1, j - 1) = SubSeq(trajectory, 1, j - 1)
      BY <1>2, <1>7
    <3> QED BY <1>1, <1>2, <1>5, <1>6, <3>1 DEF Passes
  <2>2. Passes(n + 1)'
    <3>1. SubSeq(trajectory', 1, (n + 1) - 1) = trajectory
      <4>1. SubSeq(trajectory, 1, n) = trajectory
        BY <1>2, SubSeqFull DEF Typed
      <4> QED BY <1>2, <1>7, <4>1
    <3>2. Verified(steps'[n + 1]) /\ steps'[n + 1].input = Input /\ steps'[n + 1].output = trajectory'[n + 1]
      BY <1>4, <1>5, <1>6
    <3>3. Trailing(initial' \o SubSeq(trajectory', 1, (n + 1) - 1), window') = Input
      BY <1>1, <3>1 DEF Input
    <3> QED BY <3>2, <3>3 DEF Passes
  <2> QED BY <1>2, <2>1, <2>2
<1>10. HonestSoFar'
  BY <1>1, <1>5, <1>6, <1>9 DEF HonestSoFar
<1>11. CheckedSoFar' /\ HonestRolloutAccepted'
  BY <1>1 DEF CheckedSoFar, HonestRolloutAccepted
<1> QED BY <1>8, <1>10, <1>11 DEF RInv

\* What passes depends only on the call and the proof.
LEMMA PassesKept ==
    ASSUME UNCHANGED <<call, proof>>
    PROVE  \A j : Passes(j)' <=> Passes(j)
  BY DEF call, proof, Passes

LEMMA ProveFailRInv == RInv /\ ProveFail => RInv'
<1> SUFFICES ASSUME RInv, ProveFail PROVE RInv'
  OBVIOUS
<1>1. /\ phase = "prove" /\ phase' = "failed" /\ UNCHANGED <<call, proof, honest, latents, verdict>>
  BY DEF ProveFail
<1>2. \A j : Passes(j)' <=> Passes(j)
  BY <1>1, PassesKept
<1> QED BY <1>1, <1>2 DEF RInv, Typed, CheckedSoFar, HonestSoFar, HonestRolloutAccepted, call, proof

LEMMA SendRInv == RInv /\ Send => RInv'
<1> SUFFICES ASSUME RInv, Send PROVE RInv'
  OBVIOUS
<1>1. /\ phase = "prove" /\ phase' = "sent" /\ UNCHANGED <<call, proof, honest, latents, verdict>>
      /\ honest => ~BadHistory /\ Len(steps) = horizon
  BY DEF Send
<1>2. (\A j : Passes(j)' <=> Passes(j)) /\ (BadHistory' <=> BadHistory)
  BY <1>1, PassesKept DEF BadHistory, call
<1> QED BY <1>1, <1>2 DEF RInv, Typed, CheckedSoFar, HonestSoFar, HonestRolloutAccepted, call, proof

LEMMA ForgeRInv ==
    ASSUME RInv, NEW a \in Forged, NEW next \in { <<>> } \union { <<z>> : z \in Recorded }, ForgeStep(a, next)
    PROVE  RInv'
<1>1. /\ phase = "prove" /\ phase' = phase /\ honest' = FALSE /\ verdict' = verdict
      /\ steps' = Append(steps, a) /\ trajectory' = trajectory \o next /\ UNCHANGED call
  BY DEF ForgeStep
<1>2. a \in Artifacts /\ next \in Seq(Latent)
  <2>1. CASE next = <<>>
    BY <2>1, RolloutAssumption
  <2>2. ASSUME NEW z \in Recorded, next = << z >>
        PROVE  a \in Artifacts /\ next \in Seq(Latent)
    <3>1. z \in Latent
      BY RolloutAssumption DEF Latent
    <3> QED BY <2>2, <3>1, RolloutAssumption
  <2> QED BY <2>1, <2>2
<1>3. steps' \in Seq(Artifacts) /\ trajectory' \in Seq(Latent)
  BY <1>1, <1>2, AppendEntry, ConcatProperties DEF RInv, Typed
<1> QED
  BY <1>1, <1>3 DEF RInv, Typed, CheckedSoFar, HonestSoFar, HonestRolloutAccepted, call

LEMMA ForgeEmptyRInv == RInv /\ ForgeEmpty => RInv'
  BY DEF ForgeEmpty, RInv, Typed, CheckedSoFar, HonestSoFar, HonestRolloutAccepted, call, proof

------------------------------------------------------------------------------
\* The verifier starts from the initial latents; it does not refuse an honest proof.
LEMMA OpenRInv == RInv /\ Open => RInv'
<1> SUFFICES ASSUME RInv, Open PROVE RInv'
  OBVIOUS
<1>1. phase = "sent" /\ UNCHANGED <<call, proof, honest>> /\ Typed
  BY DEF Open, Return, RInv
<1>2. (\A j : Passes(j)' <=> Passes(j)) /\ (BadHistory' <=> BadHistory)
  BY <1>1, PassesKept DEF BadHistory, call
<1>3. honest => ~Malformed
  BY <1>1 DEF RInv, HonestSoFar, BadHistory, Malformed
<1>4. CASE Malformed
  BY <1>1, <1>2, <1>3, <1>4
  DEF Open, Return, RInv, Typed, CheckedSoFar, HonestSoFar, HonestRolloutAccepted, call, proof
<1>5. CASE ~Malformed
  <2>1. phase' = "check" /\ latents' = initial /\ verdict' = verdict
    BY <1>5 DEF Open
  <2>2. Typed' /\ HonestSoFar' /\ HonestRolloutAccepted'
    BY <1>1, <1>2, <2>1 DEF RInv, Typed, HonestSoFar, HonestRolloutAccepted, call, proof
  <2>3. initial = initial \o SubSeq(trajectory, 1, 0) /\ 0 \in 0..Len(steps)
    <3>1. SubSeq(trajectory, 1, 0) = <<>>
      BY <1>1, SubSeqEmpty DEF Typed
    <3> QED BY <1>1, <3>1, ConcatEmptySeq DEF Typed
  <2>4. CheckedSoFar'
    <3>1. verdict = "none" /\ Len(steps) = Len(trajectory) /\ initial' = initial
      BY <1>1, <1>5 DEF RInv, CheckedSoFar, Malformed, call
    <3>2. latents' = initial' \o SubSeq(trajectory', 1, 0) /\ 0 \in 0..Len(steps') /\ 1..0 = {}
      BY <1>1, <2>1, <2>3, <3>1 DEF proof
    <3> QED BY <1>1, <2>1, <3>1, <3>2 DEF CheckedSoFar, proof
  <2> QED BY <2>2, <2>4 DEF RInv
<1> QED BY <1>4, <1>5

\* While the verifier checks, At is the first step it has not passed.
LEMMA Position ==
    ASSUME RInv, phase = "check"
    PROVE  /\ At \in 1..(Len(steps) + 1) /\ Len(steps) = Len(trajectory)
           /\ latents = initial \o SubSeq(trajectory, 1, At - 1)
           /\ \A j \in 1..(At - 1) : Passes(j)
<1>1. PICK k \in 0..Len(steps) :
          latents = initial \o SubSeq(trajectory, 1, k) /\ \A j \in 1..k : Passes(j)
  BY DEF RInv, CheckedSoFar
<1>2. Len(steps) = Len(trajectory) /\ initial \in Seq(Latent) /\ trajectory \in Seq(Latent)
      /\ steps \in Seq(Artifacts)
  BY DEF RInv, CheckedSoFar, Typed
<1> DEFINE b == SubSeq(trajectory, 1, k)
<1>3. b \in Seq(Latent) /\ Len(b) = k
  BY <1>1, <1>2
<1> HIDE DEF b
<1>4. Len(initial \o b) = Len(initial) + k
  BY <1>2, <1>3, ConcatProperties
<1>5. At = k + 1
  BY <1>1, <1>2, <1>4 DEF At, b
<1> QED BY <1>1, <1>2, <1>5

LEMMA CheckStepRInv == RInv /\ CheckStep => RInv'
<1> SUFFICES ASSUME RInv, CheckStep PROVE RInv'
  OBVIOUS
<1>1. phase = "check" /\ At <= Len(steps) /\ UNCHANGED <<call, proof, honest>> /\ Typed
  BY DEF CheckStep, Return, RInv
<1>2. (\A j : Passes(j)' <=> Passes(j)) /\ (BadHistory' <=> BadHistory)
  BY <1>1, PassesKept DEF BadHistory, call
<1> DEFINE k == At
<1>3. /\ k \in 1..Len(steps) /\ Len(steps) = Len(trajectory)
      /\ latents = initial \o SubSeq(trajectory, 1, k - 1) /\ \A j \in 1..(k - 1) : Passes(j)
  BY <1>1, Position DEF Typed
<1>4. CASE ~Passes(k)
  <2>1. ~honest
    BY <1>3, <1>4 DEF RInv, HonestSoFar
  <2>2. phase' = "done" /\ verdict' \in {"RolloutStep", "RolloutWiring"}
    BY <1>1, <1>3, <1>4 DEF CheckStep, Passes, Return
  <2> QED
    BY <1>1, <2>1, <2>2 DEF RInv, Typed, CheckedSoFar, HonestSoFar, HonestRolloutAccepted, call, proof
<1>5. CASE Passes(k)
  <2>1. latents' = Append(latents, trajectory[k]) /\ phase' = phase /\ verdict' = verdict
    BY <1>1, <1>3, <1>5 DEF CheckStep, Passes
  <2>2. latents' = initial \o SubSeq(trajectory, 1, k)
    <3> DEFINE n == k - 1
    <3>1. n \in Nat /\ n + 1 <= Len(trajectory) /\ n + 1 = k
      BY <1>3
    <3> HIDE DEF n, k
    <3>2. Append(initial \o SubSeq(trajectory, 1, n), trajectory[n + 1])
              = initial \o SubSeq(trajectory, 1, n + 1)
      BY <1>1, <3>1, OneMore DEF Typed
    <3>3. k - 1 = n
      BY DEF n
    <3> QED BY <1>3, <2>1, <3>1, <3>2, <3>3
  <2>3. \A j \in 1..k : Passes(j)
    BY <1>3, <1>5
  <2> HIDE DEF k
  <2>4. CheckedSoFar'
    <3>1. verdict' = "none" /\ phase' = "check" /\ UNCHANGED <<initial, steps, trajectory>>
      BY <1>1, <2>1 DEF RInv, CheckedSoFar, call, proof
    <3>2. \E n \in 0..Len(steps') :
              latents' = initial' \o SubSeq(trajectory', 1, n) /\ \A j \in 1..n : Passes(j)'
      <4>1. k \in 0..Len(steps')
        BY <1>1, <1>3, <3>1 DEF Typed
      <4>2. latents' = initial' \o SubSeq(trajectory', 1, k) /\ \A j \in 1..k : Passes(j)'
        BY <1>2, <2>2, <2>3, <3>1
      <4> QED BY <4>1, <4>2
    <3> QED BY <1>3, <3>1, <3>2 DEF CheckedSoFar
  <2>5. Typed' /\ HonestSoFar' /\ HonestRolloutAccepted'
    BY <1>1, <1>2, <2>1 DEF RInv, Typed, HonestSoFar, HonestRolloutAccepted, call, proof
  <2> QED BY <2>4, <2>5 DEF RInv
<1> QED BY <1>4, <1>5

LEMMA FinishRInv == RInv /\ Finish => RInv'
<1> SUFFICES ASSUME RInv, Finish PROVE RInv'
  OBVIOUS
<1>1. /\ phase = "check" /\ At > Len(steps) /\ UNCHANGED <<call, proof, honest>>
      /\ phase' = "done" /\ verdict' = "ok"
  BY DEF Finish, Return
<1>2. (\A j : Passes(j)' <=> Passes(j)) /\ (BadHistory' <=> BadHistory)
  BY <1>1, PassesKept DEF BadHistory, call
<1>3. Len(steps) = Len(trajectory) /\ \A j \in 1..Len(steps) : Passes(j)
  <2>1. Len(steps) \in Nat
    BY DEF RInv, Typed
  <2> QED BY <1>1, <2>1, Position
<1> QED
  BY <1>1, <1>2, <1>3 DEF RInv, Typed, CheckedSoFar, HonestSoFar, HonestRolloutAccepted, call, proof

LEMMA NextRInv == RInv /\ [Next]_vars => RInv'
<1> SUFFICES ASSUME RInv, [Next]_vars PROVE RInv'
  OBVIOUS
<1>1. CASE UNCHANGED vars
  <2>1. \A j : Passes(j)' <=> Passes(j)
    BY <1>1, PassesKept DEF vars
  <2> QED
    BY <1>1, <2>1 DEF vars, RInv, Typed, CheckedSoFar, HonestSoFar, HonestRolloutAccepted, BadHistory, call, proof
<1>2. CASE Next
  BY <1>2, PredictRInv, ProveFailRInv, SendRInv, ForgeRInv, ForgeEmptyRInv, OpenRInv,
     CheckStepRInv, FinishRInv DEF Next
<1> QED BY <1>1, <1>2

------------------------------------------------------------------------------
\* A list of latents that a model produces step by step is its iterated prediction.
LEMMA IteratedUnique ==
    ASSUME NEW m, NEW n \in Nat, NEW g, g[0] = <<>>,
           \A k \in 1..n : g[k] = g[k - 1] \o Predicted(m, Trailing(initial \o g[k - 1], window))
    PROVE  Iterated(m, n) = g[n]
<1> DEFINE Eq(h) == h = [k \in 0..n |->
                IF k = 0 THEN <<>>
                ELSE h[k - 1] \o Predicted(m, Trailing(initial \o h[k - 1], window))]
           so == CHOOSE h : Eq(h)
           g0 == [k \in 0..n |-> g[k]]
<1>1. Eq(g0)
  <2>1. ASSUME NEW k \in 0..n
        PROVE  g0[k] = IF k = 0 THEN <<>>
                       ELSE g0[k - 1] \o Predicted(m, Trailing(initial \o g0[k - 1], window))
    <3>1. k # 0 => k \in 1..n /\ k - 1 \in 0..n /\ g0[k - 1] = g[k - 1]
      OBVIOUS
    <3>2. g0[k] = g[k]
      OBVIOUS
    <3> HIDE DEF g0
    <3> QED BY <3>1, <3>2
  <2>2. g0 = [k \in 0..n |-> g0[k]]
    OBVIOUS
  <2> HIDE DEF g0
  <2> QED BY <2>1, <2>2
<1>2. Eq(so)
  <2> HIDE DEF Eq, g0
  <2> QED BY <1>1
<1>3. Iterated(m, n) = so[n]
  BY DEF Iterated
<1> DEFINE S == { k \in Nat : k <= n => so[k] = g[k] }
<1>4. 0 \in S
  <2> HIDE DEF so
  <2>1. so[0] = <<>>
    BY <1>2
  <2> QED BY <2>1
<1>5. ASSUME NEW k \in Nat, k \in S, k + 1 <= n
      PROVE  so[k + 1] = g[k + 1]
  <2>1. k \in 0..n /\ k + 1 \in 1..n /\ (k + 1) - 1 = k /\ so[k] = g[k]
    BY <1>5
  <2>2. g[k + 1] = g[k] \o Predicted(m, Trailing(initial \o g[k], window))
    BY <2>1
  <2>3. so[k + 1] = so[k] \o Predicted(m, Trailing(initial \o so[k], window))
    <3> DEFINE F(h, j) == h[j - 1] \o Predicted(m, Trailing(initial \o h[j - 1], window))
               i == k + 1
    <3>1. i \in 0..n /\ i # 0 /\ i - 1 = k
      BY <2>1
    <3>2. so[i] = F(so, i)
      <4> HIDE DEF so, i
      <4> QED BY <1>2, <3>1
    <3>3. F(so, i) = so[k] \o Predicted(m, Trailing(initial \o so[k], window))
      <4> HIDE DEF so, i
      <4> QED BY <3>1
    <3> QED BY <3>2, <3>3
  <2> QED BY <2>1, <2>2, <2>3
<1>6. \A k \in Nat : k \in S => k + 1 \in S
  <2> HIDE DEF so
  <2> QED BY <1>5
<1>7. n \in S
  <2> HIDE DEF S
  <2> QED BY <1>4, <1>6, SetInduction
<1> QED BY <1>3, <1>7

\* An accepted rollout whose steps are all of one model is that model's own
\* trajectory (pwm-verifier verify_rollout).
THEOREM RolloutSound == Spec => []TrajectorySound
<1>1. RInv => TrajectorySound
  <2> SUFFICES ASSUME RInv, verdict = "ok", NEW m \in Models, \A i \in DOMAIN steps : steps[i].model = m
               PROVE  trajectory = Iterated(m, Len(steps))
    BY DEF TrajectorySound
  <2> DEFINE n == Len(steps)
             g == [k \in 0..n |-> SubSeq(trajectory, 1, k)]
  <2>1. /\ n \in Nat /\ n = Len(trajectory) /\ trajectory \in Seq(Latent)
        /\ DOMAIN steps = 1..n /\ \A j \in 1..n : Passes(j)
    BY DEF RInv, Typed, CheckedSoFar
  <2>2. g[0] = <<>> /\ g[n] = trajectory
    BY <2>1, SubSeqEmpty, SubSeqFull
  <2>3. ASSUME NEW k \in 1..n
        PROVE  g[k] = g[k - 1] \o Predicted(m, Trailing(initial \o g[k - 1], window))
    <3> DEFINE j == k - 1
    <3>1. j \in Nat /\ j + 1 = k /\ j + 1 <= Len(trajectory)
      BY <2>1
    <3>2. g[k] = SubSeq(trajectory, 1, k) /\ g[k - 1] = SubSeq(trajectory, 1, k - 1)
      BY <2>1
    <3>3. SubSeq(trajectory, 1, k) = SubSeq(trajectory, 1, k - 1) \o << trajectory[k] >>
      <4>1. k - 1 = j
        OBVIOUS
      <4> HIDE DEF j
      <4>2. SubSeq(trajectory, 1, j + 1) = SubSeq(trajectory, 1, j) \o << trajectory[j + 1] >>
        BY <2>1, <3>1, OneMore
      <4> QED BY <3>1, <4>1, <4>2
    <3>4. Predicted(m, Trailing(initial \o SubSeq(trajectory, 1, k - 1), window)) = << trajectory[k] >>
      BY <2>1 DEF Passes, Verified
    <3> QED BY <3>2, <3>3, <3>4
  <2> HIDE DEF g, n
  <2>4. Iterated(m, n) = g[n]
    BY <2>1, <2>2, <2>3, IteratedUnique
  <2> QED BY <2>2, <2>4 DEF n
<1> QED BY <1>1, InitRInv, NextRInv, PTL DEF Spec

\* prove_rollout's own proof is accepted, with the horizon it was asked for
\* (pwm-prover prove_rollout, pwm-verifier verify_rollout).
THEOREM RolloutComplete == Spec => []HonestRolloutAccepted
<1>1. RInv => HonestRolloutAccepted
  BY DEF RInv
<1> QED BY <1>1, InitRInv, NextRInv, PTL DEF Spec
=============================================================================
