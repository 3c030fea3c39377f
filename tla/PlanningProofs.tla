--------------------------- MODULE PlanningProofs ---------------------------
(***************************************************************************)
(* Planning for every set of models, candidates, goals and costs: argmin   *)
(* finds the first minimum, so that its selection always passes            *)
(* verify_argmin; the type invariant; soundness of the selection;          *)
(* completeness of an honest plan; and the agreement of the batched        *)
(* verifier with the plain one.  Then the CEM step, for every seed, table, *)
(* cost and elite size: replay, selection and update.                      *)
(***************************************************************************)
EXTENDS BatchedPlanning, Cem, SumsProofs, FiniteSetTheorems

(******************************** argmin ***********************************)
\* i is the first position of a minimum of the first n costs.
FirstMin(cs, n, i) ==
    /\ i \in 1..n
    /\ \A j \in 1..n : cs[j] >= cs[i] /\ (j < i => cs[j] > cs[i])

\* g holds what argmin has found after each of the first n costs.
Best(cs, n, g) ==
    /\ DOMAIN g = 1..n
    /\ \A k \in 1..n :
          g[k] = IF k = 1 THEN 1 ELSE IF cs[k] >= cs[g[k - 1]] THEN g[k - 1] ELSE k

\* The recursion of argmin has a solution.
LEMMA BestExists ==
    ASSUME NEW cs
    PROVE  \A n \in Nat : \E g : Best(cs, n, g)
<1> DEFINE S == { n \in Nat : \E g : Best(cs, n, g) }
<1>1. 0 \in S
  <2>1. Best(cs, 0, [k \in 1..0 |-> 0])
    BY DEF Best
  <2> QED BY <2>1
<1>2. ASSUME NEW n \in Nat, n \in S
      PROVE  n + 1 \in S
  <2>1. PICK g : Best(cs, n, g)
    BY <1>2
  <2> DEFINE new == IF n + 1 = 1 THEN 1 ELSE IF cs[n + 1] >= cs[g[n]] THEN g[n] ELSE n + 1
             h == [k \in 1..(n + 1) |-> IF k = n + 1 THEN new ELSE g[k]]
  <2>2. ASSUME NEW k \in 1..(n + 1)
        PROVE  h[k] = IF k = 1 THEN 1 ELSE IF cs[k] >= cs[h[k - 1]] THEN h[k - 1] ELSE k
    <3>1. k # 1 => k - 1 \in 1..n /\ h[k - 1] = g[k - 1]
      BY <2>2
    <3>2. CASE k = n + 1
      <4>1. h[k] = new /\ k - 1 = n
        BY <3>2
      <4> HIDE DEF h
      <4> QED BY <3>1, <3>2, <4>1
    <3>3. CASE k # n + 1
      <4>1. k \in 1..n /\ h[k] = g[k]
        BY <3>3
      <4>2. g[k] = IF k = 1 THEN 1 ELSE IF cs[k] >= cs[g[k - 1]] THEN g[k - 1] ELSE k
        BY <2>1, <4>1 DEF Best
      <4> HIDE DEF h
      <4> QED BY <3>1, <4>1, <4>2
    <3> QED BY <3>2, <3>3
  <2>3. DOMAIN h = 1..(n + 1)
    OBVIOUS
  <2>4. Best(cs, n + 1, h)
    <3> HIDE DEF h
    <3> QED BY <2>2, <2>3 DEF Best
  <2> QED BY <2>4
<1> HIDE DEF S
<1>3. \A n \in Nat : n \in S
  BY <1>1, <1>2, SetInduction
<1> QED BY <1>3 DEF S

\* Any solution holds the first minimum of every prefix.
LEMMA BestIsFirstMin ==
    ASSUME NEW cs \in Seq(Int), NEW g, Best(cs, Len(cs), g)
    PROVE  \A n \in 1..Len(cs) : FirstMin(cs, n, g[n])
<1> DEFINE S == { n \in Nat : n \in 1..Len(cs) => FirstMin(cs, n, g[n]) }
<1>1. 0 \in S
  OBVIOUS
<1>2. ASSUME NEW n \in Nat, n \in S
      PROVE  n + 1 \in S
  <2>1. SUFFICES ASSUME n + 1 \in 1..Len(cs) PROVE FirstMin(cs, n + 1, g[n + 1])
    OBVIOUS
  <2>2. g[n + 1] = IF n + 1 = 1 THEN 1 ELSE IF cs[n + 1] >= cs[g[n]] THEN g[n] ELSE n + 1
    BY <2>1 DEF Best
  <2>3. \A j \in 1..(n + 1) : cs[j] \in Int
    BY <2>1
  <2>4. CASE n = 0
    BY <2>2, <2>3, <2>4 DEF FirstMin
  <2>5. CASE n # 0
    <3>1. FirstMin(cs, n, g[n])
      BY <1>2, <2>1, <2>5
    <3>2. CASE cs[n + 1] >= cs[g[n]]
      BY <2>2, <2>3, <2>5, <3>1, <3>2 DEF FirstMin
    <3>3. CASE ~(cs[n + 1] >= cs[g[n]])
      BY <2>2, <2>3, <2>5, <3>1, <3>3 DEF FirstMin
    <3> QED BY <3>2, <3>3
  <2> QED BY <2>4, <2>5
<1> HIDE DEF S
<1>3. \A n \in Nat : n \in S
  BY <1>1, <1>2, SetInduction
<1> QED BY <1>3 DEF S

\* argmin returns the first minimum (planning.rs argmin).
LEMMA ArgMinFirst ==
    ASSUME NEW cs \in Seq(Int), cs # <<>>
    PROVE  FirstMin(cs, Len(cs), ArgMin(cs))
<1> DEFINE Eq(b) == b = [n \in 1..Len(cs) |->
                IF n = 1 THEN 1 ELSE IF cs[n] >= cs[b[n - 1]] THEN b[n - 1] ELSE n]
           best == CHOOSE b : Eq(b)
<1>1. Len(cs) \in Nat /\ Len(cs) >= 1
  OBVIOUS
<1>2. PICK g : Best(cs, Len(cs), g)
  BY <1>1, BestExists
<1> DEFINE g0 == [n \in 1..Len(cs) |-> g[n]]
<1>3. Eq(g0)
  <2>1. ASSUME NEW n \in 1..Len(cs)
        PROVE  g0[n] = IF n = 1 THEN 1 ELSE IF cs[n] >= cs[g0[n - 1]] THEN g0[n - 1] ELSE n
    <3>1. n # 1 => n - 1 \in 1..Len(cs) /\ g0[n - 1] = g[n - 1]
      BY <1>1
    <3>2. g0[n] = g[n]
      OBVIOUS
    <3>3. g[n] = IF n = 1 THEN 1 ELSE IF cs[n] >= cs[g[n - 1]] THEN g[n - 1] ELSE n
      BY <1>2 DEF Best
    <3> HIDE DEF g0
    <3> QED BY <3>1, <3>2, <3>3
  <2>2. g0 = [n \in 1..Len(cs) |-> g0[n]]
    OBVIOUS
  <2> HIDE DEF g0
  <2> QED BY <2>1, <2>2
<1>4. Eq(best)
  <2> HIDE DEF Eq, g0
  <2> QED BY <1>3
<1>5. ArgMin(cs) = best[Len(cs)]
  BY DEF ArgMin
<1>6. Best(cs, Len(cs), best)
  <2> HIDE DEF best
  <2> QED BY <1>4 DEF Best
<1>7. FirstMin(cs, Len(cs), best[Len(cs)])
  <2> HIDE DEF best, Eq
  <2> QED BY <1>1, <1>6, BestIsFirstMin
<1> QED BY <1>5, <1>7

\* What argmin selects passes verify_argmin, whatever the costs.
THEOREM ArgMinPasses ==
    ASSUME NEW cs \in Seq(Int), cs # <<>>
    PROVE  ArgminVerified(cs, ArgMin(cs) - 1, cs[ArgMin(cs)])
<1> DEFINE i == ArgMin(cs)
<1>1. FirstMin(cs, Len(cs), i)
  BY ArgMinFirst
<1> HIDE DEF i
<1>2. i \in 1..Len(cs) /\ (i - 1) + 1 = i /\ i - 1 < Len(cs)
  BY <1>1 DEF FirstMin
<1>3. \A j \in DOMAIN cs : cs[j] >= cs[i]
  BY <1>1 DEF FirstMin
<1>4. \A j \in 1..(i - 1) : cs[j] # cs[i]
  <2> TAKE j \in 1..(i - 1)
  <2>1. j \in 1..Len(cs) /\ j < i
    BY <1>2
  <2>2. cs[j] \in Int /\ cs[i] \in Int /\ cs[j] > cs[i]
    BY <1>1, <1>2, <2>1 DEF FirstMin
  <2> QED BY <2>2
<1>5. ArgminVerified(cs, i - 1, cs[i])
  BY <1>2, <1>3, <1>4 DEF ArgminVerified
<1> QED BY <1>5 DEF i

(***************************** the invariants ******************************)
\* Every accepted candidate is verified at its cost, and a plan is accepted
\* only when all of them are and the selection passes.
AcceptedSoFar ==
    /\ phase = "prove" => pos = 0
    /\ pos > 0 => ~GateFails
    /\ \A j \in 1..pos : Verified(candidates[j]) /\ CostMatches(candidates[j], costs[j])
    /\ verdict = "ok" => /\ pos = Len(candidates) /\ ~GateFails
                         /\ ArgminVerified(costs, index, cost)

\* What prove_planning has put in the proof passes every check but the length.
HonestSoFar ==
    honest =>
        /\ Len(costs) = Len(candidates)
        /\ \A j \in DOMAIN candidates :
              /\ Verified(candidates[j]) /\ CostFits(candidates[j].output, goal)
              /\ costs[j] = SquaredDistance(candidates[j].output, goal)
        /\ phase \in {"check", "done"} =>
              /\ candidates # <<>>
              /\ index = ArgMin(costs) - 1 /\ cost = costs[ArgMin(costs)]

IInv == TypeOK /\ AcceptedSoFar /\ HonestSoFar /\ HonestPlanAccepted

\* A squared distance is an integer.
LEMMA DistanceType ==
    ASSUME NEW p \in Seq(Int), NEW t \in Seq(Int)
    PROVE  SquaredDistance(p, t) \in Int
<1> DEFINE n == ZipLen(p, t)
           f == [j \in 1..n |-> (p[j] - t[j]) * (p[j] - t[j])]
<1>1. n \in Nat /\ n <= Len(p) /\ n <= Len(t)
  BY DEF ZipLen
<1>2. \A j \in 1..n : f[j] \in Int
  <2> TAKE j \in 1..n
  <2> HIDE DEF n
  <2>1. p[j] \in Int /\ t[j] \in Int
    BY <1>1
  <2>2. (p[j] - t[j]) * (p[j] - t[j]) \in Int
    BY <2>1
  <2> QED BY <2>2
<1> HIDE DEF f, n
<1>3. SumTo(f, n) \in Int
  BY <1>1, <1>2, SumType
<1> QED BY <1>3 DEF SquaredDistance, f, n

\* What a model computes is at most one vector.
LEMMA PredictedType ==
    ASSUME NEW m \in Models, NEW x, Predicted(m, x) # <<>>
    PROVE  /\ x \in Seq(Int) /\ Head(Predicted(m, x)) \in Seq(Int)
           /\ Predicted(m, x) = << Head(Predicted(m, x)) >>
           /\ DOMAIN Predicted(m, x) = {1}
<1>1. x \in Vecs /\ Predicted(m, x) = Run[m][x]
  BY DEF Predicted
<1>2. Run[m][x] \in Seq(Seq(Int)) /\ Len(Run[m][x]) <= 1 /\ x \in Seq(Int)
  BY <1>1, StepAssumption
<1> DEFINE s == Run[m][x]
<1> HIDE DEF s
<1>3. s \in Seq(Seq(Int)) /\ Len(s) <= 1 /\ s # <<>>
  BY <1>1, <1>2 DEF s
<1>4. DOMAIN s = {1} /\ s[1] \in Seq(Int) /\ Head(s) = s[1] /\ s = << s[1] >>
  BY <1>3, Singleton
<1> QED BY <1>1, <1>2, <1>4 DEF s

\* The initial states satisfy the invariant.
LEMMA InitInv == Init => IInv
<1> SUFFICES ASSUME Init PROVE IInv
  OBVIOUS
<1>1. TypeOK
  BY PlanningAssumption DEF Init, TypeOK, Verdicts
<1>2. AcceptedSoFar
  BY DEF Init, AcceptedSoFar
<1>3. HonestSoFar /\ HonestPlanAccepted
  BY DEF Init, HonestSoFar, HonestPlanAccepted
<1> QED BY <1>1, <1>2, <1>3 DEF IInv

\* The entries of a sequence after one more is appended.
LEMMA AppendAt ==
    ASSUME NEW S, NEW s \in Seq(S), NEW e \in S
    PROVE  /\ Append(s, e) \in Seq(S) /\ Len(Append(s, e)) = Len(s) + 1
           /\ DOMAIN Append(s, e) = 1..(Len(s) + 1)
           /\ Append(s, e)[Len(s) + 1] = e
           /\ \A j \in 1..Len(s) : Append(s, e)[j] = s[j]
  OBVIOUS

\* prove_planning runs one more candidate.
LEMMA ProveCandidateInv ==
    ASSUME IInv, ProveCandidate
    PROVE  IInv'
<1> DEFINE ran == Predicted(model, NextInput)
           out == Head(ran)
           a == Artifact(model, NextInput, out)
           d == SquaredDistance(out, goal)
<1>1. model \in Models /\ goal \in Seq(Int)
  BY PlanningAssumption DEF IInv, TypeOK
<1>2. PICK i \in DOMAIN ran : CostFits(ran[i], goal)
  BY DEF ProveCandidate, CandidateFails
<1>3. ran # <<>>
  BY <1>2
<1>4. NextInput \in Seq(Int) /\ out \in Seq(Int) /\ ran = << out >> /\ DOMAIN ran = {1}
  <2> HIDE DEF ran, out
  <2> QED BY <1>1, <1>3, PredictedType DEF ran, out
<1>5. CostFits(out, goal) /\ d \in Int
  <2>1. i = 1 /\ ran[1] = out
    <3> HIDE DEF ran, out
    <3> QED BY <1>2, <1>4
  <2> QED BY <1>1, <1>2, <1>4, <2>1, DistanceType
<1>6. a \in Artifacts /\ a.output = out /\ Verified(a)
  <2>1. a.model = model /\ a.input = NextInput /\ a.output = out
    BY DEF Artifact
  <2>2. a \in Artifacts
    <3> HIDE DEF out
    <3> QED BY <1>1, <1>4 DEF Artifact, Artifacts
  <2> QED BY <1>4, <2>1, <2>2 DEF Verified
<1>7. /\ candidates' = Append(candidates, a) /\ costs' = Append(costs, d)
      /\ phase = "prove" /\ honest
      /\ UNCHANGED <<model, wanted, goal, phase, index, cost, honest, pos, verdict>>
  BY DEF ProveCandidate, call, Proving
<1> HIDE DEF a, d, out, ran
<1>8. TypeOK'
  BY <1>5, <1>6, <1>7 DEF IInv, TypeOK
<1>9. AcceptedSoFar'
  BY <1>7 DEF IInv, TypeOK, AcceptedSoFar
<1>10. HonestSoFar'
  <2> DEFINE n == Len(candidates)
  <2>0. /\ candidates \in Seq(Artifacts) /\ costs \in Seq(Int) /\ Len(costs) = n
        /\ n \in Nat /\ DOMAIN candidates = 1..n
    BY <1>7 DEF IInv, TypeOK, HonestSoFar
  <2>1. /\ Len(costs') = n + 1 /\ Len(candidates') = n + 1 /\ DOMAIN candidates' = 1..(n + 1)
        /\ candidates'[n + 1] = a /\ costs'[n + 1] = d
        /\ \A j \in 1..n : candidates'[j] = candidates[j] /\ costs'[j] = costs[j]
    BY <1>5, <1>6, <1>7, <2>0, AppendAt
  <2>2. ASSUME NEW j \in DOMAIN candidates'
        PROVE  /\ Verified(candidates'[j]) /\ CostFits(candidates'[j].output, goal)
               /\ costs'[j] = SquaredDistance(candidates'[j].output, goal)
    <3>1. CASE j = Len(candidates) + 1
      <4>1. candidates'[j] = a /\ costs'[j] = d
        BY <2>1, <3>1
      <4> QED BY <1>5, <1>6, <4>1 DEF d
    <3>2. CASE j # Len(candidates) + 1
      <4>1. j \in DOMAIN candidates /\ candidates'[j] = candidates[j] /\ costs'[j] = costs[j]
        BY <2>0, <2>1, <2>2, <3>2
      <4> QED BY <1>7, <4>1 DEF IInv, HonestSoFar
    <3> QED BY <3>1, <3>2
  <2> QED BY <1>7, <2>1, <2>2 DEF HonestSoFar
<1>11. HonestPlanAccepted'
  BY <1>7 DEF HonestPlanAccepted
<1> QED BY <1>8, <1>9, <1>10, <1>11 DEF IInv

\* prove_planning selects.
LEMMA SelectInv ==
    ASSUME IInv, Select
    PROVE  IInv'
<1>1. /\ phase = "prove" /\ honest /\ wanted # <<>> /\ Len(candidates) = Len(wanted)
      /\ index' = ArgMin(costs) - 1 /\ cost' = costs[ArgMin(costs)] /\ phase' = "check"
      /\ UNCHANGED <<model, wanted, goal, candidates, costs, honest, pos, verdict>>
  BY DEF Select, call
<1>2. candidates # <<>> /\ costs \in Seq(Int) /\ costs # <<>>
  <2>1. wanted \in Seq(Seq(Int)) /\ candidates \in Seq(Artifacts) /\ costs \in Seq(Int)
    BY PlanningAssumption DEF IInv, TypeOK
  <2>2. Len(costs) = Len(candidates)
    BY <1>1 DEF IInv, HonestSoFar
  <2> QED BY <1>1, <2>1, <2>2
<1>3. ArgMin(costs) \in 1..Len(costs)
  BY <1>2, ArgMinFirst DEF FirstMin
<1>4. index' \in Nat /\ cost' \in Int
  BY <1>1, <1>2, <1>3
<1>5. TypeOK'
  BY <1>1, <1>4 DEF IInv, TypeOK
<1>6. AcceptedSoFar'
  BY <1>1 DEF IInv, TypeOK, AcceptedSoFar
<1>7. HonestSoFar'
  BY <1>1, <1>2 DEF IInv, HonestSoFar
<1>8. HonestPlanAccepted'
  BY <1>1 DEF HonestPlanAccepted
<1> QED BY <1>5, <1>6, <1>7, <1>8 DEF IInv

\* Every other step of the prover and of the verifier.
LEMMA NextInv == IInv /\ [Next]_vars => IInv'
<1> SUFFICES ASSUME IInv, [Next]_vars PROVE IInv'
  OBVIOUS
<1>1. CASE ProveCandidate
  BY <1>1, ProveCandidateInv
<1>2. CASE ProveFail
  BY <1>2 DEF ProveFail, call, proof, IInv, TypeOK, AcceptedSoFar, HonestSoFar,
              HonestPlanAccepted, GateFails
<1>3. CASE Select
  BY <1>3, SelectInv
<1>4. CASE \E a \in Forged, cs \in { <<>> } \union { <<c>> : c \in Costs } : ForgeCandidate(a, cs)
  <2>1. PICK a \in Forged, cs \in { <<>> } \union { <<c>> : c \in Costs } : ForgeCandidate(a, cs)
    BY <1>4
  <2>2. a \in Artifacts /\ cs \in Seq(Int)
    <3>1. a \in Artifacts
      BY PlanningAssumption
    <3>2. CASE cs = <<>>
      BY <3>1, <3>2
    <3>3. CASE cs # <<>>
      <4>1. PICK c \in Costs : cs = <<c>>
        BY <3>3
      <4>2. c \in Int
        BY PlanningAssumption
      <4> QED BY <3>1, <4>1, <4>2
    <3> QED BY <3>2, <3>3
  <2>3. /\ candidates' = Append(candidates, a) /\ costs' = costs \o cs /\ honest' = FALSE
        /\ phase = "prove" /\ UNCHANGED <<model, wanted, goal, phase, index, cost, pos, verdict>>
    BY <2>1 DEF ForgeCandidate, call
  <2>4. candidates' \in Seq(Artifacts) /\ costs' \in Seq(Int) /\ pos' = 0
    BY <2>2, <2>3, AppendAt DEF IInv, TypeOK, AcceptedSoFar
  <2>5. TypeOK'
    <3>1. pos' \in 0..Len(candidates')
      BY <2>4
    <3>2. phase' = phase /\ verdict' = verdict /\ honest' \in BOOLEAN /\ index' = index /\ cost' = cost
      BY <2>3
    <3>3. model' = model /\ wanted' = wanted /\ goal' = goal
      BY <2>3
    <3> HIDE <2>3
    <3> QED BY <2>4, <3>1, <3>2, <3>3 DEF IInv, TypeOK
  <2> QED BY <2>3, <2>4, <2>5 DEF IInv, TypeOK, AcceptedSoFar, HonestSoFar, HonestPlanAccepted
<1>5. CASE \E i \in 0..MaxSent, c \in Costs : ForgeSelection(i, c)
  <2>1. PICK i \in 0..MaxSent, c \in Costs : ForgeSelection(i, c)
    BY <1>5
  <2>2. i \in Nat /\ c \in Int
    BY PlanningAssumption
  <2>3. /\ index' = i /\ cost' = c /\ honest' = FALSE /\ phase = "prove" /\ phase' = "check"
        /\ UNCHANGED <<model, wanted, goal, candidates, costs, pos, verdict>>
    BY <2>1 DEF ForgeSelection, call
  <2>4. TypeOK'
    BY <2>2, <2>3 DEF IInv, TypeOK
  <2>5. AcceptedSoFar'
    BY <2>3 DEF IInv, TypeOK, AcceptedSoFar
  <2>6. HonestSoFar' /\ HonestPlanAccepted'
    BY <2>3 DEF HonestSoFar, HonestPlanAccepted
  <2> QED BY <2>4, <2>5, <2>6 DEF IInv
<1>6. CASE Reject
  <2>1. /\ phase = "check" /\ GateFails /\ phase' = "done"
        /\ verdict' \in {"NoCandidates", "ArgminViolation"}
        /\ UNCHANGED <<model, wanted, goal, candidates, costs, index, cost, honest, pos>>
    BY <1>6 DEF Reject, Return, call, proof
  <2>2. ~honest
    BY <2>1 DEF IInv, HonestSoFar, GateFails
  <2>3. TypeOK'
    BY <2>1 DEF IInv, TypeOK, Verdicts
  <2>4. AcceptedSoFar'
    BY <2>1 DEF IInv, AcceptedSoFar, GateFails, CostMatches
  <2>5. HonestSoFar' /\ HonestPlanAccepted'
    BY <2>1, <2>2 DEF HonestSoFar, HonestPlanAccepted
  <2> QED BY <2>3, <2>4, <2>5 DEF IInv
<1>7. CASE CheckCandidate
  <2>1. /\ phase = "check" /\ ~GateFails /\ pos < Len(candidates) /\ pos' = pos + 1
        /\ Verified(candidates[pos + 1]) /\ CostMatches(candidates[pos + 1], costs[pos + 1])
        /\ UNCHANGED <<model, wanted, goal, phase, candidates, costs, index, cost, honest, verdict>>
    BY <1>7 DEF CheckCandidate, Checking, call, proof
  <2>2. TypeOK'
    BY <2>1 DEF IInv, TypeOK
  <2>3. \A j \in 1..pos' : Verified(candidates[j]) /\ CostMatches(candidates[j], costs[j])
    BY <2>1 DEF IInv, TypeOK, AcceptedSoFar
  <2>4. AcceptedSoFar'
    BY <2>1, <2>2, <2>3 DEF IInv, TypeOK, AcceptedSoFar, GateFails, CostMatches
  <2>5. HonestSoFar' /\ HonestPlanAccepted'
    BY <2>1 DEF IInv, HonestSoFar, HonestPlanAccepted
  <2> QED BY <2>2, <2>4, <2>5 DEF IInv
<1>8. CASE RejectCandidate
  <2>1. /\ phase = "check" /\ ~GateFails /\ pos < Len(candidates) /\ phase' = "done"
        /\ ~Verified(candidates[pos + 1]) \/ ~CostMatches(candidates[pos + 1], costs[pos + 1])
        /\ \/ ~Verified(candidates[pos + 1]) /\ verdict' = "Candidate"
           \/ verdict' = "CostMismatch"
        /\ UNCHANGED <<model, wanted, goal, candidates, costs, index, cost, honest, pos>>
    BY <1>8 DEF RejectCandidate, Checking, Return, call, proof
  <2>2. TypeOK' /\ AcceptedSoFar'
    BY <2>1 DEF IInv, TypeOK, Verdicts, AcceptedSoFar, GateFails, CostMatches
  <2>3. HonestSoFar'
    BY <2>1 DEF IInv, HonestSoFar
  <2>4. HonestPlanAccepted'
    <3>1. pos + 1 \in DOMAIN candidates
      BY <2>1 DEF IInv, TypeOK
    <3>2. SUFFICES ASSUME honest
                   PROVE  verdict' = "CostMismatch" /\ Len(candidates[pos + 1].output) # Len(goal)
      BY <2>1 DEF HonestPlanAccepted
    <3> QED BY <2>1, <3>1, <3>2 DEF IInv, HonestSoFar, CostMatches
  <2> QED BY <2>2, <2>3, <2>4 DEF IInv
<1>9. CASE CheckSelection
  <2>1. /\ phase = "check" /\ ~GateFails /\ pos = Len(candidates) /\ phase' = "done"
        /\ verdict' = IF ArgminVerified(costs, index, cost) THEN "ok" ELSE "ArgminViolation"
        /\ UNCHANGED <<model, wanted, goal, candidates, costs, index, cost, honest, pos>>
    BY <1>9 DEF CheckSelection, Return, call, proof
  <2>2. TypeOK'
    BY <2>1 DEF IInv, TypeOK, Verdicts
  <2>3. AcceptedSoFar'
    BY <2>1 DEF IInv, TypeOK, AcceptedSoFar, GateFails, CostMatches
  <2>4. HonestSoFar'
    BY <2>1 DEF IInv, HonestSoFar
  <2>5. HonestPlanAccepted'
    <3>1. SUFFICES ASSUME honest PROVE verdict' = "ok"
      BY <2>1 DEF HonestPlanAccepted
    <3>2. index = ArgMin(costs) - 1 /\ cost = costs[ArgMin(costs)]
      BY <2>1, <3>1 DEF IInv, HonestSoFar
    <3>3. costs \in Seq(Int) /\ costs # <<>>
      BY <2>1, <3>1 DEF IInv, TypeOK, HonestSoFar, GateFails
    <3>4. ArgminVerified(costs, ArgMin(costs) - 1, costs[ArgMin(costs)])
      BY <3>3, ArgMinPasses
    <3> QED BY <2>1, <3>2, <3>4
  <2> QED BY <2>2, <2>3, <2>4, <2>5 DEF IInv
<1>10. CASE UNCHANGED vars
  BY <1>10 DEF vars, call, proof, IInv, TypeOK, AcceptedSoFar, HonestSoFar, HonestPlanAccepted,
               GateFails, CostMatches
<1> QED BY <1>1, <1>2, <1>3, <1>4, <1>5, <1>6, <1>7, <1>8, <1>9, <1>10 DEF Next

(******************************* the theorems ******************************)
\* Every variable of planning keeps its type, and the verifier has a verdict
\* exactly when it is done.
THEOREM TypeCorrect == Spec => []TypeOK
<1>1. IInv => TypeOK
  BY DEF IInv
<1> QED BY <1>1, InitInv, NextInv, PTL DEF Spec

\* An accepted plan selects the first of the candidates of least true cost,
\* whatever the prover sent (pwm-verifier verify_planning).
THEOREM PlanSound == Spec => []SelectionSound
<1>1. IInv => SelectionSound
  <2> SUFFICES ASSUME IInv, verdict = "ok" PROVE SelectionSound
    BY DEF SelectionSound
  <2>1. /\ pos = Len(candidates) /\ Len(costs) = Len(candidates)
        /\ ArgminVerified(costs, index, cost)
        /\ candidates \in Seq(Artifacts) /\ costs \in Seq(Int) /\ index \in Nat /\ cost \in Int
    BY DEF IInv, TypeOK, AcceptedSoFar, GateFails
  <2>2. ASSUME NEW j \in DOMAIN candidates
        PROVE  TrueCost(candidates[j]) = costs[j] /\ costs[j] <= CostMax
    <3>1. Verified(candidates[j]) /\ CostMatches(candidates[j], costs[j])
      BY <2>1 DEF IInv, AcceptedSoFar
    <3>2. Head(Predicted(candidates[j].model, candidates[j].input)) = candidates[j].output
      BY <3>1 DEF Verified
    <3> QED BY <3>1, <3>2 DEF CostMatches, CostFits, TrueCost
  <2>3. index + 1 \in DOMAIN candidates /\ index < Len(candidates) /\ costs[index + 1] = cost
    BY <2>1 DEF ArgminVerified
  <2>4. ASSUME NEW j \in DOMAIN candidates
        PROVE  costs[j] >= cost /\ (j <= index => costs[j] > cost)
    <3>1. j \in DOMAIN costs /\ costs[j] \in Int /\ (j <= index => j \in 1..index)
      BY <2>1
    <3> QED BY <2>1, <3>1 DEF ArgminVerified
  <2>5. cost = TrueCost(candidates[index + 1]) /\ cost <= CostMax
    BY <2>2, <2>3
  <2> QED BY <2>2, <2>3, <2>4, <2>5 DEF SelectionSound
<1> QED BY <1>1, InitInv, NextInv, PTL DEF Spec

\* prove_planning's own proof is accepted, or refused for the goal's length alone.
THEOREM PlanComplete == Spec => []HonestPlanAccepted
<1>1. IInv => HonestPlanAccepted
  BY DEF IInv
<1> QED BY <1>1, InitInv, NextInv, PTL DEF Spec

(**************************** both verifiers *******************************)
\* The batched system runs planning as it is, so what is shown above of a plan
\* holds of it, and the two verifiers agree.
bplan == <<vars, bvars>>

\* The step of the batched system on the plan: one of planning's or none.
LEMMA PlanSteps == [BNext]_bplan => [Next]_vars
<1> SUFFICES ASSUME [BNext]_bplan PROVE [Next]_vars
  OBVIOUS
<1>1. CASE PlanStep
  BY <1>1 DEF PlanStep
<1>2. CASE VerifyBatched
  BY <1>2 DEF VerifyBatched, BatchReject, FallBack, PrepareFails, Prepare, BatchCandidate,
              BatchSelection, Answer
<1>3. CASE UNCHANGED bplan
  BY <1>3 DEF bplan
<1> QED BY <1>1, <1>2, <1>3 DEF BNext

(******************************* the invariant *****************************)
Passes(j) == Verified(candidates[j]) /\ CostMatches(candidates[j], costs[j])

\* Why verify_planning answered what it did: pos is the first candidate that fails.
Explained ==
    phase = "done" =>
        \/ GateFails /\ verdict = IF candidates = <<>> THEN "NoCandidates" ELSE "ArgminViolation"
        \/ /\ ~GateFails /\ pos < Len(candidates) /\ ~Verified(candidates[pos + 1])
           /\ verdict = "Candidate"
        \/ /\ ~GateFails /\ pos < Len(candidates) /\ Verified(candidates[pos + 1])
           /\ ~CostMatches(candidates[pos + 1], costs[pos + 1]) /\ verdict = "CostMismatch"
        \/ /\ ~GateFails /\ pos = Len(candidates)
           /\ verdict = IF ArgminVerified(costs, index, cost) THEN "ok" ELSE "ArgminViolation"

\* The batched walk only runs over candidates of one model, behind the first verdict,
\* and has passed what it has left behind.
BatchSoFar ==
    /\ at \in Nat /\ batch \in {"idle", "walk", "done"}
    /\ batch = "idle" => at = 0
    /\ batch # "idle" => phase = "done"
    /\ batch = "walk" => /\ ~GateFails /\ Shared /\ at <= Len(candidates)
                         /\ \A j \in 1..at : Passes(j)

BInv == IInv /\ Explained /\ BatchSoFar /\ SameVerdict

LEMMA BInitInv == BInit => BInv
<1> SUFFICES ASSUME BInit PROVE BInv
  OBVIOUS
<1>1. IInv
  BY InitInv DEF BInit
<1>2. Explained /\ BatchSoFar /\ SameVerdict
  BY DEF BInit, Init, Explained, BatchSoFar, SameVerdict
<1> QED BY <1>1, <1>2 DEF BInv

\* A step of planning before its verdict.
LEMMA PlanStepInv ==
    ASSUME BInv, PlanStep
    PROVE  Explained' /\ BatchSoFar' /\ SameVerdict'
<1>1. Next /\ batch' = batch /\ at' = at /\ answer' = answer
  BY DEF PlanStep, bvars
<1>2. phase # "done"
  BY <1>1 DEF Next, ProveCandidate, ProveFail, Select, ForgeCandidate, ForgeSelection, Reject,
              CheckCandidate, RejectCandidate, CheckSelection, Proving, Checking
<1>3. batch = "idle" /\ at = 0
  BY <1>2 DEF BInv, BatchSoFar
<1>4. BatchSoFar' /\ SameVerdict'
  BY <1>1, <1>3 DEF BInv, BatchSoFar, SameVerdict
<1>5. Explained'
  <2>1. CASE ProveCandidate \/ ProveFail \/ Select \/ CheckCandidate
    <3>1. phase' # "done"
      BY <2>1, <1>2 DEF ProveCandidate, ProveFail, Select, CheckCandidate, Proving, Checking, call
    <3> QED BY <3>1 DEF Explained
  <2>2. CASE \E a \in Forged, cs \in { <<>> } \union { <<c>> : c \in Costs } : ForgeCandidate(a, cs)
    BY <2>2, <1>2 DEF ForgeCandidate, Explained
  <2>3. CASE \E i \in 0..MaxSent, c \in Costs : ForgeSelection(i, c)
    BY <2>3 DEF ForgeSelection, Explained
  <2>4. CASE Reject
    BY <2>4 DEF Reject, Return, proof, GateFails, Explained
  <2>5. CASE RejectCandidate
    BY <2>5 DEF RejectCandidate, Checking, Return, call, proof, GateFails, CostMatches, Explained
  <2>6. CASE CheckSelection
    BY <2>6 DEF CheckSelection, Return, proof, GateFails, Explained
  <2> QED BY <1>1, <2>1, <2>2, <2>3, <2>4, <2>5, <2>6 DEF Next
<1> QED BY <1>4, <1>5

\* Where the first verdict is about a candidate, no earlier one fails, and none fails
\* where it is about the selection.
LEMMA FirstFailure ==
    ASSUME BInv, phase = "done", ~GateFails, NEW n \in Nat, n <= Len(candidates),
           \A j \in 1..n : Passes(j)
    PROVE  /\ n < Len(candidates) /\ ~Verified(candidates[n + 1]) => verdict = "Candidate"
           /\ /\ n < Len(candidates) /\ Verified(candidates[n + 1])
              /\ ~CostMatches(candidates[n + 1], costs[n + 1])
              => verdict = "CostMismatch"
           /\ n = Len(candidates) =>
                  verdict = IF ArgminVerified(costs, index, cost) THEN "ok" ELSE "ArgminViolation"
<1>1. pos \in Nat /\ pos <= Len(candidates) /\ Len(candidates) \in Nat /\ \A j \in 1..pos : Passes(j)
  BY DEF BInv, IInv, TypeOK, AcceptedSoFar, Passes
<1>2. CASE pos < Len(candidates) /\ ~Passes(pos + 1)
  <2>1. ~(pos < n)
    <3>1. pos < n => pos + 1 \in 1..n
      BY <1>1
    <3> QED BY <3>1, <1>2
  <2>2. n < Len(candidates) /\ ~Passes(n + 1) => n = pos
    <3>1. n < pos => n + 1 \in 1..pos
      BY <1>1
    <3> QED BY <3>1, <1>1, <2>1
  <2>3. n # Len(candidates)
    BY <1>1, <1>2, <2>1
  <2> QED BY <1>2, <2>2, <2>3 DEF BInv, Explained, Passes
<1>3. CASE ~(pos < Len(candidates) /\ ~Passes(pos + 1))
  <2>1. /\ pos = Len(candidates)
        /\ verdict = IF ArgminVerified(costs, index, cost) THEN "ok" ELSE "ArgminViolation"
    BY <1>3 DEF BInv, Explained, Passes
  <2>2. n < Len(candidates) => n + 1 \in 1..pos
    BY <1>1, <2>1
  <2>3. n < Len(candidates) => Passes(n + 1)
    BY <1>1, <2>2
  <2> QED BY <2>1, <2>3 DEF Passes
<1> QED BY <1>2, <1>3

\* Behind the gate, and on candidates of one model, the audit is each candidate's own.
LEMMA OneModel ==
    ASSUME BInv, ~GateFails, Shared
    PROVE  /\ Len(candidates) \in Nat /\ 0 < Len(candidates)
           /\ \A j \in 1..Len(candidates) : Audited(candidates[j]) <=> Verified(candidates[j])
<1>1. candidates \in Seq(Artifacts) /\ candidates # <<>>
  BY DEF BInv, IInv, TypeOK, GateFails
<1>2. Len(candidates) \in Nat /\ 0 < Len(candidates)
  BY <1>1
<1>3. ASSUME NEW j \in 1..Len(candidates)
      PROVE  Audited(candidates[j]) <=> Verified(candidates[j])
  <2>1. candidates[j].model = First
    BY <1>1, <1>3 DEF Shared
  <2> QED BY <2>1 DEF Audited, Verified
<1> QED BY <1>2, <1>3

\* A step of the batched verifier.
LEMMA BatchInv ==
    ASSUME BInv, VerifyBatched
    PROVE  Explained' /\ BatchSoFar' /\ SameVerdict'
<1>1. UNCHANGED vars
  BY DEF VerifyBatched, BatchReject, FallBack, PrepareFails, Prepare, BatchCandidate,
         BatchSelection, Answer
<1>2. /\ UNCHANGED <<phase, candidates, costs, index, cost, pos, verdict, goal>>
      /\ GateFails' = GateFails /\ Shared' = Shared
      /\ \A j : Passes(j)' = Passes(j)
  BY <1>1 DEF vars, call, proof, GateFails, Shared, First, Passes, CostMatches
<1>3. Explained'
  BY <1>2 DEF BInv, Explained, CostMatches
<1> SUFFICES BatchSoFar' /\ SameVerdict'
  BY <1>3
<1>4. phase = "done" /\ batch # "done"
  BY DEF VerifyBatched, BatchReject, FallBack, PrepareFails, Prepare, BatchCandidate,
         BatchSelection, Called, BInv, BatchSoFar
<1>5. ASSUME NEW v, Answer(v), v = verdict \/ (v = "MissingBinding" /\ verdict = "Candidate")
      PROVE  BatchSoFar' /\ SameVerdict'
  BY <1>2, <1>4, <1>5 DEF Answer, BInv, BatchSoFar, SameVerdict
<1>6. CASE BatchReject
  BY <1>4, <1>5, <1>6 DEF BatchReject, BInv, Explained
<1>7. CASE FallBack
  BY <1>5, <1>7 DEF FallBack
<1>8. CASE PrepareFails
  <2>1. ~GateFails /\ Shared /\ First \in Unbound /\ Answer("MissingBinding")
    BY <1>8 DEF PrepareFails
  <2>2. 0 < Len(candidates)
    BY <2>1, OneModel
  <2>3. ~Verified(candidates[1])
    BY <2>1, UnboundAssumption DEF First, Verified, Predicted
  <2>4. verdict = "Candidate"
    BY <1>4, <2>1, <2>2, <2>3, FirstFailure
  <2> QED BY <1>5, <2>1, <2>4
<1>9. CASE Prepare
  <2>1. ~GateFails /\ Shared /\ batch = "idle" /\ batch' = "walk" /\ at' = at /\ answer' = answer
    BY <1>9 DEF Prepare, Called
  <2>2. at = 0 /\ 0 <= Len(candidates)
    BY <2>1, OneModel DEF BInv, BatchSoFar
  <2> QED BY <1>2, <1>4, <2>1, <2>2 DEF BatchSoFar, SameVerdict
<1>10. CASE BatchCandidate
  <2>1. /\ batch = "walk" /\ at < Len(candidates) /\ at \in Nat /\ ~GateFails /\ Shared
        /\ \A j \in 1..at : Passes(j)
    BY <1>10 DEF BatchCandidate, BInv, BatchSoFar
  <2>2. Audited(candidates[at + 1]) <=> Verified(candidates[at + 1])
    BY <2>1, OneModel
  <2>3. /\ ~Verified(candidates[at + 1]) => verdict = "Candidate"
        /\ Verified(candidates[at + 1]) /\ ~CostMatches(candidates[at + 1], costs[at + 1])
           => verdict = "CostMismatch"
    BY <1>4, <2>1, OneModel, FirstFailure
  <2>4. CASE Passes(at + 1) /\ at' = at + 1 /\ batch' = batch /\ answer' = answer
    <3>1. \A j \in 1..at' : Passes(j)
      BY <2>1, <2>4
    <3>2. at' <= Len(candidates)
      BY <2>1, <2>4, OneModel
    <3> QED BY <1>2, <1>4, <2>1, <2>4, <3>1, <3>2 DEF BatchSoFar, SameVerdict
  <2>5. CASE ~Verified(candidates[at + 1]) /\ Answer("Candidate")
    BY <1>5, <2>3, <2>5
  <2>6. CASE /\ Verified(candidates[at + 1]) /\ ~CostMatches(candidates[at + 1], costs[at + 1])
             /\ Answer("CostMismatch")
    BY <1>5, <2>3, <2>6
  <2> QED BY <1>10, <2>2, <2>4, <2>5, <2>6 DEF BatchCandidate, Passes
<1>11. CASE BatchSelection
  <2>1. /\ at = Len(candidates) /\ at \in Nat /\ ~GateFails /\ \A j \in 1..at : Passes(j)
        /\ Answer(IF ArgminVerified(costs, index, cost) THEN "ok" ELSE "ArgminViolation")
    BY <1>11 DEF BatchSelection, BInv, BatchSoFar
  <2>2. verdict = IF ArgminVerified(costs, index, cost) THEN "ok" ELSE "ArgminViolation"
    BY <1>4, <2>1, FirstFailure
  <2> QED BY <1>5, <2>1, <2>2
<1> QED BY <1>6, <1>7, <1>8, <1>9, <1>10, <1>11 DEF VerifyBatched

LEMMA BNextInv == BInv /\ [BNext]_bplan => BInv'
<1> SUFFICES ASSUME BInv, [BNext]_bplan PROVE BInv'
  OBVIOUS
<1>1. IInv'
  BY PlanSteps, NextInv DEF BInv
<1>2. Explained' /\ BatchSoFar' /\ SameVerdict'
  <2>1. CASE PlanStep
    BY <2>1, PlanStepInv
  <2>2. CASE VerifyBatched
    BY <2>2, BatchInv
  <2>3. CASE UNCHANGED bplan
    BY <2>3 DEF bplan, bvars, vars, call, proof, BInv, Explained, BatchSoFar, SameVerdict, Passes,
                Shared, First, GateFails, CostMatches
  <2> QED BY <2>1, <2>2, <2>3 DEF BNext
<1> QED BY <1>1, <1>2 DEF BInv

(******************************* the theorems ******************************)
\* The batched system runs planning: what is proved of a plan holds of it.
THEOREM BatchedIsPlanning == BSpec => Spec
<1>1. BInit => Init
  BY DEF BInit
<1> QED BY <1>1, PlanSteps, PTL DEF BSpec, Spec, bplan

\* verify_planning_batched is verdict-equivalent to verify_planning (pwm-verifier
\* lib.rs), whatever the proof holds.
THEOREM BatchedAgrees == BSpec => []SameVerdict
<1>1. BInv => SameVerdict
  BY DEF BInv
<1> QED BY <1>1, BInitInv, BNextInv, PTL DEF BSpec, bplan

(************************* the order of a CEM elite ************************)
\* The candidates that come before candidate i, and how many they are.
Earlier(cs, i) == { j \in DOMAIN cs : Before(cs, j, i) }

Rank(cs, i) == Cardinality(Earlier(cs, i))

LEMMA RankType ==
    ASSUME NEW cs \in Seq(Int), NEW i \in DOMAIN cs
    PROVE  /\ IsFiniteSet(Earlier(cs, i)) /\ i \notin Earlier(cs, i)
           /\ Rank(cs, i) \in 0..(Len(cs) - 1)
<1>1. PICK n \in Nat : n = Len(cs) /\ DOMAIN cs = 1..n
  OBVIOUS
<1>2. i \notin Earlier(cs, i) /\ Earlier(cs, i) \in SUBSET (1..n) /\ i \in 1..n
  BY <1>1 DEF Earlier, Before
<1>3. IsFiniteSet(1..n) /\ Cardinality(1..n) = n
  BY FS_Interval
<1>4. IsFiniteSet(Earlier(cs, i)) /\ Rank(cs, i) <= n /\ (Rank(cs, i) = n => Earlier(cs, i) = 1..n)
  BY <1>2, <1>3, FS_Subset DEF Rank
<1>5. Rank(cs, i) \in Nat
  BY <1>4, FS_CardinalityType DEF Rank
<1>6. Rank(cs, i) # n
  BY <1>2, <1>4
<1> QED BY <1>1, <1>2, <1>4, <1>5, <1>6

\* A candidate that comes before another one has the smaller rank.
LEMMA RankOrder ==
    ASSUME NEW cs \in Seq(Int), NEW i \in DOMAIN cs, NEW j \in DOMAIN cs, Before(cs, i, j)
    PROVE  Rank(cs, i) < Rank(cs, j)
<1>1. Earlier(cs, i) \in SUBSET Earlier(cs, j)
  BY DEF Earlier, Before
<1>2. i \in Earlier(cs, j) /\ i \notin Earlier(cs, i)
  BY RankType DEF Earlier
<1>3. IsFiniteSet(Earlier(cs, j))
  BY RankType
<1>4. Rank(cs, i) <= Rank(cs, j) /\ Rank(cs, i) # Rank(cs, j)
  BY <1>1, <1>2, <1>3, FS_Subset DEF Rank
<1>5. Rank(cs, i) \in Int /\ Rank(cs, j) \in Int
  BY RankType
<1> QED BY <1>4, <1>5

\* The order is total: every rank is taken, by one candidate.
LEMMA RankOnce ==
    ASSUME NEW cs \in Seq(Int)
    PROVE  /\ \A i, j \in DOMAIN cs : Rank(cs, i) = Rank(cs, j) => i = j
           /\ \A k \in 0..(Len(cs) - 1) : \E i \in DOMAIN cs : Rank(cs, i) = k
<1>1. ASSUME NEW i \in DOMAIN cs, NEW j \in DOMAIN cs, Rank(cs, i) = Rank(cs, j)
      PROVE  i = j
  <2>1. i = j \/ Before(cs, i, j) \/ Before(cs, j, i)
    BY DEF Before
  <2>2. Rank(cs, i) \in Int /\ Rank(cs, j) \in Int
    BY RankType
  <2> QED BY <1>1, <2>1, <2>2, RankOrder
<1>2. PICK n \in Nat : n = Len(cs) /\ DOMAIN cs = 1..n
  OBVIOUS
<1> DEFINE f == [i \in 1..n |-> Rank(cs, i)]
<1>3. f \in [1..n -> 0..(n - 1)]
  BY <1>2, RankType
<1>4. \A i, j \in 1..n : f[i] = f[j] => i = j
  BY <1>1, <1>2
<1>5. IsFiniteSet(0..(n - 1)) /\ Cardinality(0..(n - 1)) = n /\ Cardinality(1..n) = n
  BY FS_Interval
<1>6. \A k \in 0..(n - 1) : \E i \in 1..n : f[i] = k
  <2> HIDE DEF f
  <2>1. f \in Injection(1..n, 0..(n - 1))
    BY <1>3, <1>4 DEF Injection, IsInjective
  <2>2. f \in Surjection(1..n, 0..(n - 1))
    BY <1>5, <2>1, FS_Injection
  <2> QED BY <2>2 DEF Surjection
<1> QED BY <1>1, <1>2, <1>6

\* The elite's size, and its members: the candidates of the first ranks.
EliteSize(cs, k) == IF k <= Len(cs) THEN k ELSE Len(cs)

LEMMA TopKIs ==
    ASSUME NEW cs \in Seq(Int), NEW k \in Nat
    PROVE  /\ EliteSize(cs, k) \in 0..Len(cs)
           /\ TopK(cs, k) \in [1..EliteSize(cs, k) -> 0..(Len(cs) - 1)]
           /\ \A r \in 1..EliteSize(cs, k) :
                 TopK(cs, k)[r] + 1 \in DOMAIN cs /\ Rank(cs, TopK(cs, k)[r] + 1) = r - 1
<1>1. PICK n \in Nat : n = Len(cs) /\ DOMAIN cs = 1..n
  OBVIOUS
<1>2. PICK m \in 0..n : m = EliteSize(cs, k) /\ Min({k, n}) = m
  <2>1. PICK m \in 0..n : m = EliteSize(cs, k)
    BY <1>1 DEF EliteSize
  <2>2. m \in {k, n} /\ \A y \in {k, n} : m <= y
    BY <1>1, <2>1 DEF EliteSize
  <2>3. \A x \in {k, n} : (\A y \in {k, n} : x <= y) => x = m
    BY <2>1, <2>2
  <2>4. Min({k, n}) = m
    BY <2>2, <2>3 DEF Min
  <2> QED BY <2>1, <2>4
<1> DEFINE At(r) == CHOOSE i \in 1..n : Rank(cs, i) = r - 1
<1>3. TopK(cs, k) = [r \in 1..m |-> At(r) - 1]
  BY <1>1, <1>2 DEF TopK, Rank, Earlier
<1>4. ASSUME NEW r \in 1..m
      PROVE  At(r) \in 1..n /\ Rank(cs, At(r)) = r - 1
  <2>1. \E i \in 1..n : Rank(cs, i) = r - 1
    BY <1>1, r - 1 \in 0..(n - 1), RankOnce
  <2> QED BY <2>1
<1> HIDE DEF At
<1>5. \A r \in 1..m : TopK(cs, k)[r] = At(r) - 1 /\ (At(r) - 1) + 1 = At(r) /\ At(r) - 1 \in 0..(n - 1)
  BY <1>3, <1>4
<1>6. TopK(cs, k) \in [1..m -> 0..(n - 1)]
  BY <1>3, <1>5
<1> QED BY <1>1, <1>2, <1>4, <1>5, <1>6

\* Candidate i is in the elite when fewer than its size come before it.
LEMMA EliteRanks ==
    ASSUME NEW cs \in Seq(Int), NEW k \in Nat, NEW i \in DOMAIN cs
    PROVE  i - 1 \in Range(TopK(cs, k)) <=> Rank(cs, i) < EliteSize(cs, k)
<1>1. PICK m \in Nat : m = EliteSize(cs, k)
  BY TopKIs
<1>2. DOMAIN TopK(cs, k) = 1..m
  BY <1>1, TopKIs
<1>3. i \in Int /\ Rank(cs, i) \in Nat
  BY RankType
<1>4. ASSUME NEW r \in 1..m, TopK(cs, k)[r] = i - 1
      PROVE  Rank(cs, i) < m
  <2>1. TopK(cs, k)[r] + 1 = i
    BY <1>3, <1>4
  <2>2. Rank(cs, i) = r - 1
    BY <1>1, <2>1, TopKIs
  <2> QED BY <2>2
<1>5. ASSUME Rank(cs, i) < m
      PROVE  \E r \in 1..m : TopK(cs, k)[r] = i - 1
  <2> DEFINE r == Rank(cs, i) + 1
  <2>1. r \in 1..m /\ r - 1 = Rank(cs, i)
    BY <1>3, <1>5
  <2>2. TopK(cs, k)[r] + 1 \in DOMAIN cs /\ Rank(cs, TopK(cs, k)[r] + 1) = Rank(cs, i) /\ TopK(cs, k)[r] \in Int
    <3>1. TopK(cs, k)[r] + 1 \in DOMAIN cs /\ Rank(cs, TopK(cs, k)[r] + 1) = r - 1
      BY <1>1, <2>1, TopKIs
    <3>2. TopK(cs, k)[r] \in 0..(Len(cs) - 1)
      BY <1>1, <2>1, TopKIs
    <3> QED BY <2>1, <3>1, <3>2
  <2>3. TopK(cs, k)[r] + 1 = i
    BY <2>2, RankOnce
  <2>4. TopK(cs, k)[r] = i - 1
    BY <1>3, <2>2, <2>3
  <2> QED BY <2>1, <2>4
<1> QED BY <1>1, <1>2, <1>4, <1>5 DEF Range

\* What verify_topk has checked when it accepts.
LEMMA TopkAccepted ==
    ASSUME NEW cs \in Seq(Int), NEW sel \in Seq(Nat), NEW k \in Nat
    PROVE  VerifyTopk(cs, sel, k) = "ok" <=>
              /\ Len(sel) = k /\ Range(sel) = Range(TopK(cs, k))
              /\ \A i \in 1..k : sel[i] < Len(cs)
              /\ \A i, j \in 1..k : sel[i] = sel[j] => i = j
<1>1. Len(sel) \in Nat /\ DOMAIN sel = 1..Len(sel) /\ \A i \in 1..Len(sel) : sel[i] \in Nat
  OBVIOUS
<1>2. Len(cs) \in Nat
  OBVIOUS
<1>3. BadIndex(cs, sel) = {} <=> /\ \A i \in DOMAIN sel : sel[i] < Len(cs)
                                 /\ \A i, j \in DOMAIN sel : sel[i] = sel[j] => i = j
  <2>1. ASSUME BadIndex(cs, sel) = {}, NEW i \in DOMAIN sel
        PROVE  sel[i] < Len(cs)
    BY <1>1, <1>2, <2>1 DEF BadIndex
  <2>2. ASSUME BadIndex(cs, sel) = {}, NEW i \in DOMAIN sel, NEW j \in DOMAIN sel, sel[i] = sel[j]
        PROVE  i = j
    <3>1. i \in Int /\ j \in Int /\ i >= 1 /\ j >= 1
      BY <1>1
    <3>2. ~(i < j)
      <4>1. i < j => i \in 1..(j - 1)
        BY <3>1
      <4>2. i < j => j \in BadIndex(cs, sel)
        BY <2>2, <4>1 DEF BadIndex
      <4> QED BY <2>2, <4>2
    <3>3. ~(j < i)
      <4>1. j < i => j \in 1..(i - 1)
        BY <3>1
      <4>2. j < i => i \in BadIndex(cs, sel)
        BY <2>2, <4>1 DEF BadIndex
      <4> QED BY <2>2, <4>2
    <3> QED BY <3>1, <3>2, <3>3
  <2>3. ASSUME \A i \in DOMAIN sel : sel[i] < Len(cs),
               \A i, j \in DOMAIN sel : sel[i] = sel[j] => i = j,
               NEW i \in BadIndex(cs, sel)
        PROVE  FALSE
    <3>1. i \in DOMAIN sel /\ i \in Int /\ sel[i] \in Int /\ i <= Len(sel)
      BY <1>1, <2>3 DEF BadIndex
    <3>2. ~(sel[i] >= Len(cs))
      BY <1>2, <2>3, <3>1
    <3>3. PICK j \in 1..(i - 1) : sel[j] = sel[i]
      BY <2>3, <3>2 DEF BadIndex
    <3>4. j \in DOMAIN sel /\ j # i
      BY <1>1, <3>1, <3>3
    <3> QED BY <2>3, <3>1, <3>3, <3>4
  <2> QED BY <2>1, <2>2, <2>3
<1>4. VerifyTopk(cs, sel, k) = "ok" <=>
         Len(sel) = k /\ BadIndex(cs, sel) = {} /\ Range(sel) = Range(TopK(cs, k))
  BY DEF VerifyTopk
<1> QED BY <1>1, <1>3, <1>4

\* An accepted elite: its members, k of them, come before every other candidate.
LEMMA AcceptedElite ==
    ASSUME NEW cs \in Seq(Int), NEW sel \in Seq(Nat), NEW k \in Nat,
           VerifyTopk(cs, sel, k) = "ok",
           NEW E, E = { i \in DOMAIN cs : \E n \in DOMAIN sel : sel[n] = i - 1 }
    PROVE  /\ Cardinality(E) = k /\ Len(sel) = k
           /\ \A i \in E, j \in DOMAIN cs \ E : Before(cs, i, j)
<1>1. /\ Len(sel) = k /\ Range(sel) = Range(TopK(cs, k)) /\ DOMAIN sel = 1..k
      /\ \A i \in 1..k : sel[i] < Len(cs) /\ sel[i] \in Nat
      /\ \A i, j \in 1..k : sel[i] = sel[j] => i = j
  <2>1. Len(sel) = k
    BY TopkAccepted
  <2>2. DOMAIN sel = 1..k /\ \A i \in 1..k : sel[i] \in Nat
    BY <2>1
  <2> QED BY <2>1, <2>2, TopkAccepted
<1>2. PICK n \in Nat : n = Len(cs) /\ DOMAIN cs = 1..n
  OBVIOUS
<1>3. Cardinality(E) = k
  <2> DEFINE f == [i \in 1..k |-> sel[i] + 1]
  <2>1. \A i \in 1..k : f[i] \in E /\ f[i] = sel[i] + 1
    <3> SUFFICES ASSUME NEW i \in 1..k PROVE sel[i] + 1 \in E
      OBVIOUS
    <3>1. sel[i] + 1 \in 1..n /\ sel[i] = (sel[i] + 1) - 1
      BY <1>1, <1>2
    <3> QED BY <1>1, <1>2, <3>1
  <2>2. \A e \in E : \E i \in 1..k : f[i] = e
    <3> SUFFICES ASSUME NEW e \in E PROVE \E i \in 1..k : sel[i] + 1 = e
      OBVIOUS
    <3>1. PICK i \in 1..k : sel[i] = e - 1
      BY <1>1
    <3>2. e \in Int
      BY <1>2
    <3> QED BY <3>1, <3>2
  <2>3. \A i, j \in 1..k : f[i] = f[j] => i = j
    <3> SUFFICES ASSUME NEW i \in 1..k, NEW j \in 1..k, sel[i] + 1 = sel[j] + 1 PROVE i = j
      OBVIOUS
    <3>1. sel[i] = sel[j]
      BY <1>1
    <3> QED BY <1>1, <3>1
  <2>4. f \in [1..k -> E]
    BY <2>1
  <2>5. IsFiniteSet(1..k) /\ Cardinality(1..k) = k
    BY FS_Interval
  <2> HIDE DEF f
  <2>6. f \in Surjection(1..k, E) /\ f \in Injection(1..k, E)
    BY <2>2, <2>3, <2>4 DEF Surjection, Injection, IsInjective
  <2> QED BY <2>5, <2>6, FS_Surjection
<1>4. ASSUME NEW i \in E, NEW j \in DOMAIN cs \ E
      PROVE  Before(cs, i, j)
  <2>1. i \in DOMAIN cs /\ \E r \in DOMAIN sel : sel[r] = i - 1
    OBVIOUS
  <2>2. ~\E r \in DOMAIN sel : sel[r] = j - 1
    OBVIOUS
  <2>3. i - 1 \in Range(TopK(cs, k)) /\ j - 1 \notin Range(TopK(cs, k))
    BY <1>1, <2>1, <2>2 DEF Range
  <2>4. PICK m \in Nat : m = EliteSize(cs, k)
    BY TopKIs
  <2>5. Rank(cs, i) < m /\ ~(Rank(cs, j) < m) /\ Rank(cs, i) \in Int /\ Rank(cs, j) \in Int
    BY <2>1, <2>3, <2>4, EliteRanks, RankType
  <2>6. ~Before(cs, j, i) /\ i # j
    BY <2>1, <2>5, RankOrder
  <2> QED BY <2>1, <2>6 DEF Before
<1> QED BY <1>1, <1>3, <1>4

\* topk's own elite passes in any order, when there are enough candidates.
LEMMA OwnEliteAccepted ==
    ASSUME NEW cs \in Seq(Int), NEW sel \in Seq(Nat), NEW k \in Nat, k <= Len(cs),
           Len(sel) = k, Range(sel) = Range(TopK(cs, k))
    PROVE  VerifyTopk(cs, sel, k) = "ok"
<1> DEFINE t == TopK(cs, k)
           R == Range(t)
<1>1. /\ t \in [1..k -> 0..(Len(cs) - 1)]
      /\ \A r \in 1..k : Rank(cs, t[r] + 1) = r - 1
  BY TopKIs DEF EliteSize
<1>2. sel \in [1..k -> R] /\ \A e \in R : \E i \in 1..k : sel[i] = e
  <2>1. DOMAIN sel = 1..k /\ sel = [i \in 1..k |-> sel[i]]
    OBVIOUS
  <2> QED BY <2>1 DEF Range
<1>3. \A i, j \in 1..k : t[i] = t[j] => i = j
  BY <1>1
<1> HIDE DEF t
<1>4. t \in [1..k -> R] /\ \A e \in R : \E i \in 1..k : t[i] = e
  BY <1>1 DEF Range
<1> HIDE DEF R
<1>5. IsFiniteSet(1..k) /\ Cardinality(1..k) = k
  BY FS_Interval
<1>6. Cardinality(R) = k
  <2>1. t \in Surjection(1..k, R) /\ t \in Injection(1..k, R)
    BY <1>3, <1>4 DEF Surjection, Injection, IsInjective
  <2> QED BY <1>5, <2>1, FS_Surjection
<1>7. \A i, j \in 1..k : sel[i] = sel[j] => i = j
  <2>1. sel \in Surjection(1..k, R)
    BY <1>2 DEF Surjection
  <2>2. sel \in Injection(1..k, R)
    BY <1>5, <1>6, <2>1, FS_Surjection
  <2> QED BY <2>2 DEF Injection, IsInjective
<1>8. \A e \in R : e \in 0..(Len(cs) - 1)
  BY <1>1, <1>4
<1>9. \A i \in 1..k : sel[i] < Len(cs)
  BY <1>2, <1>8
<1> QED BY <1>7, <1>9, TopkAccepted

(***************************** the distribution ****************************)
\* round_div is the nearest quotient.
LEMMA RoundDivNear ==
    ASSUME NEW s \in Int, NEW n \in Nat \ {0}
    PROVE  /\ RoundDiv(s, n) \in Int
           /\ -n <= 2 * (s - n * RoundDiv(s, n)) /\ 2 * (s - n * RoundDiv(s, n)) <= n
<1> DEFINE h == n \div 2
<1>1. h \in Int /\ n - 1 <= 2 * h /\ 2 * h <= n
  OBVIOUS
<1> HIDE DEF h
<1>2. ASSUME NEW a \in Int, NEW q, q = (a + h) \div n
      PROVE  q \in Int /\ n * q \in Int /\ -n <= 2 * (a - n * q) /\ 2 * (a - n * q) <= n
  <2>1. a + h \in Int
    BY <1>1
  <2>2. /\ q \in Int /\ (a + h) % n \in 0..(n - 1)
        /\ a + h = n * q + ((a + h) % n)
    BY <1>2, <2>1, DivMod
  <2>3. n * q \in Int
    BY <2>2
  <2> QED BY <1>1, <2>2, <2>3
<1>3. CASE s >= 0
  <2>1. RoundDiv(s, n) = (s + h) \div n
    BY <1>3 DEF RoundDiv, h
  <2> QED BY <1>2, <2>1
<1>4. CASE s < 0
  <2> DEFINE q == (-s + h) \div n
  <2>1. RoundDiv(s, n) = -q
    BY <1>4 DEF RoundDiv, h
  <2>2. q \in Int /\ n * q \in Int /\ -n <= 2 * (-s - n * q) /\ 2 * (-s - n * q) <= n
    BY <1>2, -s \in Int
  <2> HIDE DEF q
  <2>3. n * (-q) = -(n * q)
    BY <2>2
  <2> QED BY <2>1, <2>2, <2>3
<1> QED BY <1>3, <1>4

\* The nearest quotient of a sum lies between the extremes of its terms.
LEMMA MeanBetween ==
    ASSUME NEW a \in Int, NEW b \in Int, NEW n \in Nat \ {0}, NEW s \in Int,
           n * a <= s, s <= n * b
    PROVE  RoundDiv(s, n) \in a..b
<1>1. PICK m \in Int : m = RoundDiv(s, n) /\ -n <= 2 * (s - n * m) /\ 2 * (s - n * m) <= n
  BY RoundDivNear
<1>2. n * m \in Int /\ n * a \in Int /\ n * b \in Int
  BY <1>1
<1>3. ~(m < a)
  <2>1. SUFFICES ASSUME m < a PROVE FALSE
    OBVIOUS
  <2>2. n * (a - m - 1) >= 0
    BY <1>1, <2>1, a - m - 1 \in Nat, n \in Nat
  <2>3. n * (a - m - 1) = n * a - n * m - n
    BY <1>1
  <2> QED BY <1>1, <1>2, <2>2, <2>3
<1>4. ~(b < m)
  <2>1. SUFFICES ASSUME b < m PROVE FALSE
    OBVIOUS
  <2>2. n * (m - b - 1) >= 0
    BY <1>1, <2>1, m - b - 1 \in Nat, n \in Nat
  <2>3. n * (m - b - 1) = n * m - n * b - n
    BY <1>1
  <2> QED BY <1>1, <1>2, <2>2, <2>3
<1> QED BY <1>1, <1>3, <1>4

\* A term between a and b lies on the near side of the chord of the square.
LEMMA Chord ==
    ASSUME NEW a \in Int, NEW b \in Int, NEW m \in Int, NEW x \in a..b
    PROVE  (x - m) * (x - m) <= ((a - m) + (b - m)) * (x - m) - (a - m) * (b - m)
<1>1. PICK y \in Int, u \in Int, v \in Int :
         y = x - m /\ u = a - m /\ v = b - m /\ u <= y /\ y <= v
  OBVIOUS
<1>2. (y - u) * (v - y) >= 0
  BY <1>1, y - u \in Nat, v - y \in Nat
<1>3. (y - u) * (v - y) = (u + v) * y - u * v - y * y
  BY <1>1
<1>4. (u + v) * y \in Int /\ u * v \in Int /\ y * y \in Int
  BY <1>1
<1>5. y * y <= (u + v) * y - u * v
  BY <1>2, <1>3, <1>4
<1> QED BY <1>1, <1>5

\* The chord at the rounded mean is at most a quarter of the spread's square.
LEMMA ChordAtMean ==
    ASSUME NEW u \in Int, NEW v \in Int, NEW n \in Nat \ {0}, NEW d \in Int,
           -n <= 2 * d, 2 * d <= n
    PROVE  4 * ((u + v) * d - n * (u * v)) <= n * ((v - u) * (v - u) + 1)
<1>1. PICK c \in Int : c = u + v
  OBVIOUS
<1>2. c * d \in Int /\ c * n \in Int /\ n * (c * c) \in Int /\ n * (u * v) \in Int
  BY <1>1
<1>3. 4 * (c * d) <= n * (c * c) + n
  <2>1. CASE c >= 0
    <3>1. c * (n - 2 * d) >= 0 /\ c * (n - 2 * d) = c * n - 2 * (c * d)
      BY <2>1, n - 2 * d \in Nat, c \in Nat
    <3>2. n * ((c - 1) * (c - 1)) >= 0
      <4>1. (c - 1) * (c - 1) \in Nat
        OBVIOUS
      <4> QED BY <4>1
    <3>3. n * ((c - 1) * (c - 1)) = n * (c * c) - 2 * (c * n) + n
      OBVIOUS
    <3> QED BY <1>2, <3>1, <3>2, <3>3
  <2>2. CASE c < 0
    <3>1. (-c) * (n + 2 * d) >= 0 /\ (-c) * (n + 2 * d) = -(c * n) - 2 * (c * d)
      BY <2>2, n + 2 * d \in Nat, -c \in Nat
    <3>2. n * ((c + 1) * (c + 1)) >= 0
      <4>1. (c + 1) * (c + 1) \in Nat
        OBVIOUS
      <4> QED BY <4>1
    <3>3. n * ((c + 1) * (c + 1)) = n * (c * c) + 2 * (c * n) + n
      OBVIOUS
    <3> QED BY <1>2, <3>1, <3>2, <3>3
  <2> QED BY <2>1, <2>2
<1>4. n * ((v - u) * (v - u) + 1) = n * (c * c) - 4 * (n * (u * v)) + n
  BY <1>1
<1>5. 4 * (c * d - n * (u * v)) = 4 * (c * d) - 4 * (n * (u * v))
  BY <1>2
<1> QED BY <1>1, <1>2, <1>3, <1>4, <1>5

\* cem_mean and cem_var of one dimension.
LEMMA MeanAndVariance ==
    ASSUME NEW n \in Nat \ {0}, NEW a \in Int, NEW b \in Int, NEW f, NEW g, NEW m,
           \A i \in 1..n : f[i] \in a..b,
           m = RoundDiv(SumTo(f, n), n),
           \A i \in 1..n : g[i] = (f[i] - m) * (f[i] - m)
    PROVE  /\ m \in a..b
           /\ 4 * RoundDiv(SumTo(g, n), n) <= (b - a) * (b - a) + 3
<1>1. PICK s \in Int : s = SumTo(f, n)
  BY SumType
<1>2. n * a <= s /\ s <= n * b
  <2> DEFINE low == [i \in 1..n |-> a]
             high == [i \in 1..n |-> b]
  <2>1. SumTo(low, n) = n * a /\ SumTo(high, n) = n * b
    BY SumConst
  <2>2. \A i \in 1..n : low[i] \in Int /\ high[i] \in Int /\ f[i] \in Int /\ low[i] <= f[i] /\ f[i] <= high[i]
    OBVIOUS
  <2> HIDE DEF low, high
  <2>3. SumTo(low, n) <= SumTo(f, n) /\ SumTo(f, n) <= SumTo(high, n)
    BY <2>2, SumMonotone
  <2> QED BY <1>1, <2>1, <2>3
<1>3. m \in a..b
  BY <1>1, <1>2, MeanBetween
<1>4. PICK d \in Int : d = s - n * m /\ -n <= 2 * d /\ 2 * d <= n
  BY <1>1, <1>3, RoundDivNear
<1>5. PICK u \in Int, v \in Int : u = a - m /\ v = b - m
  BY <1>3
<1>6. PICK t \in Int : t = SumTo(g, n) /\ t <= (u + v) * d - n * (u * v)
  <2> DEFINE c == u + v
             w == -(c * m) - u * v
             p == [i \in 1..n |-> c * f[i]]
             k == [i \in 1..n |-> w]
             chord == [i \in 1..n |-> c * f[i] + w]
  <2>1. c \in Int /\ w \in Int /\ m \in Int
    BY <1>3, <1>5
  <2>2. \A i \in 1..n : g[i] \in Int /\ g[i] <= chord[i]
    <3> SUFFICES ASSUME NEW i \in 1..n PROVE g[i] \in Int /\ g[i] <= chord[i]
      OBVIOUS
    <3>1. PICK x \in a..b : x = f[i]
      OBVIOUS
    <3>2. (x - m) * (x - m) <= (u + v) * (x - m) - u * v
      BY <1>5, <2>1, <3>1, Chord
    <3>3. (u + v) * (x - m) - u * v = c * x + w
      <4>1. x \in Int /\ m \in Int /\ u + v \in Int /\ u * v \in Int
        BY <1>3, <3>1
      <4>2. (u + v) * (x - m) = (u + v) * x - (u + v) * m
        BY <4>1
      <4>3. (u + v) * x \in Int /\ (u + v) * m \in Int
        BY <4>1
      <4> QED BY <4>1, <4>2, <4>3
    <3>4. chord[i] = c * x + w /\ g[i] = (x - m) * (x - m) /\ x \in Int
      BY <3>1
    <3> QED BY <2>1, <3>2, <3>3, <3>4
  <2>3. \A i \in 1..n : f[i] \in Int /\ p[i] = c * f[i] /\ p[i] \in Int /\ k[i] = w /\ k[i] \in Int
                         /\ chord[i] = p[i] + k[i] /\ chord[i] \in Int
    BY <2>1
  <2> HIDE DEF p, k, chord, c, w
  <2>4. SumTo(p, n) = c * s
    BY <1>1, <2>1, <2>3, SumScale
  <2>5. SumTo(k, n) = n * w
    BY <2>1, <2>3, SumConst
  <2>6. SumTo(chord, n) = SumTo(p, n) + SumTo(k, n)
    BY <2>3, SumAdd
  <2>7. SumTo(g, n) \in Int /\ SumTo(g, n) <= SumTo(chord, n)
    BY <2>2, <2>3, SumMonotone
  <2>8. c * s + n * w = c * d - n * (u * v)
    <3>1. n * w = -(c * (n * m)) - n * (u * v)
      BY <1>5, <2>1 DEF w
    <3>2. c * d = c * s - c * (n * m)
      BY <1>1, <1>4, <2>1
    <3>3. n * w \in Int /\ c * (n * m) \in Int /\ n * (u * v) \in Int /\ c * d \in Int /\ c * s \in Int
      BY <1>1, <1>4, <1>5, <2>1
    <3> QED BY <3>1, <3>2, <3>3
  <2>9. SumTo(g, n) <= (u + v) * d - n * (u * v)
    BY <2>4, <2>5, <2>6, <2>7, <2>8 DEF c
  <2> QED BY <2>7, <2>9
<1>7. 4 * t <= n * ((v - u) * (v - u) + 1)
  <2>1. (u + v) * d - n * (u * v) \in Int /\ n * ((v - u) * (v - u) + 1) \in Int
    BY <1>4, <1>5
  <2>2. 4 * ((u + v) * d - n * (u * v)) <= n * ((v - u) * (v - u) + 1)
    BY <1>4, <1>5, ChordAtMean
  <2> QED BY <1>6, <2>1, <2>2
<1>8. v - u = b - a
  BY <1>3, <1>5
<1>9. PICK q \in Int : q = RoundDiv(t, n) /\ -n <= 2 * (t - n * q)
  BY <1>6, RoundDivNear
<1>10. PICK e \in Int : e = (b - a) * (b - a)
  OBVIOUS
<1>11. 4 * (n * q) <= n * e + 3 * n
  <2>1. n * q \in Int /\ n * e \in Int /\ n * (e + 1) = n * e + n
    BY <1>9, <1>10
  <2>2. 4 * t <= n * (e + 1)
    BY <1>7, <1>8, <1>10
  <2> QED BY <1>9, <2>1, <2>2, <1>6
<1>12. 4 * q <= e + 3
  <2>1. SUFFICES ASSUME 4 * q - e - 3 >= 1 PROVE FALSE
    BY <1>9, <1>10
  <2>2. n * (4 * q - e - 4) >= 0
    BY <1>9, <1>10, <2>1, 4 * q - e - 4 \in Nat, n \in Nat
  <2>3. n * (4 * q - e - 4) = 4 * (n * q) - n * e - 4 * n /\ n * q \in Int /\ n * e \in Int
    BY <1>9, <1>10
  <2> QED BY <1>11, <2>2, <2>3
<1> QED BY <1>3, <1>6, <1>9, <1>10, <1>12

\* The least and the greatest of finitely many integers.
LEMMA ExtremesOf ==
    ASSUME NEW f, NEW n \in Nat \ {0}, \A i \in 1..n : f[i] \in Int,
           NEW V, V = { f[i] : i \in 1..n }
    PROVE  Min(V) \in Int /\ Max(V) \in Int /\ \A i \in 1..n : f[i] \in Min(V)..Max(V)
<1> DEFINE Ends(k) == \E lo, hi \in 1..k : \A i \in 1..k : f[lo] <= f[i] /\ f[i] <= f[hi]
           S == { k \in Nat : k \in 1..n => Ends(k) }
<1>1. 0 \in S
  OBVIOUS
<1>2. ASSUME NEW k \in Nat, k \in S
      PROVE  k + 1 \in S
  <2> SUFFICES ASSUME k + 1 \in 1..n
               PROVE  Ends(k + 1)
    <3> HIDE DEF Ends
    <3> QED OBVIOUS
  <2>1. CASE k = 0
    <3>1. f[1] \in Int /\ 1..(k + 1) = {1}
      BY <2>1
    <3>2. \A i \in 1..(k + 1) : f[1] <= f[i] /\ f[i] <= f[1]
      BY <3>1
    <3> QED BY <3>1, <3>2
  <2>2. CASE k # 0
    <3>1. PICK lo \in 1..k, hi \in 1..k : \A i \in 1..k : f[lo] <= f[i] /\ f[i] <= f[hi]
      BY <1>2, <2>2
    <3> DEFINE l == IF f[k + 1] < f[lo] THEN k + 1 ELSE lo
               h == IF f[k + 1] > f[hi] THEN k + 1 ELSE hi
    <3>2. l \in 1..(k + 1) /\ h \in 1..(k + 1)
      OBVIOUS
    <3>3. ASSUME NEW i \in 1..(k + 1)
          PROVE  f[l] <= f[i] /\ f[i] <= f[h]
      <4>1. f[i] \in Int /\ f[lo] \in Int /\ f[hi] \in Int /\ f[k + 1] \in Int
        OBVIOUS
      <4>2. f[lo] <= f[hi] /\ (i = k + 1 \/ (f[lo] <= f[i] /\ f[i] <= f[hi]))
        BY <3>1, <3>3
      <4> QED BY <4>1, <4>2
    <3> HIDE DEF l, h
    <3> QED BY <3>2, <3>3
  <2> QED BY <2>1, <2>2
<1> HIDE DEF S
<1>3. n \in S
  BY <1>1, <1>2, SetInduction
<1>4. PICK lo \in 1..n, hi \in 1..n : \A i \in 1..n : f[lo] <= f[i] /\ f[i] <= f[hi]
  <2>1. Ends(n)
    <3> HIDE DEF Ends
    <3> QED BY <1>3, n \in 1..n DEF S
  <2> QED BY <2>1
<1>5. f[lo] \in V /\ f[hi] \in V /\ V \subseteq Int /\ \A y \in V : f[lo] <= y /\ f[hi] >= y
  BY <1>4
<1>6. Min(V) \in V /\ \A y \in V : Min(V) <= y
  BY <1>5 DEF Min
<1>7. Max(V) \in V /\ \A y \in V : Max(V) >= y
  BY <1>5 DEF Max
<1>8. \A i \in 1..n : f[i] \in V
  OBVIOUS
<1> QED BY <1>5, <1>6, <1>7, <1>8

(******************************* one CEM step ******************************)
\* A row of the sample is a row of integers.
Rows == [Dims -> Int]

LEMMA SampleIs ==
    ASSUME hash \in [(1..NumSamples) \X Dims -> Words], NEW n \in 0..NumSamples
    PROVE  /\ CemSample(n) \in Seq(Rows) /\ Len(CemSample(n)) = n
           /\ CemSample(n) = [j \in 1..n |-> CemSample(NumSamples)[j]]
<1>1. NumSamples \in Nat /\ Words \subseteq Nat /\ 2^StdShift \in Nat \ {0}
  <2>1. NumSamples \in Nat /\ Words \subseteq Nat /\ StdShift \in Nat
    BY CemAssumption, ShiftAssumption
  <2> QED BY <2>1, Power
<1>2. ASSUME NEW j \in 1..NumSamples
      PROVE  Row(j) \in Rows
  <2>1. ASSUME NEW d \in Dims
        PROVE  Mu[d] + RoundDiv(Draw(hash[<<j, d>>]) * Std[d], 2^StdShift) \in Int
    <3>1. Mu[d] \in Int /\ Std[d] \in Int
      BY CemAssumption DEF Dims
    <3>2. hash[<<j, d>>] \in Nat
      BY <1>1
    <3>3. Draw(hash[<<j, d>>]) \in Int
      <4>1. CASE Table.outs = <<>>
        BY <4>1 DEF Draw
      <4>2. CASE Table.outs # <<>>
        <5>1. PICK l \in Nat \ {0} : l = Len(Table.outs) /\ DOMAIN Table.outs = 1..l
          BY <4>2, CemAssumption
        <5>2. (hash[<<j, d>>] % l) + 1 \in 1..l
          BY <3>2, <5>1
        <5>3. Table.outs[(hash[<<j, d>>] % l) + 1] \in Int
          BY <5>1, <5>2, CemAssumption
        <5> QED BY <4>2, <5>1, <5>3 DEF Draw
      <4> QED BY <4>1, <4>2
    <3>4. Draw(hash[<<j, d>>]) * Std[d] \in Int
      BY <3>1, <3>3
    <3>5. RoundDiv(Draw(hash[<<j, d>>]) * Std[d], 2^StdShift) \in Int
      BY <1>1, <3>4, RoundDivNear
    <3> QED BY <3>1, <3>5
  <2> QED BY <2>1 DEF Row, Rows
<1>3. CemSample(n) \in [1..n -> Rows]
  BY <1>1, <1>2 DEF CemSample
<1>4. CemSample(n) = [j \in 1..n |-> CemSample(NumSamples)[j]]
  BY <1>1 DEF CemSample
<1> QED BY <1>1, <1>3, <1>4

Replayed == {"score", "select", "check", "update"}

\* What a step knows: the replayed candidates are the beginning of the sample, the
\* verdict is verify_topk's of what is claimed, and the next distribution is computed
\* from the accepted elite.
CemInv ==
    /\ hash \in [(1..NumSamples) \X Dims -> Words] /\ topk \in Nat
    /\ stage \in Replayed \union {"sample", "replay", "done"}
    /\ claimed \in Seq(Rows) /\ Len(claimed) <= NumSamples
    /\ stage \in Replayed => claimed = CemSample(Len(claimed))
    /\ scores \in Seq(Int) /\ selected \in Seq(Nat)
    /\ stage \in {"select", "check", "update"} \/ judged # "none" => Len(scores) = Len(claimed)
    /\ stage \in {"sample", "replay", "score", "select", "check"} => judged = "none"
    /\ judged # "none" => judged = VerifyTopk(scores, selected, topk)
    /\ stage = "update" => judged = "ok"
    /\ stage # "done" => mean = <<>> /\ var = <<>>
    /\ DOMAIN mean # {} => judged = "ok" /\ mean = CemMean(Elite) /\ var = CemVar(Elite, mean)

LEMMA InitCemInv == CemInit => CemInv
  BY CemAssumption DEF CemInit, CemInv, Replayed

\* A dishonest sample is no longer than the honest one.
LEMMA TamperedRows ==
    ASSUME hash \in [(1..NumSamples) \X Dims -> Words], NEW rows \in Tampered
    PROVE  rows \in Seq(Rows) /\ Len(rows) <= NumSamples
<1> DEFINE s == CemSample(NumSamples)
<1>1. PICK n \in Nat : n = NumSamples
  BY CemAssumption
<1>2. s \in Seq(Rows) /\ Len(s) = n
  BY <1>1, SampleIs
<1> HIDE DEF s
<1>3. CASE \E m \in 0..(n - 1) : rows = SubSeq(s, 1, m)
  BY <1>1, <1>2, <1>3
<1>4. CASE \E j \in 1..n, d \in Dims : rows = [s EXCEPT ![j][d] = @ + 1]
  <2>1. PICK j \in 1..n, d \in Dims : rows = [s EXCEPT ![j][d] = @ + 1]
    BY <1>4
  <2>2. s \in [1..n -> Rows] /\ s[j] \in Rows
    BY <1>2
  <2>3. [s[j] EXCEPT ![d] = @ + 1] \in Rows
    BY <2>2 DEF Rows
  <2>4. rows = [s EXCEPT ![j] = [s[j] EXCEPT ![d] = @ + 1]]
    BY <2>1, <2>2 DEF Rows
  <2>5. rows \in [1..n -> Rows]
    BY <2>2, <2>3, <2>4
  <2> QED BY <1>1, <2>5
<1>5. CASE rows = SubSeq(s, 2, n)
  BY <1>1, <1>2, <1>5
<1> QED BY <1>1, <1>3, <1>4, <1>5 DEF Tampered, s

LEMMA StepCemInv == CemInv /\ [CemNext]_cemVars => CemInv'
<1> SUFFICES ASSUME CemInv, [CemNext]_cemVars PROVE CemInv'
  OBVIOUS
<1>1. CASE Sample
  <2>1. NumSamples \in 0..NumSamples
    BY CemAssumption
  <2>2. claimed' \in Seq(Rows) /\ Len(claimed') = NumSamples
    BY <1>1, <2>1, SampleIs DEF Sample, CemInv
  <2> QED BY <1>1, <2>1, <2>2 DEF Sample, CemInv, Replayed
<1>2. CASE \E rows \in Tampered : ForgeSample(rows)
  <2>1. PICK rows \in Tampered : ForgeSample(rows)
    BY <1>2
  <2>2. rows \in Seq(Rows) /\ Len(rows) <= NumSamples
    BY TamperedRows DEF CemInv
  <2> QED BY <2>1, <2>2 DEF ForgeSample, CemInv, Replayed
<1>3. CASE Replay
  <2>1. VerifyCemSample(claimed) => claimed = CemSample(Len(claimed))
    BY DEF VerifyCemSample
  <2>2. CemSample(Len(claimed))' = CemSample(Len(claimed))
    BY <1>3 DEF Replay, CemSample, Row
  <2> QED BY <1>3, <2>1, <2>2 DEF Replay, CemInv, Replayed
<1>4. CASE \E cs \in [DOMAIN claimed -> Scores] : Score(cs)
  <2>1. PICK cs \in [DOMAIN claimed -> Scores] : Score(cs)
    BY <1>4
  <2>2. cs \in Seq(Int) /\ Len(cs) = Len(claimed)
    <3>1. PICK n \in Nat : n = Len(claimed) /\ DOMAIN claimed = 1..n
      BY DEF CemInv
    <3>2. cs \in [1..n -> Int]
      BY <3>1, CemAssumption
    <3> QED BY <3>1, <3>2
  <2>3. CemSample(Len(claimed))' = CemSample(Len(claimed))
    BY <2>1 DEF Score, CemSample, Row
  <2> QED BY <2>1, <2>2, <2>3 DEF Score, CemInv, Replayed
<1>5. ASSUME NEW sel \in Seq(Nat), SelectElite(sel)
      PROVE  CemInv'
  <2>1. CemSample(Len(claimed))' = CemSample(Len(claimed))
    BY <1>5 DEF SelectElite, CemSample, Row
  <2> QED BY <1>5, <2>1 DEF SelectElite, CemInv, Replayed
<1>6. CASE SelectElite(TopK(scores, topk))
  <2> DEFINE n == Len(scores)
             m == EliteSize(scores, topk)
  <2>1. n \in Nat /\ m \in Nat /\ TopK(scores, topk) \in [1..m -> 0..(n - 1)]
    <3>1. scores \in Seq(Int) /\ topk \in Nat /\ n \in Nat
      BY DEF CemInv
    <3>2. m \in 0..n /\ TopK(scores, topk) \in [1..m -> 0..(n - 1)]
      BY <3>1, TopKIs
    <3> QED BY <3>1, <3>2
  <2> HIDE DEF n, m
  <2>2. TopK(scores, topk) \in Seq(Nat)
    BY <2>1
  <2> QED BY <1>5, <1>6, <2>2
<1>7. CASE \E n \in 0..MaxSelected : \E sel \in [1..n -> 0..NumSamples] : SelectElite(sel)
  <2>1. PICK n \in 0..MaxSelected : \E sel \in [1..n -> 0..NumSamples] : SelectElite(sel)
    BY <1>7
  <2>2. PICK sel \in [1..n -> 0..NumSamples] : SelectElite(sel)
    BY <2>1
  <2>3. n \in Nat /\ sel \in [1..n -> Nat]
    BY <2>1, CemAssumption
  <2>4. sel \in Seq(Nat)
    BY <2>3
  <2> QED BY <1>5, <2>2, <2>4
<1>8. CASE Check
  <2>1. /\ CemSample(Len(claimed))' = CemSample(Len(claimed))
        /\ VerifyTopk(scores, selected, topk)' = VerifyTopk(scores, selected, topk)
    BY <1>8 DEF Check, CemSample, Row
  <2>2. stage = "check" /\ judged = "none" /\ mean = <<>> /\ var = <<>> /\ Len(scores) = Len(claimed)
    BY <1>8 DEF Check, CemInv
  <2> QED BY <1>8, <2>1, <2>2 DEF Check, CemInv, Replayed
<1>9. CASE Update
  <2>1. Elite' = Elite /\ mean' = CemMean(Elite) /\ var' = CemVar(Elite, mean')
    BY <1>9 DEF Update, Elite
  <2>2. CemMean(Elite)' = mean' /\ CemVar(Elite, mean)' = var'
    BY <2>1 DEF CemMean, CemVar, Columns
  <2>3. VerifyTopk(scores, selected, topk)' = VerifyTopk(scores, selected, topk) /\ judged = "ok"
    BY <1>9 DEF Update, CemInv
  <2> HIDE DEF CemInv
  <2>4. /\ stage' = "done" /\ judged' = "ok" /\ UNCHANGED <<hash, topk, claimed, scores, selected, judged>>
    BY <1>9, <2>3 DEF Update
  <2> QED BY <2>1, <2>2, <2>3, <2>4 DEF CemInv, Replayed
<1>10. CASE UNCHANGED cemVars
  <2>1. /\ CemSample(Len(claimed))' = CemSample(Len(claimed)) /\ Elite' = Elite
        /\ VerifyTopk(scores, selected, topk)' = VerifyTopk(scores, selected, topk)
    BY <1>10 DEF cemVars, CemSample, Row, Elite
  <2>2. CemMean(Elite)' = CemMean(Elite) /\ CemVar(Elite, mean)' = CemVar(Elite, mean)
    BY <1>10, <2>1 DEF cemVars, CemMean, CemVar, Columns
  <2> QED BY <1>10, <2>1, <2>2 DEF cemVars, CemInv, Replayed
<1> QED BY <1>1, <1>2, <1>3, <1>4, <1>6, <1>7, <1>8, <1>9, <1>10 DEF CemNext

LEMMA AlwaysCemInv == CemSpec => []CemInv
  BY InitCemInv, StepCemInv, PTL DEF CemSpec

\* A replayed sample is the beginning of the planner's, for every seed, table,
\* distribution and number of candidates.
THEOREM ReplayIsPrefix == CemSpec => []SampledPrefix
<1>1. CemInv => SampledPrefix
  <2> SUFFICES ASSUME CemInv, stage \in Replayed PROVE IsPrefix(claimed, CemSample(NumSamples))
    BY DEF SampledPrefix, Replayed
  <2>1. PICK n \in Nat, k \in Nat : n = NumSamples /\ k = Len(claimed) /\ k <= n /\ claimed \in Seq(Rows)
    <3>1. Len(claimed) \in Nat
      BY DEF CemInv
    <3> QED BY <3>1, CemAssumption DEF CemInv
  <2> DEFINE s == CemSample(NumSamples)
  <2>2. s \in Seq(Rows) /\ Len(s) = n
    BY <2>1, SampleIs DEF CemInv
  <2>3. claimed = [j \in 1..k |-> s[j]]
    <3>1. k \in 0..NumSamples
      BY <2>1
    <3> QED BY <2>1, <3>1, SampleIs DEF CemInv
  <2> HIDE DEF s
  <2>4. SubSeq(claimed, 1, k) = SubSeq(s, 1, k)
    BY <2>1, <2>2, <2>3
  <2> QED BY <2>1, <2>2, <2>4 DEF IsPrefix, s
<1> QED BY <1>1, AlwaysCemInv, PTL

\* verify_topk accepts k candidates that come before all others, and nothing else, for
\* all costs, ties included.
THEOREM EliteIsSound == CemSpec => []EliteSound
<1>1. CemInv => EliteSound
  <2> SUFFICES ASSUME CemInv, judged = "ok",
                      NEW E, E = { i \in DOMAIN scores : \E n \in DOMAIN selected : selected[n] = i - 1 }
               PROVE  /\ Cardinality(E) = topk /\ Len(selected) = topk
                      /\ \A i \in E, j \in DOMAIN scores \ E :
                            scores[i] < scores[j] \/ (scores[i] = scores[j] /\ i < j)
    BY DEF EliteSound
  <2>1. /\ scores \in Seq(Int) /\ selected \in Seq(Nat) /\ topk \in Nat
        /\ VerifyTopk(scores, selected, topk) = "ok"
    BY DEF CemInv
  <2>2. /\ Cardinality(E) = topk /\ Len(selected) = topk
        /\ \A i \in E, j \in DOMAIN scores \ E : Before(scores, i, j)
    BY <2>1, AcceptedElite
  <2> QED BY <2>2 DEF Before
<1> QED BY <1>1, AlwaysCemInv, PTL

\* topk's own elite is accepted in whatever order it is listed, for all costs.
THEOREM OwnEliteIsAccepted == CemSpec => []HonestElite
<1>1. CemInv => HonestElite
  <2> SUFFICES ASSUME CemInv, judged # "none", topk <= Len(scores), Len(selected) = topk,
                      Range(selected) = Range(TopK(scores, topk))
               PROVE  judged = "ok"
    BY DEF HonestElite
  <2>1. /\ scores \in Seq(Int) /\ selected \in Seq(Nat) /\ topk \in Nat
        /\ judged = VerifyTopk(scores, selected, topk)
    BY DEF CemInv
  <2> QED BY <2>1, OwnEliteAccepted
<1> QED BY <1>1, AlwaysCemInv, PTL

\* The next mean lies within the elite, and the variance is at most a quarter of the
\* squared spread but for the two roundings, for every elite size and every dimension.
THEOREM UpdateIsBounded == CemSpec => []UpdateBounded
<1>1. CemInv => UpdateBounded
  <2> SUFFICES ASSUME CemInv, NEW d \in DOMAIN mean,
                      NEW V, V = { Elite[i][d] : i \in DOMAIN selected }
               PROVE  /\ mean[d] \in Min(V)..Max(V)
                      /\ 4 * var[d] <= (Max(V) - Min(V)) * (Max(V) - Min(V)) + 3
    BY DEF UpdateBounded
  <2>1. /\ judged = "ok" /\ mean = CemMean(Elite) /\ var = CemVar(Elite, mean)
        /\ scores \in Seq(Int) /\ selected \in Seq(Nat) /\ topk \in Nat
        /\ VerifyTopk(scores, selected, topk) = "ok"
        /\ claimed \in Seq(Rows) /\ Len(scores) = Len(claimed)
    BY DEF CemInv
  <2>2. PICK n \in Nat : n = Len(selected) /\ DOMAIN selected = 1..n /\ n = topk
    BY <2>1, TopkAccepted
  <2>3. /\ DOMAIN Elite = 1..n /\ Len(Elite) = n
        /\ \A i \in 1..n : Elite[i] \in Rows
    <3>1. \A i \in 1..n : selected[i] < Len(scores) /\ selected[i] \in Nat
      BY <2>1, <2>2, TopkAccepted
    <3>2. \A i \in 1..n : selected[i] + 1 \in DOMAIN claimed
      BY <2>1, <3>1
    <3>3. \A i \in 1..n : claimed[selected[i] + 1] \in Rows
      BY <2>1, <3>2
    <3>4. Elite \in [1..n -> Rows]
      BY <2>2, <3>3 DEF Elite
    <3> QED BY <3>4
  <2>4. n # 0 /\ d \in Columns(Elite) /\ d \in Dims
    <3>1. d \in Columns(Elite)
      BY <2>1 DEF CemMean
    <3>2. n # 0
      <4>1. n = 0 => Elite = <<>>
        BY <2>2 DEF Elite
      <4> QED BY <3>1, <4>1 DEF Columns
    <3>3. Elite[1] \in Rows /\ Elite # <<>>
      BY <2>3, <3>2
    <3>4. Elite[1] \in Seq(Int) /\ DOMAIN Elite[1] = Dims
      <4>1. PICK l \in Nat : Dims = 1..l
        BY CemAssumption DEF Dims
      <4>2. Elite[1] \in [1..l -> Int]
        BY <3>3, <4>1 DEF Rows
      <4> QED BY <4>1, <4>2
    <3>5. d \in DOMAIN Elite[1]
      BY <3>1, <3>3, <3>4 DEF Columns
    <3> QED BY <3>1, <3>2, <3>4, <3>5
  <2> DEFINE f == [i \in 1..n |-> Elite[i][d]]
             g == [i \in 1..n |-> (Elite[i][d] - mean[d]) * (Elite[i][d] - mean[d])]
  <2>5. \A i \in 1..n : f[i] \in Int
    BY <2>3, <2>4 DEF Rows
  <2>6. mean[d] = RoundDiv(SumTo(f, n), n) /\ var[d] = RoundDiv(SumTo(g, n), n)
    <3>1. mean[d] = RoundDiv(SumSeq(f), n)
      BY <2>1, <2>3, <2>4 DEF CemMean
    <3>2. var[d] = RoundDiv(SumSeq(g), n)
      BY <2>1, <2>3, <2>4 DEF CemVar
    <3>3. Len(f) = n /\ Len(g) = n
      OBVIOUS
    <3> HIDE DEF f, g
    <3> QED BY <3>1, <3>2, <3>3 DEF SumSeq
  <2>7. \A i \in 1..n : g[i] = (f[i] - mean[d]) * (f[i] - mean[d])
    OBVIOUS
  <2>8. V = { f[i] : i \in 1..n }
    BY <2>2
  <2> HIDE DEF f, g
  <2>9. PICK a \in Int, b \in Int : a = Min(V) /\ b = Max(V) /\ \A i \in 1..n : f[i] \in a..b
    BY <2>4, <2>5, <2>8, ExtremesOf
  <2>10. n \in Nat \ {0}
    BY <2>4
  <2>11. mean[d] \in a..b /\ 4 * RoundDiv(SumTo(g, n), n) <= (b - a) * (b - a) + 3
    <3>1. PICK m : m = mean[d]
      OBVIOUS
    <3>2. m = RoundDiv(SumTo(f, n), n) /\ \A i \in 1..n : g[i] = (f[i] - m) * (f[i] - m)
      BY <2>6, <2>7, <3>1
    <3>3. \A i \in 1..n : f[i] \in a..b
      BY <2>9
    <3>4. m \in a..b /\ 4 * RoundDiv(SumTo(g, n), n) <= (b - a) * (b - a) + 3
      BY <2>10, <3>2, <3>3, MeanAndVariance
    <3> QED BY <3>1, <3>4
  <2> QED BY <2>6, <2>9, <2>11
<1> QED BY <1>1, AlwaysCemInv, PTL
=============================================================================
