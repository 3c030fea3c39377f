-------------------------------- MODULE Cem --------------------------------
(***************************************************************************)
(* One step of the cross-entropy planner (pwm-core planning.rs): candidate *)
(* actions drawn from a seed, replayed by the verifier, scored, the elite  *)
(* of the k cheapest selected and checked, and the next distribution       *)
(* computed from it.  Candidates and the selection may be dishonest.       *)
(*                                                                         *)
(* The steps are library functions; the order in which a caller takes them *)
(* is the one their comments describe.  Indices count from 0 in a selected *)
(* list, as in the code, and from 1 in TLA+ sequences.                     *)
(***************************************************************************)
EXTENDS Rounding, Sums, SequencesExt

CONSTANTS NumSamples,  \* candidates that an honest step draws
          Words,       \* values of the first eight bytes of a hash
          Table,       \* the committed normal table [lo, outs]
          Mu, Std,     \* the current mean and deviation, one entry per dimension
          StdShift,
          Scores,      \* costs a candidate may get
          Ks,          \* sizes of the elite
          MaxSelected  \* bound: length of a dishonest selection

ASSUME CemAssumption ==
    /\ NumSamples \in Nat /\ Words \subseteq Nat /\ Scores \subseteq Int /\ Ks \subseteq Nat
    /\ Mu \in Seq(Int) /\ Std \in Seq(Int) /\ Len(Std) = Len(Mu) /\ Table.outs \in Seq(Int)
    /\ StdShift \in 0..MaxShift /\ MaxSelected \in Nat

VARIABLES hash,     \* the hash of the seed with a candidate and a dimension
          topk,     \* k
          stage,    \* sample, replay, score, select, check, update, done
          claimed,  \* the candidates, one row each
          scores,
          selected, \* the claimed elite
          judged,   \* of verify_topk
          mean, var

cemVars == <<hash, topk, stage, claimed, scores, selected, judged, mean, var>>

Dims == DOMAIN Mu

(********************************* sampling ********************************)
\* The table at lo + word mod its length; an empty table gives 0.
Draw(word) == IF Table.outs = <<>> THEN 0 ELSE Table.outs[(word % Len(Table.outs)) + 1]

Row(j) == [d \in Dims |-> Mu[d] + RoundDiv(Draw(hash[<<j, d>>]) * Std[d], 2^StdShift)]

\* Mutant: the hash counts candidates from the last.
CemSampleFromLast(n) == [j \in 1..n |-> Row(n + 1 - j)]

\* cem_sample.
CemSample(n) == [j \in 1..n |-> Row(j)]

\* verify_cem_sample: the replay is as long as the claim.
VerifyCemSample(rows) == CemSample(Len(rows)) = rows

(********************************* selection *******************************)
\* Mutant: the later of equal costs goes first.
BeforeLater(cs, i, j) == cs[i] < cs[j] \/ (cs[i] = cs[j] /\ i > j)

\* The order by cost, then index.
Before(cs, i, j) == cs[i] < cs[j] \/ (cs[i] = cs[j] /\ i < j)

\* topk.
TopK(cs, k) ==
    LET rank(i) == Cardinality({ j \in DOMAIN cs : Before(cs, j, i) })
    IN  [r \in 1..Min({k, Len(cs)}) |-> (CHOOSE i \in DOMAIN cs : rank(i) = r - 1) - 1]

\* The first index that is out of range or was seen already.
BadIndex(cs, sel) ==
    { i \in DOMAIN sel : sel[i] >= Len(cs) \/ \E j \in 1..(i - 1) : sel[j] = sel[i] }

\* Mutant: the elite has to be listed in its order.
VerifyTopkOrdered(cs, sel, k) ==
    IF Len(sel) # k THEN "WrongCount"
    ELSE IF BadIndex(cs, sel) # {}
         THEN IF sel[Min(BadIndex(cs, sel))] >= Len(cs) THEN "IndexOutOfRange" ELSE "Duplicate"
    ELSE IF sel # TopK(cs, k) THEN "NotElite" ELSE "ok"

\* verify_topk.
VerifyTopk(cs, sel, k) ==
    IF Len(sel) # k THEN "WrongCount"
    ELSE IF BadIndex(cs, sel) # {}
         THEN IF sel[Min(BadIndex(cs, sel))] >= Len(cs) THEN "IndexOutOfRange" ELSE "Duplicate"
    ELSE IF Range(sel) # Range(TopK(cs, k)) THEN "NotElite" ELSE "ok"

(***************************** the distribution ****************************)
Columns(rows) == IF rows = <<>> THEN {} ELSE 1..Len(rows[1])

\* cem_mean; no row gives no entry.
CemMean(rows) ==
    [d \in Columns(rows) |-> RoundDiv(SumSeq([i \in DOMAIN rows |-> rows[i][d]]), Len(rows))]

\* Mutant: the variance of a sample, not of a population.
CemVarSample(rows, m) ==
    [d \in Columns(rows) |->
        RoundDiv(SumSeq([i \in DOMAIN rows |-> (rows[i][d] - m[d]) * (rows[i][d] - m[d])]),
                 Max({Len(rows) - 1, 1}))]

\* cem_var.
CemVar(rows, m) ==
    [d \in Columns(rows) |->
        RoundDiv(SumSeq([i \in DOMAIN rows |-> (rows[i][d] - m[d]) * (rows[i][d] - m[d])]), Len(rows))]

(********************************* the step ********************************)
CemInit ==
    /\ hash \in [(1..NumSamples) \X Dims -> Words]
    /\ topk \in Ks
    /\ stage = "sample"
    /\ claimed = <<>> /\ scores = <<>> /\ selected = <<>>
    /\ judged = "none"
    /\ mean = <<>> /\ var = <<>>

Sample ==
    /\ stage = "sample"
    /\ claimed' = CemSample(NumSamples)
    /\ stage' = "replay"
    /\ UNCHANGED <<hash, topk, scores, selected, judged, mean, var>>

\* Some of the candidates only, or one of them moved.
Tampered ==
    { SubSeq(CemSample(NumSamples), 1, n) : n \in 0..(NumSamples - 1) }
    \union { [CemSample(NumSamples) EXCEPT ![j][d] = @ + 1] : j \in 1..NumSamples, d \in Dims }
    \union { SubSeq(CemSample(NumSamples), 2, NumSamples) }

ForgeSample(rows) ==
    /\ stage = "sample"
    /\ claimed' = rows
    /\ stage' = "replay"
    /\ UNCHANGED <<hash, topk, scores, selected, judged, mean, var>>

Replay ==
    /\ stage = "replay"
    /\ stage' = IF VerifyCemSample(claimed) THEN "score" ELSE "done"
    /\ UNCHANGED <<hash, topk, claimed, scores, selected, judged, mean, var>>

\* mse_cost of the model's output on each candidate: any integers.
Score(cs) ==
    /\ stage = "score"
    /\ scores' = cs
    /\ stage' = "select"
    /\ UNCHANGED <<hash, topk, claimed, selected, judged, mean, var>>

SelectElite(sel) ==
    /\ stage = "select"
    /\ selected' = sel
    /\ stage' = "check"
    /\ UNCHANGED <<hash, topk, claimed, scores, judged, mean, var>>

Check ==
    /\ stage = "check"
    /\ judged' = VerifyTopk(scores, selected, topk)
    /\ stage' = IF judged' = "ok" THEN "update" ELSE "done"
    /\ UNCHANGED <<hash, topk, claimed, scores, selected, mean, var>>

Elite == [i \in DOMAIN selected |-> claimed[selected[i] + 1]]

Update ==
    /\ stage = "update"
    /\ mean' = CemMean(Elite)
    /\ var' = CemVar(Elite, mean')
    /\ stage' = "done"
    /\ UNCHANGED <<hash, topk, claimed, scores, selected, judged>>

CemNext ==
    \/ Sample
    \/ \E rows \in Tampered : ForgeSample(rows)
    \/ Replay
    \/ \E cs \in [DOMAIN claimed -> Scores] : Score(cs)
    \/ SelectElite(TopK(scores, topk))
    \/ \E n \in 0..MaxSelected : \E sel \in [1..n -> 0..NumSamples] : SelectElite(sel)
    \/ Check
    \/ Update

CemSpec == CemInit /\ [][CemNext]_cemVars

------------------------------------------------------------------------------
\* A candidate does not depend on how many are drawn: what is replayed is the beginning
\* of the honest sample, candidate for candidate (verify_cem_sample replays the claimed
\* number of candidates).
SampledPrefix ==
    stage \in {"score", "select", "check", "update"} => IsPrefix(claimed, CemSample(NumSamples))

\* An accepted elite has k members, and each of them costs less than every candidate
\* outside it, or as much with a smaller index (verify_topk).
EliteSound ==
    judged = "ok" =>
        LET elite == { i \in DOMAIN scores : \E n \in DOMAIN selected : selected[n] = i - 1 }
        IN  /\ Cardinality(elite) = topk /\ Len(selected) = topk
            /\ \A i \in elite, j \in DOMAIN scores \ elite :
                   scores[i] < scores[j] \/ (scores[i] = scores[j] /\ i < j)

\* topk's elite passes verify_topk in whatever order it is listed, unless there are
\* fewer than k candidates.
HonestElite ==
    (/\ judged # "none" /\ topk <= Len(scores)
     /\ Len(selected) = topk /\ Range(selected) = Range(TopK(scores, topk))) => judged = "ok"

\* The next mean lies within the elite's values and four times the variance is at most the
\* square of their spread, but for the rounding of the two (cem_mean, cem_var).
UpdateBounded ==
    \A d \in DOMAIN mean :
        LET values == { Elite[i][d] : i \in DOMAIN selected }
            spread == Max(values) - Min(values)
        IN  /\ mean[d] \in Min(values)..Max(values)
            /\ 4 * var[d] <= spread * spread + 3
=============================================================================
