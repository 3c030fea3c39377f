--------------------------- MODULE PredictorProofs ---------------------------
(***************************************************************************)
(* The block, and the predictor statement over it.                         *)
(*                                                                         *)
(* An accepted block is the evaluation of its ops, however the prover      *)
(* arrived at its claims, and an honest proof is refused only for what     *)
(* prove_block does not check.  The invariant carries the buffer maps the  *)
(* claims produce one after the other: the prover is at the last of them,  *)
(* the verifier at the one its position gives.                             *)
(*                                                                         *)
(* No header field of an accepted artifact was changed, an honest artifact *)
(* is refused only for what its prover does not check, and an accepted one *)
(* states what its own program computes.  That the committed model is that *)
(* program rests on the commitments telling programs apart.                *)
(***************************************************************************)
EXTENDS Predictor, KernelProofs

LEMMA ProgramParts ==
    ASSUME NEW p, ProgramOK(p)
    PROVE  /\ IsList(p.ops) /\ BindsOK(p.binds) /\ \A i \in DOMAIN p.ops : OpOK(p.ops[i], p.binds)
           /\ IsList(p.inputs) /\ \A i \in DOMAIN p.inputs : p.inputs[i].vals \in Seq(Int)
<1>1. ProgramTyped(p)
  BY DEF ProgramOK
<1>2. IsList(p.ops) /\ IsList(p.inputs) /\ \A i \in DOMAIN p.inputs : p.inputs[i].vals \in Seq(Int)
  BY <1>1 DEF ProgramTyped
<1>3. BindsOK(p.binds)
  BY <1>1 DEF ProgramOK, ProgramTyped, BindsOK, TensorOK
<1>4. ASSUME NEW i \in DOMAIN p.ops
      PROVE  OpOK(p.ops[i], p.binds)
  <2>1. OpTyped(p.ops[i])
    BY <1>1 DEF ProgramTyped
  <2> DEFINE op == p.ops[i]
  <2>2. (IsLinear(op) /\ Has(p.binds.weights, op.weight) /\ ~BiasMissing(op, p.binds)
           /\ Len(WeightOf(op, p.binds).shape) = 2)
          => Len(Bias(op, p.binds)) >= Rows(WeightOf(op, p.binds))
    BY DEF ProgramOK
  <2> HIDE DEF op
  <2>3. OpLists(op) /\ {"kind", "args"} \subseteq DOMAIN op
        /\ (IsLinear(op) => op.bias \in Seq(Range(op.bias)) /\ Len(op.bias) <= 1)
    BY <2>1 DEF OpTyped, OpLists, op
  <2> QED BY <2>2, <2>3 DEF OpOK, op
<1> QED BY <1>2, <1>3, <1>4

(***************************** lists and buffers ***************************)
LEMMA InsertTyped ==
    ASSUME NEW b, BufsTyped(b), NEW id, NEW v, IsList(v)
    PROVE  BufsTyped(Insert(b, id, v))
  BY DEF BufsTyped, Insert

LEMMA GreatestIs ==
    ASSUME NEW n \in Nat, NEW T, T \subseteq 1..n, T # {}
    PROVE  Max(T) \in T /\ \A y \in T : y <= Max(T)
<1> DEFINE U == { n - y : y \in T }
<1>1. U \subseteq Nat /\ U # {}
  <2>1. \A y \in T : n - y \in Nat
    OBVIOUS
  <2> QED BY <2>1
<1>2. PICK u \in U : \A y \in U : u <= y
  <2> HIDE DEF U
  <2> QED BY <1>1, LeastNat
<1>3. PICK x \in T : u = n - x
  BY <1>2
<1>4. \A y \in T : y <= x
  <2> SUFFICES ASSUME NEW y \in T PROVE y <= x
    OBVIOUS
  <2>1. n - y \in U
    OBVIOUS
  <2>2. u <= n - y
    BY <1>2, <2>1
  <2>3. x \in Int /\ y \in Int
    OBVIOUS
  <2> QED BY <1>3, <2>2, <2>3
<1>5. \E m \in T : \A y \in T : m >= y
  BY <1>4
<1>6. Max(T) \in T /\ \A y \in T : Max(T) >= y
  BY <1>5 DEF Max
<1> QED BY <1>6

LEMMA SeedTyped ==
    ASSUME NEW inputs, IsList(inputs), \A i \in DOMAIN inputs : inputs[i].vals \in Seq(Int)
    PROVE  BufsTyped(Seed(inputs))
<1> SUFFICES ASSUME NEW id \in DOMAIN Seed(inputs) PROVE IsList(Seed(inputs)[id])
  BY DEF BufsTyped
<1> DEFINE T == { i \in DOMAIN inputs : inputs[i].id = id }
<1>1. T \subseteq 1..Len(inputs) /\ T # {} /\ Len(inputs) \in Nat
  BY ListFacts DEF Seed
<1>2. Max(T) \in T
  <2> HIDE DEF T
  <2> QED BY <1>1, GreatestIs
<1>3. Seed(inputs)[id] = inputs[Max(T)].vals
  BY DEF Seed
<1>4. inputs[Max(T)].vals \in Seq(Int)
  BY <1>2
<1> QED BY <1>3, <1>4, ListOf

(****************************** the invariant ******************************)
Phases == {"prove", "failed", "sent", "audit", "done"}

Base ==
    /\ prog \in Programs /\ phase \in Phases /\ fooled \in BOOLEAN
    /\ IsList(claims) /\ \A i \in 1..Len(claims) : IsList(claims[i])
    /\ Len(claims) <= Len(prog.ops)
    /\ phase \notin {"prove", "failed"} => Len(claims) = Len(prog.ops)
    /\ pc \in 1..(Len(claims) + 1)
    /\ phase \in {"prove", "failed", "sent"} => pc = 1
    /\ forged \subseteq 1..Len(claims)

\* What the kernel gives for the i-th op over the buffers before it.
KernelAt(h, i) == Kernel(prog.ops[i], h[i - 1], prog.binds)

\* The buffer maps the claims produce, from the inputs on.
Maps(h) ==
    /\ h[0] = Seed(prog.inputs)
    /\ \A i \in 1..Len(claims) : h[i] = Insert(h[i - 1], prog.ops[i].out_buf, claims[i])
    /\ \A i \in 0..Len(claims) : BufsTyped(h[i])

\* The prover is at the last of them, the verifier at the one before its op.
Aligned(h) == pbufs = h[Len(claims)] /\ bufs = h[pc - 1]

Right(h, i) ==
    /\ KernelAt(h, i).err = "ok"
    /\ claims[i] = KernelAt(h, i).out \/ ShiftRejected(prog.ops[i])

Wrong(h, i) == KernelAt(h, i).err = "ok" => claims[i] # KernelAt(h, i).out

\* Every claim but the forged ones is the kernel's over the prover's buffers.
Claimed(h) == \A i \in 1..Len(claims) : IF i \in forged THEN Wrong(h, i) ELSE Right(h, i)

\* Without luck, every claim the verifier is past is the kernel's.
Evaluated(h) ==
    ~fooled => \A i \in 1..(pc - 1) : KernelAt(h, i).err = "ok" /\ claims[i] = KernelAt(h, i).out

HonestVerdict ==
    \/ verdict = "ok"
    \/ verdict = "AccumulatorRange"
    \/ verdict = "InvalidShift" /\ ShiftRejected(prog.ops[pc])
    \/ verdict = "MissingBuffer" /\ pc > Len(prog.ops)

Verdicts ==
    /\ phase # "done" => verdict = "none"
    /\ verdict = "ok" => pc > Len(prog.ops) /\ prog.output_buf \in DOMAIN bufs
    /\ (verdict = "MissingBuffer" /\ pc > Len(prog.ops)) => prog.output_buf \notin DOMAIN bufs
    /\ (verdict # "none" /\ forged = {}) => HonestVerdict

IInv == Base /\ Verdicts /\ \E h : Maps(h) /\ Aligned(h) /\ Claimed(h) /\ Evaluated(h)

\* What the program gives the steps below.
LEMMA Prog ==
    ASSUME IInv
    PROVE  /\ IsList(prog.ops) /\ Len(prog.ops) \in Nat /\ BindsOK(prog.binds)
           /\ \A i \in 1..Len(prog.ops) : OpOK(prog.ops[i], prog.binds)
           /\ Len(claims) \in Nat /\ DOMAIN claims = 1..Len(claims)
           /\ BufsTyped(Seed(prog.inputs))
<1>1. ProgramOK(prog)
  BY ProgramsAssumption DEF IInv, Base
<1>2. IsList(prog.ops) /\ BindsOK(prog.binds) /\ (\A i \in DOMAIN prog.ops : OpOK(prog.ops[i], prog.binds))
  BY <1>1, ProgramParts
<1>3. BufsTyped(Seed(prog.inputs))
  BY <1>1, ProgramParts, SeedTyped
<1>4. IsList(claims)
  BY DEF IInv, Base
<1> QED BY <1>2, <1>3, <1>4, ListFacts

LEMMA InitInv == Init => IInv
<1> SUFFICES ASSUME Init PROVE IInv
  OBVIOUS
<1>1. <<>> \in Seq(Nat) /\ Len(<<>>) = 0
  OBVIOUS
<1>2. IsList(claims) /\ Len(claims) = 0
  BY <1>1, ListOf DEF Init
<1>3. ProgramOK(prog)
  BY ProgramsAssumption DEF Init
<1>4. IsList(prog.ops) /\ BufsTyped(Seed(prog.inputs))
  BY <1>3, ProgramParts, SeedTyped
<1>5. Len(prog.ops) \in Nat
  BY <1>4, ListFacts
<1>6. Base
  <2>1. pc \in 1..(Len(claims) + 1) /\ Len(claims) <= Len(prog.ops)
    BY <1>2, <1>5 DEF Init
  <2>2. (\A i \in 1..Len(claims) : IsList(claims[i])) /\ forged \subseteq 1..Len(claims)
    BY <1>2 DEF Init
  <2>3. /\ prog \in Programs /\ phase \in Phases /\ fooled \in BOOLEAN /\ pc = 1
        /\ phase = "prove"
    BY DEF Init, Phases
  <2> QED BY <1>2, <2>1, <2>2, <2>3 DEF Base
<1>7. Verdicts
  BY DEF Verdicts, Init
<1> DEFINE h == [i \in {0} |-> Seed(prog.inputs)]
<1>8. Maps(h) /\ Aligned(h) /\ Claimed(h) /\ Evaluated(h)
  BY <1>2, <1>4 DEF Maps, Aligned, Claimed, Evaluated, Init
<1> HIDE DEF h
<1> QED BY <1>6, <1>7, <1>8 DEF IInv

\* A step that only moves the phase.
LEMMA PhaseInv ==
    ASSUME IInv, UNCHANGED <<prog, claims, pbufs, forged, pc, bufs, verdict, fooled>>,
           phase' \in Phases, phase' # "done" => verdict = "none",
           phase' \notin {"prove", "failed"} => Len(claims) = Len(prog.ops),
           phase' \in {"prove", "failed", "sent"} => pc = 1
    PROVE  IInv'
<1>1. PICK h : Maps(h) /\ Aligned(h) /\ Claimed(h) /\ Evaluated(h)
  BY DEF IInv
<1>2. (Maps(h) /\ Aligned(h) /\ Claimed(h) /\ Evaluated(h))'
  BY <1>1 DEF Maps, Aligned, Claimed, Evaluated, Wrong, Right, KernelAt
<1>3. \E g : (Maps(g) /\ Aligned(g) /\ Claimed(g) /\ Evaluated(g))'
  BY <1>2
<1>4. Base' /\ Verdicts'
  BY DEF IInv, Base, Verdicts, HonestVerdict
<1> QED BY <1>3, <1>4 DEF IInv

\* One more claim: the kernel's, one under another shift, or a forged one.
LEMMA ClaimInv ==
    ASSUME IInv, Proving, NEW z, IsList(z), Claim(z),
           \/ /\ UNCHANGED forged /\ Computed.err = "ok"
              /\ z = Computed.out \/ ShiftRejected(NextOp)
           \/ /\ forged' = forged \union { Len(claims) + 1 }
              /\ Computed.err = "ok" => z # Computed.out
    PROVE  IInv'
<1>1. PICK h : Maps(h) /\ Aligned(h) /\ Claimed(h) /\ Evaluated(h)
  BY DEF IInv
<1>0. PICK n, m, v : n = Len(claims) /\ m = n + 1 /\ v = Insert(pbufs, prog.ops[m].out_buf, z)
  OBVIOUS
<1>2. /\ n \in Nat /\ m \in Nat /\ m - 1 = n /\ m = n + 1 /\ n \in 0..n /\ IsList(claims) /\ phase = "prove"
      /\ m <= Len(prog.ops) /\ pc = 1 /\ Base /\ Len(prog.ops) \in Nat
  BY <1>0, Prog DEF IInv, Base, Proving
<1>3. IsList(claims') /\ Len(claims') = m /\ (\A i \in 1..n : claims'[i] = claims[i]) /\ claims'[m] = z
  BY <1>0, <1>2, Extended DEF Claim
<1>4. /\ prog' = prog /\ phase' = phase /\ pc' = pc /\ bufs' = bufs /\ verdict' = verdict
      /\ fooled' = fooled /\ pbufs' = v
  BY <1>0 DEF Claim, NextOp
<1>5. forged \subseteq 1..n /\ (forged' = forged \/ forged' = forged \union {m})
  BY <1>0 DEF IInv, Base
<1>6. PICK g : g[m] = v /\ \A i \in 0..n : g[i] = h[i]
  <2> DEFINE f == [i \in 0..m |-> IF i = m THEN v ELSE h[i]]
  <2>1. f[m] = v /\ \A i \in 0..n : f[i] = h[i]
    BY <1>2
  <2> HIDE DEF f
  <2> QED BY <2>1
<1>7. pbufs = h[n] /\ bufs = h[0] /\ bufs = h[pc - 1]
  BY <1>0, <1>1, <1>2 DEF Aligned
<1>8. Computed = KernelAt(h, m) /\ NextOp = prog.ops[m]
  BY <1>0, <1>2, <1>7 DEF Computed, NextOp, KernelAt
<1>9. Maps(g)'
  <2>1. g[0] = Seed(prog.inputs)
    BY <1>1, <1>2, <1>6 DEF Maps
  <2>2. ASSUME NEW i \in 1..m
        PROVE  g[i] = Insert(g[i - 1], prog.ops[i].out_buf, claims'[i])
    <3>1. CASE i = m
      <4>1. g[i - 1] = pbufs
        BY <1>2, <1>6, <1>7, <3>1
      <4> QED BY <1>0, <1>3, <1>6, <3>1, <4>1
    <3>2. CASE i # m
      <4>1. i \in 1..n /\ i \in 0..n /\ i - 1 \in 0..n
        BY <1>2, <3>2
      <4>2. h[i] = Insert(h[i - 1], prog.ops[i].out_buf, claims[i])
        BY <1>0, <1>1, <4>1 DEF Maps
      <4> QED BY <1>3, <1>6, <4>1, <4>2
    <3> QED BY <3>1, <3>2
  <2>3. ASSUME NEW i \in 0..m
        PROVE  BufsTyped(g[i])
    <3>1. \A j \in 0..n : BufsTyped(h[j])
      BY <1>0, <1>1 DEF Maps
    <3>2. BufsTyped(v)
      BY <1>0, <1>2, <1>7, <3>1, InsertTyped
    <3>3. i = m \/ i \in 0..n
      BY <1>2
    <3> QED BY <1>6, <3>1, <3>2, <3>3
  <2> QED BY <1>3, <1>4, <2>1, <2>2, <2>3 DEF Maps
<1>10. Aligned(g)'
  BY <1>2, <1>3, <1>4, <1>6, <1>7 DEF Aligned
<1>11. Claimed(g)'
  <2>1. ASSUME NEW i \in 1..n
        PROVE  (IF i \in forged THEN Wrong(g, i) ELSE Right(g, i))'
    <3>1. /\ claims'[i] = claims[i] /\ g[i - 1] = h[i - 1] /\ i # m
          /\ (IF i \in forged THEN Wrong(h, i) ELSE Right(h, i))
      BY <1>0, <1>1, <1>2, <1>3, <1>6 DEF Claimed
    <3>2. i \in forged' <=> i \in forged
      BY <1>5, <3>1
    <3>3. KernelAt(g, i)' = KernelAt(h, i)
      BY <1>4, <3>1 DEF KernelAt
    <3> QED BY <1>4, <3>1, <3>2, <3>3 DEF Wrong, Right
  <2>2. (IF m \in forged THEN Wrong(g, m) ELSE Right(g, m))'
    <3>1. KernelAt(g, m)' = Computed
      BY <1>2, <1>4, <1>6, <1>8 DEF KernelAt
    <3>2. m \notin forged
      BY <1>2, <1>5
    <3>3. CASE /\ UNCHANGED forged /\ Computed.err = "ok"
               /\ z = Computed.out \/ ShiftRejected(NextOp)
      BY <1>3, <1>4, <1>8, <3>1, <3>2, <3>3 DEF Right
    <3>4. CASE /\ forged' = forged \union { Len(claims) + 1 }
               /\ Computed.err = "ok" => z # Computed.out
      BY <1>0, <1>3, <3>1, <3>4 DEF Wrong
    <3> QED BY <3>3, <3>4
  <2>3. \A i \in 1..m : i = m \/ i \in 1..n
    BY <1>2
  <2> QED BY <1>3, <2>1, <2>2, <2>3 DEF Claimed
<1>12. Base'
  <2>1. \A i \in 1..m : IsList(claims'[i])
    <3>1. \A i \in 1..m : i = m \/ i \in 1..n
      BY <1>2
    <3> QED BY <1>0, <1>2, <1>3, <3>1 DEF Base
  <2>2. forged' \subseteq 1..m
    <3>1. 1..n \subseteq 1..m /\ m \in 1..m
      BY <1>2
    <3> QED BY <1>5, <3>1
  <2>3. pc' \in 1..(m + 1)
    BY <1>2, <1>4
  <2> QED BY <1>2, <1>3, <1>4, <2>1, <2>2, <2>3 DEF Base
<1>13. Verdicts' /\ Evaluated(g)'
  <2>1. verdict = "none" /\ pc' = 1
    BY <1>2, <1>4 DEF IInv, Verdicts
  <2>2. \A i \in 1..(pc' - 1) : FALSE
    BY <2>1
  <2> QED BY <1>4, <2>1, <2>2 DEF Evaluated, Verdicts
<1>14. \E k : (Maps(k) /\ Aligned(k) /\ Claimed(k) /\ Evaluated(k))'
  BY <1>9, <1>10, <1>11, <1>13
<1> QED BY <1>12, <1>13, <1>14 DEF IInv

\* What prove_block claims is a list, under whatever shift a build uses.
LEMMA ComputedList ==
    ASSUME IInv, Proving
    PROVE  /\ IsList(Computed.out)
           /\ \A s : ShiftRejected(NextOp) =>
                IsList(Kernel([NextOp EXCEPT !.shift = s], pbufs, prog.binds).out)
<1>1. PICK h : Maps(h) /\ Aligned(h)
  BY DEF IInv
<1>2. Len(claims) \in 0..Len(claims) /\ Len(claims) + 1 \in 1..Len(prog.ops)
  BY Prog DEF Proving
<1>3. BufsTyped(pbufs)
  BY <1>1, <1>2 DEF Maps, Aligned
<1>4. OpOK(NextOp, prog.binds)
  BY <1>2, Prog DEF NextOp
<1>5. IsList(prog.binds.weights) /\ \A i \in DOMAIN prog.binds.weights : prog.binds.weights[i].shape \in Seq(Nat)
  BY Prog DEF BindsOK, TensorOK
<1>6. IsList(Computed.out)
  BY <1>3, <1>4, <1>5, KernelOut DEF Computed, OpOK
<1>7. ASSUME NEW s, ShiftRejected(NextOp)
      PROVE  IsList(Kernel([NextOp EXCEPT !.shift = s], pbufs, prog.binds).out)
  <2> DEFINE op == [NextOp EXCEPT !.shift = s]
  <2>1. op.kind = NextOp.kind /\ op.args = NextOp.args
    BY <1>4 DEF OpOK
  <2>2. NextOp.kind \in {"Requant", "LayerNorm", "Modulate", "Gate"}
    BY <1>7 DEF ShiftRejected, Shifts
  <2> HIDE DEF op
  <2>3. Arity(op) = Arity(NextOp)
    BY <2>1 DEF Arity
  <2>4. OpLists(op)
    BY <1>4, <2>1, <2>2, <2>3 DEF OpOK, OpLists
  <2>5. IsList(Kernel(op, pbufs, prog.binds).out)
    BY <1>3, <1>5, <2>4, KernelOut
  <2> QED BY <2>5 DEF op
<1> QED BY <1>6, <1>7

LEMMA ProveOpInv ==
    ASSUME IInv, ProveOp
    PROVE  IInv'
<1>1. Proving /\ Computed.err = "ok" /\ UNCHANGED forged
  BY DEF ProveOp
<1>2. CASE ~ShiftRejected(NextOp)
  <2>1. Claim(Computed.out) /\ IsList(Computed.out)
    BY <1>1, <1>2, ComputedList DEF ProveOp
  <2> QED BY <1>1, <2>1, ClaimInv
<1>3. CASE ShiftRejected(NextOp)
  <2>1. PICK s \in UsedShifts : Claim(Kernel([NextOp EXCEPT !.shift = s], pbufs, prog.binds).out)
    BY <1>3 DEF ProveOp
  <2>2. IsList(Kernel([NextOp EXCEPT !.shift = s], pbufs, prog.binds).out)
    BY <1>1, <1>3, ComputedList
  <2> QED BY <1>1, <1>3, <2>1, <2>2, ClaimInv
<1> QED BY <1>2, <1>3

LEMMA ForgeOpInv ==
    ASSUME IInv, NEW z \in Claims, ForgeOp(z)
    PROVE  IInv'
<1>1. IsList(z)
  BY ClaimsAssumption, ListOf
<1> QED BY <1>1, ClaimInv DEF ForgeOp

\* The verifier's place in the history.
LEMMA AuditPlace ==
    ASSUME IInv, Auditing, NEW h, Maps(h), Aligned(h)
    PROVE  /\ pc \in 1..Len(claims) /\ pc \in 1..Len(prog.ops) /\ Len(claims) = Len(prog.ops)
           /\ KernelAt(h, pc) = Kernel(prog.ops[pc], bufs, prog.binds)
           /\ BufsTyped(bufs) /\ IsList(claims[pc]) /\ OpOK(prog.ops[pc], prog.binds)
           /\ h[pc] = Insert(bufs, prog.ops[pc].out_buf, claims[pc])
<1>1. Base /\ Len(prog.ops) \in Nat /\ Len(claims) \in Nat
  BY Prog DEF IInv
<1>2. Len(claims) = Len(prog.ops)
  BY <1>1 DEF Base, Auditing
<1>3. pc \in 1..Len(claims) /\ pc \in 1..Len(prog.ops) /\ pc - 1 \in 0..Len(claims)
  BY <1>1, <1>2 DEF Base, Auditing
<1>4. bufs = h[pc - 1] /\ BufsTyped(bufs)
  BY <1>3 DEF Maps, Aligned
<1>5. IsList(claims[pc]) /\ OpOK(prog.ops[pc], prog.binds)
  BY <1>1, <1>3, Prog DEF Base
<1>6. h[pc] = Insert(bufs, prog.ops[pc].out_buf, claims[pc])
  BY <1>3, <1>4 DEF Maps
<1> QED BY <1>2, <1>3, <1>4, <1>5, <1>6 DEF KernelAt

\* A wrong claim that passes is a dense layer some other challenge catches.
LEMMA WrongIsLucky ==
    ASSUME IInv, Auditing, NEW r, Audit(prog.ops[pc], r) = "ok",
           claims[pc] # Kernel(prog.ops[pc], bufs, prog.binds).out
    PROVE  IsLinear(prog.ops[pc]) /\ Lucky(prog.ops[pc])
<1> DEFINE op == prog.ops[pc]
           B == prog.binds
           z == claims[pc]
<1>1. PICK h : Maps(h) /\ Aligned(h)
  BY DEF IInv
<1>2. OpOK(op, B) /\ BindsOK(B) /\ BufsTyped(bufs) /\ IsList(z)
  BY <1>1, AuditPlace, Prog
<1>3. AuditOp(op, z, bufs, B, r) = "ok" /\ z # Kernel(op, bufs, B).out
  BY DEF Audit
<1> HIDE DEF op, B, z
<1>4. Kernel(op, bufs, B).err = "ok" /\ IsLinear(op)
  BY <1>2, <1>3, AuditSound
<1>5. Has(B.weights, op.weight)
  BY <1>2, <1>4, LinearFacts
<1>6. DrawnBy(op, FieldElems) = [1..Rows(WeightOf(op, B)) -> FieldElems]
  BY <1>4, <1>5 DEF DrawnBy, B
<1>7. \E c \in [1..Rows(WeightOf(op, B)) -> FieldElems] : AuditLinear(op, z, bufs, B, c) # "ok"
  BY <1>2, <1>3, <1>4, LinearSound
<1>8. \E c \in DrawnBy(op, FieldElems) : AuditOp(op, z, bufs, B, c) # "ok"
  BY <1>4, <1>6, <1>7 DEF AuditOp
<1> QED BY <1>3, <1>4, <1>8 DEF Lucky, Audit, op, B, z

LEMMA AuditStepInv ==
    ASSUME IInv, NEW r, AuditStep(r)
    PROVE  IInv'
<1>1. PICK h : Maps(h) /\ Aligned(h) /\ Claimed(h) /\ Evaluated(h)
  BY DEF IInv
<1>0. PICK n, q : n = pc /\ q = pc + 1
  OBVIOUS
<1>2. /\ Auditing /\ Audit(prog.ops[n], r) = "ok" /\ pc' = q
      /\ bufs' = Insert(bufs, prog.ops[n].out_buf, claims[n])
      /\ fooled' = (fooled \/ Lucky(prog.ops[n]))
      /\ UNCHANGED <<prog, phase, claims, pbufs, forged, verdict>>
  BY <1>0 DEF AuditStep
<1>3. /\ n \in 1..Len(claims) /\ Len(claims) = Len(prog.ops) /\ h[n] = bufs'
      /\ KernelAt(h, n) = Kernel(prog.ops[n], bufs, prog.binds)
  BY <1>0, <1>1, <1>2, AuditPlace
<1>4. phase = "audit" /\ Base /\ Verdicts /\ Len(claims) \in Nat
  BY <1>2, Prog DEF Auditing, IInv
<1>5. (Maps(h) /\ Aligned(h) /\ Claimed(h) /\ Evaluated(h))'
  <2>1. q - 1 = n
    BY <1>0, <1>3
  <2>2. Maps(h)' /\ Claimed(h)'
    BY <1>1, <1>2 DEF Maps, Claimed, Wrong, Right, KernelAt
  <2>3. Aligned(h)'
    BY <1>1, <1>2, <1>3, <2>1 DEF Aligned
  <2>4. ASSUME ~fooled', NEW i \in 1..n
        PROVE  KernelAt(h, i).err = "ok" /\ claims[i] = KernelAt(h, i).out
    <3>1. ~fooled /\ ~Lucky(prog.ops[n])
      BY <1>2, <2>4
    <3>2. CASE i = n
      <4>1. OpOK(prog.ops[n], prog.binds)
        BY <1>0, <1>1, <1>2, AuditPlace
      <4>2. Kernel(prog.ops[n], bufs, prog.binds).err = "ok"
        BY <1>0, <1>2, <4>1, AuditSound DEF Audit
      <4>3. claims[n] = Kernel(prog.ops[n], bufs, prog.binds).out
        BY <1>0, <1>2, <3>1, WrongIsLucky
      <4> QED BY <1>3, <3>2, <4>2, <4>3
    <3>3. CASE i # n
      <4>1. i \in 1..(pc - 1)
        BY <1>0, <1>3, <3>3
      <4> QED BY <1>1, <3>1, <4>1 DEF Evaluated
    <3> QED BY <3>2, <3>3
  <2>5. Evaluated(h)'
    <3>1. \A i : KernelAt(h, i)' = KernelAt(h, i)
      BY <1>2 DEF KernelAt
    <3> QED BY <1>2, <2>1, <2>4, <3>1 DEF Evaluated
  <2> QED BY <2>2, <2>3, <2>5
<1>6. \E g : (Maps(g) /\ Aligned(g) /\ Claimed(g) /\ Evaluated(g))'
  BY <1>5
<1>7. Base'
  <2>1. q \in 1..(Len(claims) + 1)
    BY <1>0, <1>3
  <2>2. fooled' \in BOOLEAN
    BY <1>2
  <2> QED BY <1>2, <1>4, <2>1, <2>2 DEF Base
<1>9. Verdicts'
  <2>1. verdict = "none" /\ verdict' = "none"
    BY <1>2, <1>4 DEF Verdicts
  <2> QED BY <2>1 DEF Verdicts
<1> QED BY <1>6, <1>7, <1>9 DEF IInv

\* What the verifier draws is a challenge of the field.
LEMMA DrawIsChallenge ==
    ASSUME NEW op, NEW r \in DrawnBy(op, Draws), IsLinear(op), Has(prog.binds.weights, op.weight)
    PROVE  r \in [1..Rows(WeightOf(op, prog.binds)) -> FieldElems]
<1>1. r \in [1..Rows(WeightOf(op, prog.binds)) -> Draws]
  BY DEF DrawnBy
<1> QED BY <1>1, ClaimsAssumption

LEMMA AuditRejectInv ==
    ASSUME IInv, NEW r, AuditReject(r)
    PROVE  IInv'
<1> DEFINE op == prog.ops[pc]
           B == prog.binds
<1>1. PICK h : Maps(h) /\ Aligned(h) /\ Claimed(h) /\ Evaluated(h)
  BY DEF IInv
<1>2. /\ Auditing /\ r \in DrawnBy(op, Draws) /\ Audit(op, r) # "ok" /\ verdict' = Audit(op, r)
      /\ phase' = "done" /\ UNCHANGED <<prog, claims, pbufs, forged, pc, bufs, fooled>>
  BY DEF AuditReject
<1>3. /\ pc \in 1..Len(claims) /\ pc \in 1..Len(prog.ops) /\ Len(claims) = Len(prog.ops)
      /\ KernelAt(h, pc) = Kernel(op, bufs, B) /\ BufsTyped(bufs) /\ OpOK(op, B)
  BY <1>1, <1>2, AuditPlace
<1>4. BindsOK(B) /\ Base /\ Len(prog.ops) \in Nat /\ pc <= Len(prog.ops)
  BY <1>3, Prog DEF IInv
<1>5. (Maps(h) /\ Aligned(h) /\ Claimed(h) /\ Evaluated(h))'
  BY <1>1, <1>2 DEF Maps, Aligned, Claimed, Evaluated, Wrong, Right, KernelAt
<1>6. \E g : (Maps(g) /\ Aligned(g) /\ Claimed(g) /\ Evaluated(g))'
  BY <1>5
<1>7. Base'
  BY <1>2, <1>3, <1>4 DEF Base, Phases
<1>8. ASSUME forged = {}
      PROVE  \/ verdict' = "AccumulatorRange"
             \/ verdict' = "InvalidShift" /\ ShiftRejected(op)
  <2>1. Right(h, pc)
    BY <1>1, <1>3, <1>8 DEF Claimed
  <2>2. /\ Kernel(op, bufs, B).err = "ok"
        /\ claims[pc] = Kernel(op, bufs, B).out \/ ShiftRejected(op)
    BY <1>3, <2>1 DEF Right
  <2>3. IsLinear(op) => r \in [1..Rows(WeightOf(op, B)) -> FieldElems]
    <3> SUFFICES ASSUME IsLinear(op) PROVE r \in [1..Rows(WeightOf(op, B)) -> FieldElems]
      OBVIOUS
    <3>1. Has(B.weights, op.weight)
      BY <1>3, <1>4, <2>2, LinearFacts
    <3> QED BY <1>2, <3>1, DrawIsChallenge
  <2> DEFINE z == claims[pc]
  <2>4. verdict' = AuditOp(op, z, bufs, B, r) /\ verdict' # "ok"
    BY <1>2 DEF Audit
  <2> HIDE DEF op, B, z
  <2>5. /\ ShiftRejected(op) => AuditOp(op, z, bufs, B, r) = "InvalidShift"
        /\ (~ShiftRejected(op) /\ z = Kernel(op, bufs, B).out)
             => AuditOp(op, z, bufs, B, r) \in {"ok", "AccumulatorRange"}
    BY <1>3, <1>4, <2>2, <2>3, AuditComplete
  <2> QED BY <2>2, <2>4, <2>5 DEF z
<1>9. Verdicts'
  <2>1. verdict' # "ok" /\ ~(pc' > Len(prog'.ops)) /\ phase' = "done"
    BY <1>2, <1>4, <1>3
  <2>2. (forged' = {}) => HonestVerdict'
    BY <1>2, <1>8 DEF HonestVerdict
  <2> QED BY <2>1, <2>2 DEF Verdicts
<1> QED BY <1>6, <1>7, <1>9 DEF IInv

LEMMA FinishInv ==
    ASSUME IInv, Finish
    PROVE  IInv'
<1>1. PICK h : Maps(h) /\ Aligned(h) /\ Claimed(h) /\ Evaluated(h)
  BY DEF IInv
<1>2. /\ phase = "audit" /\ pc > Len(prog.ops) /\ phase' = "done"
      /\ verdict' = IF prog.output_buf \in DOMAIN bufs THEN "ok" ELSE "MissingBuffer"
      /\ UNCHANGED <<prog, claims, pbufs, forged, pc, bufs, fooled>>
  BY DEF Finish
<1>3. (Maps(h) /\ Aligned(h) /\ Claimed(h) /\ Evaluated(h))'
  BY <1>1, <1>2 DEF Maps, Aligned, Claimed, Evaluated, Wrong, Right, KernelAt
<1>4. \E g : (Maps(g) /\ Aligned(g) /\ Claimed(g) /\ Evaluated(g))'
  BY <1>3
<1>5. Base'
  BY <1>2 DEF IInv, Base, Phases
<1>6. Verdicts'
  BY <1>2 DEF Verdicts, HonestVerdict
<1> QED BY <1>4, <1>5, <1>6 DEF IInv

\* The steps of the walk, which a statement over the block takes as well.
LEMMA WalkInv ==
    ASSUME IInv, AuditNext \/ Finish
    PROVE  IInv'
  BY AuditStepInv, AuditRejectInv, FinishInv DEF AuditNext

LEMMA StepInv == IInv /\ [Next]_vars => IInv'
<1> SUFFICES ASSUME IInv, [Next]_vars PROVE IInv'
  OBVIOUS
<1>1. CASE ProveOp
  BY <1>1, ProveOpInv
<1>2. CASE ProveFail
  BY <1>2, PhaseInv DEF ProveFail, Phases, Proving, IInv, Base, Verdicts
<1>3. CASE \E z \in Claims : ForgeOp(z)
  BY <1>3, ForgeOpInv
<1>4. CASE Commit
  BY <1>4, PhaseInv DEF Commit, Phases, IInv, Verdicts
<1>5. CASE AuditNext \/ Finish
  BY <1>5, WalkInv
<1>6. CASE UNCHANGED vars
  BY <1>6, PhaseInv DEF vars, IInv, Base, Verdicts
<1> QED BY <1>1, <1>2, <1>3, <1>4, <1>5, <1>6 DEF Next

(******************************* the theorems ******************************)
\* Nothing is over without a verdict.
Spoken == phase \in {"prove", "failed", "audit", "done"} /\ (phase = "done" => verdict # "none")

LEMMA StepSpoken == IInv /\ Spoken /\ [Next]_vars => Spoken'
<1> SUFFICES ASSUME IInv, Spoken, [Next]_vars PROVE Spoken'
  OBVIOUS
<1>1. CASE ProveOp
  BY <1>1 DEF ProveOp, Claim, Spoken
<1>2. CASE ProveFail
  BY <1>2 DEF ProveFail, Spoken
<1>3. CASE \E z \in Claims : ForgeOp(z)
  BY <1>3 DEF ForgeOp, Claim, Spoken
<1>4. CASE Commit
  BY <1>4 DEF Commit, Spoken
<1>5. CASE \E r : AuditStep(r)
  BY <1>5 DEF AuditStep, Spoken
<1>6. CASE \E r : AuditReject(r)
  <2>1. PICK r : AuditReject(r)
    BY <1>6
  <2>2. PICK h : Maps(h) /\ Aligned(h)
    BY DEF IInv
  <2>3. OpOK(prog.ops[pc], prog.binds)
    BY <2>1, <2>2, AuditPlace DEF AuditReject
  <2>4. verdict' # "none"
    BY <2>1, <2>3, AuditSpeaks DEF AuditReject, Audit
  <2> QED BY <2>1, <2>4 DEF AuditReject, Spoken
<1>7. CASE Finish
  BY <1>7 DEF Finish, Spoken
<1>8. CASE UNCHANGED vars
  BY <1>8 DEF vars, Spoken
<1> QED BY <1>1, <1>2, <1>3, <1>4, <1>5, <1>6, <1>7, <1>8 DEF Next, AuditNext

LEMMA AlwaysInv == Spec => [](IInv /\ Spoken)
<1>1. Init => IInv /\ Spoken
  BY InitInv DEF Init, Spoken
<1>2. IInv /\ Spoken /\ [Next]_vars => (IInv /\ Spoken)'
  BY StepInv, StepSpoken
<1> QED BY <1>1, <1>2, PTL DEF Spec

\* A claim that is not the kernel's, made anywhere in the prover's run, is not
\* accepted unless a dense layer passed a challenge that another one fails: for
\* every program, every claim and every set of challenges (audit_block).
THEOREM ForgeriesAreCaught == Spec => []ForgeryCaught
<1>1. IInv => ForgeryCaught
  <2> SUFFICES ASSUME IInv, verdict = "ok", forged # {} PROVE fooled
    BY DEF ForgeryCaught
  <2>1. Base /\ pc > Len(prog.ops) /\ phase = "done" /\ Len(claims) \in Nat
    BY Prog DEF IInv, Verdicts
  <2>2. PICK h : Claimed(h) /\ Evaluated(h)
    BY DEF IInv
  <2>3. PICK i \in forged : i \in 1..Len(claims)
    BY <2>1 DEF Base
  <2>4. Len(claims) = Len(prog.ops) /\ pc \in Int /\ i \in Int
    BY <2>1, <2>3 DEF Base
  <2>5. i \in 1..(pc - 1)
    BY <2>1, <2>3, <2>4
  <2> QED BY <2>2, <2>3, <2>5 DEF Claimed, Evaluated, Wrong
<1> QED BY <1>1, AlwaysInv, PTL

\* The claims of prove_block pass the audit, whatever the challenges, except
\* for what prove_block does not check: the accumulator range, the shift, and
\* an output buffer nothing writes.
THEOREM HonestProofsAreAccepted == Spec => []HonestAccepted
<1>1. IInv /\ Spoken => HonestAccepted
  BY DEF IInv, Spoken, Verdicts, HonestVerdict, HonestAccepted
<1> QED BY <1>1, AlwaysInv, PTL

(*************************** the refinement ********************************)
\* The trusted evaluator runs the same kernels: its operators are these.
LEMMA SameBuffers ==
    ASSUME NEW inputs, NEW b, NEW id, NEW v
    PROVE  Eval!Seed(inputs) = Seed(inputs) /\ Eval!Insert(b, id, v) = Insert(b, id, v)
<1>1. Eval!Seed(inputs) = Seed(inputs)
  BY DEF Eval!Seed, Seed, Eval!Max, Max
<1>2. Eval!Insert(b, id, v) = Insert(b, id, v)
  BY DEF Eval!Insert, Insert
<1> QED BY <1>1, <1>2

LEMMA SameLookups ==
    ASSUME NEW list, NEW id, NEW t, NEW x
    PROVE  /\ Eval!Has(list, id) = Has(list, id) /\ Eval!Find(list, id) = Find(list, id)
           /\ Eval!InDomain(t, x) = InDomain(t, x) /\ Eval!Lookup(t, x) = Lookup(t, x)
<1>1. Eval!Has(list, id) = Has(list, id)
  BY DEF Eval!Has, Has
<1>2. Eval!Find(list, id) = Find(list, id)
  BY DEF Eval!Find, Find, Eval!Min, Min
<1>3. Eval!InDomain(t, x) = InDomain(t, x) /\ Eval!Lookup(t, x) = Lookup(t, x)
  BY DEF Eval!InDomain, InDomain, Eval!Lookup, Lookup
<1> QED BY <1>1, <1>2, <1>3

LEMMA SameSums ==
    ASSUME NEW f, NEW n, NEW x, NEW k
    PROVE  /\ Eval!SumTo(f, n) = SumTo(f, n) /\ Eval!SumSeq(x) = SumSeq(x)
           /\ Eval!RoundDiv(k, n) = RoundDiv(k, n) /\ Eval!TruncDiv(k, n) = TruncDiv(k, n)
           /\ Eval!RowOf(x, k, n) = RowOf(x, k, n)
<1>1. Eval!SumTo(f, n) = SumTo(f, n)
  BY DEF Eval!SumTo, SumTo
<1>2. Eval!SumSeq(x) = SumSeq(x)
  BY DEF Eval!SumSeq, SumSeq, Eval!SumTo, SumTo
<1>3. Eval!RoundDiv(k, n) = RoundDiv(k, n)
  BY DEF Eval!RoundDiv, RoundDiv
<1>4. Eval!TruncDiv(k, n) = TruncDiv(k, n)
  BY DEF Eval!TruncDiv, TruncDiv, Eval!Magnitude, Magnitude
<1>5. Eval!RowOf(x, k, n) = RowOf(x, k, n)
  BY DEF Eval!RowOf, RowOf
<1> QED BY <1>1, <1>2, <1>3, <1>4, <1>5

LEMMA SameRescale ==
    ASSUME NEW q, NEW n, NEW r, NEW zero, NEW lo, NEW hi, NEW mode
    PROVE  /\ Eval!Requantize(n, r, zero, lo, hi, mode) = Requantize(n, r, zero, lo, hi, mode)
           /\ Eval!Rescale(q, n) = Rescale(q, n)
<1>1. \A a, b, c, d, e, f : Eval!Requantize(a, b, c, d, e, f) = Requantize(a, b, c, d, e, f)
  BY DEF Eval!Requantize, Requantize, Eval!Clamp, Clamp, Eval!Round, Round,
         Eval!RoundSplit, RoundSplit, Eval!SplitPow2, SplitPow2
<1>2. Eval!Rescale(q, n) = Rescale(q, n)
  BY <1>1 DEF Eval!Rescale, Rescale
<1> QED BY <1>1, <1>2

LEMMA SameLinear ==
    ASSUME NEW op, NEW x, NEW B
    PROVE  Eval!LinearKernel(op, x, B) = LinearKernel(op, x, B)
<1>1. \A w, a, b, s : Eval!LinearRows(w, a, b, s) = LinearRows(w, a, b, s)
  BY DEF Eval!LinearRows, LinearRows, Eval!Linear, Linear, Eval!Rows, Rows, Eval!Cols, Cols,
         Eval!Cell, Cell, Eval!SumTo, SumTo, Eval!RowOf, RowOf
<1>2. \A w : Eval!Rows(w) = Rows(w) /\ Eval!Cols(w) = Cols(w)
  BY DEF Eval!Rows, Rows, Eval!Cols, Cols
<1>3. Eval!BiasMissing(op, B) = BiasMissing(op, B)
  BY SameLookups DEF Eval!BiasMissing, BiasMissing
<1>4. Eval!Bias(op, B) = Bias(op, B)
  BY <1>2, SameLookups DEF Eval!Bias, Bias
<1>5. Eval!SeqLen(op) = SeqLen(op)
  BY DEF Eval!SeqLen, SeqLen
<1> QED BY <1>1, <1>2, <1>3, <1>4, <1>5, SameLookups
      DEF Eval!LinearKernel, LinearKernel, Eval!Err, Err, Eval!Out, Out

LEMMA SameElementwise ==
    ASSUME NEW op, NEW x, NEW y, NEW z, NEW B
    PROVE  /\ Eval!RequantKernel(op, x) = RequantKernel(op, x)
           /\ Eval!ActivationKernel(op, x, B) = ActivationKernel(op, x, B)
           /\ Eval!ModulateKernel(op, x, y, z) = ModulateKernel(op, x, y, z)
           /\ Eval!GateKernel(op, x, y) = GateKernel(op, x, y)
           /\ Eval!AddKernel(x, y) = AddKernel(x, y)
           /\ Eval!SliceKernel(op, x) = SliceKernel(op, x)
<1> USE DEF Eval!Err, Err, Eval!Out, Out
<1>1. Eval!RequantKernel(op, x) = RequantKernel(op, x)
  <2>1. Eval!Modes = Modes
    BY DEF Eval!Modes, Modes
  <2>2. [i \in DOMAIN x |-> Eval!Requantize(x[i], op.shift, op.zero_point, op.lo, op.hi, op.rounding)]
          = [i \in DOMAIN x |-> Requantize(x[i], op.shift, op.zero_point, op.lo, op.hi, op.rounding)]
    BY SameRescale
  <2> QED BY <2>1, <2>2 DEF Eval!RequantKernel, RequantKernel
<1>2. Eval!ActivationKernel(op, x, B) = ActivationKernel(op, x, B)
  <2> DEFINE t == Find(B.tables, op.table)
  <2>1. [i \in DOMAIN x |-> Eval!Lookup(t, x[i])] = [i \in DOMAIN x |-> Lookup(t, x[i])]
    BY SameLookups
  <2>2. (\E i \in DOMAIN x : ~Eval!InDomain(t, x[i])) = (\E i \in DOMAIN x : ~InDomain(t, x[i]))
    BY SameLookups
  <2> QED BY <2>1, <2>2, SameLookups DEF Eval!ActivationKernel, ActivationKernel
<1>3. Eval!ModulateKernel(op, x, y, z) = ModulateKernel(op, x, y, z)
  <2>1. Eval!ModulateVec(op, x, y, z) = ModulateVec(op, x, y, z)
    BY SameRescale DEF Eval!ModulateVec, ModulateVec, Eval!Min, Min
  <2> QED BY <2>1 DEF Eval!ModulateKernel, ModulateKernel, Eval!Modes, Modes
<1>4. Eval!GateKernel(op, x, y) = GateKernel(op, x, y)
  <2>1. Eval!GateVec(op, x, y) = GateVec(op, x, y)
    BY SameRescale DEF Eval!GateVec, GateVec, Eval!ZipLen, ZipLen
  <2> QED BY <2>1 DEF Eval!GateKernel, GateKernel, Eval!Modes, Modes
<1>5. Eval!AddKernel(x, y) = AddKernel(x, y)
  BY DEF Eval!AddKernel, AddKernel, Eval!ResidualAdd, ResidualAdd, Eval!ZipLen, ZipLen
<1>6. Eval!SliceKernel(op, x) = SliceKernel(op, x)
  BY DEF Eval!SliceKernel, SliceKernel
<1> QED BY <1>1, <1>2, <1>3, <1>4, <1>5, <1>6

LEMMA SameReductions ==
    ASSUME NEW op, NEW x, NEW B
    PROVE  /\ Eval!LayerNormKernel(op, x, B) = LayerNormKernel(op, x, B)
           /\ Eval!SoftmaxKernel(op, x, B) = SoftmaxKernel(op, x, B)
<1> USE DEF Eval!Err, Err, Eval!Out, Out
<1>1. Eval!LayerNormKernel(op, x, B) = LayerNormKernel(op, x, B)
  <2>1. Eval!Mean(x) = Mean(x)
    BY SameSums DEF Eval!Mean, Mean
  <2>2. Eval!Centered(x) = Centered(x)
    BY <2>1 DEF Eval!Centered, Centered
  <2>3. Eval!Variance(x) = Variance(x)
    BY <2>2, SameSums DEF Eval!Variance, Variance
  <2> DEFINE t == Find(B.tables, op.table)
  <2>4. Eval!LayerNormDefined(x, t) = LayerNormDefined(x, t)
    BY <2>3, SameLookups DEF Eval!LayerNormDefined, LayerNormDefined
  <2>5. Eval!LayerNorm(op, x, t) = LayerNorm(op, x, t)
    BY <2>2, <2>3, SameLookups, SameRescale DEF Eval!LayerNorm, LayerNorm
  <2> QED BY <2>4, <2>5, SameLookups DEF Eval!LayerNormKernel, LayerNormKernel, Eval!Modes, Modes
<1>2. Eval!SoftmaxKernel(op, x, B) = SoftmaxKernel(op, x, B)
  <2> DEFINE t == Find(B.tables, op.table)
  <2>1. ASSUME NEW a PROVE Eval!MaxOf(a) = MaxOf(a) /\ Eval!Exps(a, t) = Exps(a, t)
    <3>1. Eval!MaxOf(a) = MaxOf(a)
      BY DEF Eval!MaxOf, MaxOf, Eval!Max, Max
    <3> QED BY <3>1, SameLookups DEF Eval!Exps, Exps
  <2>2. ASSUME NEW a PROVE Eval!SoftmaxDefined(a, t) = SoftmaxDefined(a, t)
    BY <2>1, SameSums, SameLookups DEF Eval!SoftmaxDefined, SoftmaxDefined
  <2>3. ASSUME NEW a, NEW one PROVE Eval!Softmax(a, t, one) = Softmax(a, t, one)
    BY <2>1, SameSums DEF Eval!Softmax, Softmax
  <2>4. Eval!SoftmaxRowsDefined(x, op.row_len, t) = SoftmaxRowsDefined(x, op.row_len, t)
    BY <2>2, SameSums DEF Eval!SoftmaxRowsDefined, SoftmaxRowsDefined
  <2>5. Eval!SoftmaxRows(x, op.row_len, t, op.one) = SoftmaxRows(x, op.row_len, t, op.one)
    BY <2>3, SameSums DEF Eval!SoftmaxRows, SoftmaxRows
  <2> QED BY <2>4, <2>5, SameLookups DEF Eval!SoftmaxKernel, SoftmaxKernel
<1> QED BY <1>1, <1>2

LEMMA SameKernel ==
    ASSUME NEW op, NEW b, NEW B
    PROVE  Eval!Kernel(op, b, B) = Kernel(op, b, B) /\ Eval!IsLinear(op) = IsLinear(op)
<1>1. \A x, y : Eval!MatMulKernel(op, x, y) = MatMulKernel(op, x, y)
  BY DEF Eval!MatMulKernel, MatMulKernel, Eval!MatMulDefined, MatMulDefined, Eval!MatMul, MatMul,
         Eval!SumTo, SumTo, Eval!Err, Err, Eval!Out, Out
<1>2. \A x : Eval!Out(x) = Out(x) /\ Eval!Err(x) = Err(x) /\ Eval!FlattenSeq(x) = FlattenSeq(x)
  BY DEF Eval!Err, Err, Eval!Out, Out, Eval!FlattenSeq, FlattenSeq
<1>3. Eval!IsLinear(op) = IsLinear(op)
  BY DEF Eval!IsLinear, IsLinear
<1>4. CASE \E i \in DOMAIN op.args : op.args[i] \notin DOMAIN b
  BY <1>2, <1>3, <1>4 DEF Eval!Kernel, Kernel
<1>5. CASE ~\E i \in DOMAIN op.args : op.args[i] \notin DOMAIN b
  <2> DEFINE arg == [i \in DOMAIN op.args |-> b[op.args[i]]]
             x == arg[1]
             y == arg[2]
             z == arg[3]
  <2>1. Kernel(op, b, B) =
          CASE IsLinear(op)           -> LinearKernel(op, x, B)
            [] op.kind = "Requant"    -> RequantKernel(op, x)
            [] op.kind = "Activation" -> ActivationKernel(op, x, B)
            [] op.kind = "LayerNorm"  -> LayerNormKernel(op, x, B)
            [] op.kind = "Modulate"   -> ModulateKernel(op, x, y, z)
            [] op.kind = "Gate"       -> GateKernel(op, x, y)
            [] op.kind = "Add"        -> AddKernel(x, y)
            [] op.kind = "MatMul"     -> MatMulKernel(op, x, y)
            [] op.kind = "Softmax"    -> SoftmaxKernel(op, x, B)
            [] op.kind = "Slice"      -> SliceKernel(op, x)
            [] op.kind = "Concat"     -> Out(FlattenSeq(arg))
    BY <1>5 DEF Kernel
  <2>2. Eval!Kernel(op, b, B) =
          CASE Eval!IsLinear(op)      -> Eval!LinearKernel(op, x, B)
            [] op.kind = "Requant"    -> Eval!RequantKernel(op, x)
            [] op.kind = "Activation" -> Eval!ActivationKernel(op, x, B)
            [] op.kind = "LayerNorm"  -> Eval!LayerNormKernel(op, x, B)
            [] op.kind = "Modulate"   -> Eval!ModulateKernel(op, x, y, z)
            [] op.kind = "Gate"       -> Eval!GateKernel(op, x, y)
            [] op.kind = "Add"        -> Eval!AddKernel(x, y)
            [] op.kind = "MatMul"     -> Eval!MatMulKernel(op, x, y)
            [] op.kind = "Softmax"    -> Eval!SoftmaxKernel(op, x, B)
            [] op.kind = "Slice"      -> Eval!SliceKernel(op, x)
            [] op.kind = "Concat"     -> Eval!Out(Eval!FlattenSeq(arg))
    BY <1>5 DEF Eval!Kernel
  <2> HIDE DEF arg, x, y, z
  <2>3. Eval!LinearKernel(op, x, B) = LinearKernel(op, x, B)
    BY SameLinear
  <2>4. /\ Eval!RequantKernel(op, x) = RequantKernel(op, x)
        /\ Eval!ActivationKernel(op, x, B) = ActivationKernel(op, x, B)
        /\ Eval!ModulateKernel(op, x, y, z) = ModulateKernel(op, x, y, z)
        /\ Eval!GateKernel(op, x, y) = GateKernel(op, x, y)
        /\ Eval!AddKernel(x, y) = AddKernel(x, y)
        /\ Eval!SliceKernel(op, x) = SliceKernel(op, x)
    BY SameElementwise
  <2>5. /\ Eval!LayerNormKernel(op, x, B) = LayerNormKernel(op, x, B)
        /\ Eval!SoftmaxKernel(op, x, B) = SoftmaxKernel(op, x, B)
    BY SameReductions
  <2>6. /\ Eval!MatMulKernel(op, x, y) = MatMulKernel(op, x, y)
        /\ Eval!Out(Eval!FlattenSeq(arg)) = Out(FlattenSeq(arg))
    BY <1>1, <1>2
  <2> QED BY <1>3, <2>1, <2>2, <2>3, <2>4, <2>5, <2>6
<1> QED BY <1>3, <1>4, <1>5

\* A step of the walk over a passed op is the evaluator's, or its lucky guess.
LEMMA StepEvaluates ==
    ASSUME IInv, NEW r, AuditStep(r)
    PROVE  Eval!Evaluate \/ Eval!Guess
<1> DEFINE op == prog.ops[pc]
           k == Kernel(op, bufs, prog.binds)
<1>1. PICK h : Maps(h) /\ Aligned(h)
  BY DEF IInv
<1>2. /\ Auditing /\ Audit(op, r) = "ok" /\ pc' = pc + 1
      /\ bufs' = Insert(bufs, op.out_buf, claims[pc])
      /\ fooled' = (fooled \/ Lucky(op))
      /\ UNCHANGED <<prog, phase, claims, pbufs, forged, verdict>>
  BY DEF AuditStep
<1>3. OpOK(op, prog.binds)
  BY <1>1, <1>2, AuditPlace
<1>4. k.err = "ok"
  BY <1>2, <1>3, AuditSound DEF Audit
<1>5. verdict = "none" /\ fooled \in BOOLEAN /\ pc <= Len(prog.ops)
  BY <1>2 DEF IInv, Verdicts, Base, Auditing
<1>6. Eval!Running
  BY <1>5 DEF Eval!Running
<1>7. Eval!Kernel(op, bufs, prog.binds) = k /\ Eval!IsLinear(op) = IsLinear(op)
  BY SameKernel
<1>8. \A id, v : Eval!Insert(bufs, id, v) = Insert(bufs, id, v)
  BY SameBuffers
<1>9. CASE claims[pc] = k.out
  <2>1. ~Lucky(op)
    BY <1>9 DEF Lucky
  <2>2. fooled' = fooled
    BY <1>2, <1>5, <2>1
  <2> QED BY <1>2, <1>4, <1>6, <1>7, <1>8, <1>9, <2>2 DEF Eval!Evaluate
<1>10. CASE claims[pc] # k.out
  <2>1. IsLinear(op) /\ Lucky(op)
    BY <1>2, <1>10, WrongIsLucky
  <2>2. fooled'
    BY <1>2, <2>1
  <2> DEFINE id == op.out_buf
  <2>3. id \in DOMAIN bufs' /\ bufs' = Eval!Insert(bufs, id, bufs'[id])
    <3>1. bufs' = Insert(bufs, id, claims[pc])
      BY <1>2
    <3> HIDE DEF id
    <3>2. id \in DOMAIN bufs' /\ bufs'[id] = claims[pc]
      BY <3>1 DEF Insert
    <3> QED BY <1>8, <3>1, <3>2
  <2>4. fooled' = TRUE
    BY <1>2, <1>5, <2>1
  <2> QED BY <1>2, <1>6, <1>7, <2>1, <2>3, <2>4 DEF Eval!Guess
<1> QED BY <1>9, <1>10

\* verify_block implements the trusted evaluator: every op it passes is run by
\* its exact kernel, or is a dense layer taken by luck; it accepts at the end,
\* with the output buffer written, and may reject at any time.
THEOREM AcceptedIsEvaluated == Spec => Evaluates
<1>1. Init => Eval!Init
  BY SameBuffers DEF Init, Eval!Init
<1>2. IInv /\ Spoken /\ [Next]_vars => [Eval!Next]_(Eval!vars)
  <2> SUFFICES ASSUME IInv, Spoken, [Next]_vars PROVE [Eval!Next]_(Eval!vars)
    OBVIOUS
  <2> USE DEF Eval!vars
  <2>1. CASE ProveOp
    BY <2>1 DEF ProveOp, Claim
  <2>2. CASE ProveFail
    BY <2>2 DEF ProveFail
  <2>3. CASE \E z \in Claims : ForgeOp(z)
    BY <2>3 DEF ForgeOp, Claim
  <2>4. CASE Commit
    BY <2>4 DEF Commit
  <2>5. CASE \E r : AuditStep(r)
    BY <2>5, StepEvaluates DEF Eval!Next
  <2>6. CASE \E r : AuditReject(r)
    <3>1. /\ verdict = "none" /\ verdict' # "none" /\ verdict' # "ok"
          /\ UNCHANGED <<prog, pc, bufs, fooled>>
      <4>1. PICK r : AuditReject(r)
        BY <2>6
      <4>2. phase' = "done" /\ Spoken'
        BY <4>1, StepSpoken DEF AuditReject
      <4> QED BY <4>1, <4>2 DEF AuditReject, Auditing, Spoken, IInv, Verdicts
    <3>2. Eval!Reject
      BY <3>1 DEF Eval!Reject
    <3> QED BY <3>2 DEF Eval!Next
  <2>7. CASE Finish
    <3>1. verdict = "none" /\ pc > Len(prog.ops) /\ UNCHANGED <<prog, pc, bufs, fooled>>
          /\ verdict' = IF prog.output_buf \in DOMAIN bufs THEN "ok" ELSE "MissingBuffer"
      BY <2>7 DEF Finish, IInv, Verdicts
    <3>2. CASE prog.output_buf \in DOMAIN bufs
      <4>1. Eval!Accept
        BY <3>1, <3>2 DEF Eval!Accept
      <4> QED BY <4>1 DEF Eval!Next
    <3>3. CASE prog.output_buf \notin DOMAIN bufs
      <4>1. Eval!Reject
        BY <3>1, <3>3 DEF Eval!Reject
      <4> QED BY <4>1 DEF Eval!Next
    <3> QED BY <3>2, <3>3
  <2>8. CASE UNCHANGED vars
    BY <2>8 DEF vars
  <2> QED BY <2>1, <2>2, <2>3, <2>4, <2>5, <2>6, <2>7, <2>8 DEF Next, AuditNext
<1> QED BY <1>1, <1>2, AlwaysInv, PTL DEF Spec, Evaluates, Eval!Spec

Sent == {"sent", "audit", "done"}

\* The statement and the artifact: what was sent, what was changed on the way,
\* and what the gate and the end of the walk made of it.
Statement ==
    /\ stated \in Programs /\ alter \in Fields \union {"none"}
    /\ phase \in {"prove", "failed"} => alter = "none"
    /\ phase \in Sent =>
          pi = IF alter = "none" THEN Public(stated, output)
               ELSE [Public(stated, output) EXCEPT ![alter] = Altered(alter)]
    /\ phase = "audit" => GateResult = "ok"
    /\ phase # "done" => outcome = "none"
    /\ phase = "done" =>
          IF verdict = "none" THEN GateResult # "ok" /\ outcome = GateResult
          ELSE GateResult = "ok" /\ outcome \in {"none", OutputResult}

PInv == IInv /\ Statement

LEMMA InitPInv == PInit => PInv
<1> SUFFICES ASSUME PInit PROVE PInv
  OBVIOUS
<1>1. Init /\ phase = "prove"
  BY DEF PInit, Init
<1>2. IInv
  BY <1>1, InitInv
<1>3. Statement
  BY <1>1 DEF PInit, Statement, Sent
<1> QED BY <1>2, <1>3 DEF PInv

\* A step of the block under the statement.
LEMMA BlockPInv ==
    ASSUME PInv, IInv', UNCHANGED <<stated, pi, alter, output, outcome>>, phase = "prove",
           phase' \in {"prove", "failed"}
    PROVE  PInv'
  BY DEF PInv, Statement, Sent

LEMMA BindPInv ==
    ASSUME PInv, Proved, NEW out, BindOutput(out)
    PROVE  PInv'
<1>1. /\ IInv /\ phase = "prove" /\ Len(claims) = Len(prog.ops) /\ phase' = "sent"
      /\ UNCHANGED <<prog, claims, pbufs, forged, pc, bufs, verdict, fooled>>
      /\ pi' = Public(stated', output') /\ UNCHANGED <<stated, alter, outcome>>
  BY DEF PInv, Proved, BindOutput
<1>2. IInv'
  BY <1>1, PhaseInv DEF IInv, Base, Verdicts, Phases
<1>3. Statement'
  BY <1>1 DEF PInv, Statement, Sent
<1> QED BY <1>2, <1>3 DEF PInv

LEMMA AlterPInv ==
    ASSUME PInv, NEW f \in Fields, Alter(f)
    PROVE  PInv'
<1>1. /\ IInv /\ phase = "sent" /\ alter = "none" /\ alter' = f /\ UNCHANGED <<vars, stated, output, outcome>>
      /\ pi' = [pi EXCEPT ![f] = Altered(f)] /\ pi = Public(stated, output) /\ f # "none"
  BY DEF PInv, Alter, Statement, Sent, Fields, ReadFields, UnreadFields
<1>2. IInv'
  BY <1>1, PhaseInv DEF IInv, Base, Verdicts, Phases, vars
<1>3. Statement'
  BY <1>1 DEF PInv, Statement, Sent, vars
<1> QED BY <1>2, <1>3 DEF PInv

LEMMA GatePInv ==
    ASSUME PInv, Gate
    PROVE  PInv'
<1>1. /\ IInv /\ phase = "sent" /\ verdict = "none" /\ outcome = "none" /\ pc = 1
      /\ Len(claims) = Len(prog.ops)
      /\ IF GateResult = "ok" THEN phase' = "audit" /\ UNCHANGED outcome
         ELSE phase' = "done" /\ outcome' = GateResult
      /\ UNCHANGED <<prog, claims, pbufs, forged, pc, bufs, verdict, fooled>>
      /\ UNCHANGED <<stated, pi, alter, output>>
  BY DEF PInv, Gate, IInv, Base, Verdicts, Statement
<1>2. IInv'
  BY <1>1, PhaseInv DEF Phases
<1>3. GateResult' = GateResult
  BY <1>1 DEF GateResult, Recomputed
<1>4. Statement'
  BY <1>1, <1>3 DEF PInv, Statement, Sent
<1> QED BY <1>2, <1>4 DEF PInv

LEMMA WalkPInv ==
    ASSUME PInv, Block(AuditNext) \/ Block(Finish)
    PROVE  PInv'
<1>1. /\ UNCHANGED <<stated, pi, alter, output, outcome>> /\ IInv /\ (AuditNext \/ Finish)
  BY DEF PInv, Block
<1>2. /\ phase = "audit" /\ UNCHANGED prog
      /\ \/ phase' = "audit"
         \/ phase' = "done" /\ verdict' # "none"
  <2>1. CASE Finish
    BY <2>1 DEF Finish
  <2>2. CASE \E r : AuditStep(r)
    BY <2>2 DEF AuditStep, Auditing
  <2>3. CASE \E r : AuditReject(r)
    <3>1. PICK r : AuditReject(r)
      BY <2>3
    <3>2. PICK h : Maps(h) /\ Aligned(h)
      BY <1>1 DEF IInv
    <3>3. OpOK(prog.ops[pc], prog.binds)
      BY <1>1, <3>1, <3>2, AuditPlace DEF AuditReject
    <3>4. verdict' # "none"
      BY <3>1, <3>3, AuditSpeaks DEF AuditReject, Audit
    <3> QED BY <3>1, <3>4 DEF AuditReject, Auditing
  <2> QED BY <1>1, <2>1, <2>2, <2>3 DEF AuditNext
<1>3. IInv'
  BY <1>1, WalkInv
<1>4. GateResult' = GateResult /\ GateResult = "ok" /\ outcome = "none"
  BY <1>1, <1>2 DEF GateResult, Recomputed, PInv, Statement
<1>5. Statement'
  BY <1>1, <1>2, <1>4 DEF PInv, Statement, Sent
<1> QED BY <1>3, <1>5 DEF PInv

LEMMA GateSpeaks == GateResult # "none"
  BY DEF GateResult

LEMMA CheckOutputPInv ==
    ASSUME PInv, CheckOutput
    PROVE  PInv'
<1>1. /\ IInv /\ phase = "done" /\ outcome = "none" /\ outcome' = OutputResult
      /\ UNCHANGED <<vars, stated, pi, alter, output>>
  BY DEF PInv, CheckOutput
<1>2. verdict # "none" /\ GateResult = "ok"
  BY <1>1, GateSpeaks DEF PInv, Statement
<1>3. GateResult' = GateResult /\ OutputResult' = OutputResult
  BY <1>1 DEF GateResult, Recomputed, OutputResult, vars
<1>4. IInv'
  BY <1>1, PhaseInv DEF IInv, Base, Verdicts, Phases, vars
<1>5. Statement'
  BY <1>1, <1>2, <1>3 DEF PInv, Statement, Sent, vars
<1> QED BY <1>4, <1>5 DEF PInv

LEMMA StepPInv == PInv /\ [PNext]_pvars => PInv'
<1> SUFFICES ASSUME PInv, [PNext]_pvars PROVE PInv'
  OBVIOUS
<1>0. IInv
  BY DEF PInv
<1>1. CASE Block(ProveOp)
  <2>1. IInv'
    BY <1>0, <1>1, ProveOpInv DEF Block
  <2> QED BY <1>1, <2>1, BlockPInv DEF Block, ProveOp, Proving, Claim
<1>2. CASE Block(ProveFail)
  <2>1. IInv'
    BY <1>0, <1>2, PhaseInv DEF Block, ProveFail, Phases, Proving, IInv, Base, Verdicts
  <2> QED BY <1>2, <2>1, BlockPInv DEF Block, ProveFail, Proving
<1>3. CASE \E z \in Claims : Block(ForgeOp(z))
  <2>1. IInv'
    BY <1>0, <1>3, ForgeOpInv DEF Block
  <2> QED BY <1>3, <2>1, BlockPInv DEF Block, ForgeOp, Proving, Claim
<1>4. CASE Bind
  BY <1>4, BindPInv DEF Bind
<1>5. CASE BindFail
  <2>1. IInv'
    BY <1>0, <1>5, PhaseInv DEF BindFail, Proved, Phases, IInv, Base, Verdicts
  <2> QED BY <1>5, <2>1, BlockPInv DEF BindFail, Proved
<1>6. CASE \E z \in Claims : BindForged(z)
  BY <1>6, BindPInv DEF BindForged
<1>7. CASE \E f \in MayAlter : Alter(f)
  BY <1>7, AlterPInv, MayAlterAssumption
<1>8. CASE Gate
  BY <1>8, GatePInv
<1>9. CASE Block(AuditNext) \/ Block(Finish)
  BY <1>9, WalkPInv
<1>10. CASE CheckOutput
  BY <1>10, CheckOutputPInv
<1>11. CASE UNCHANGED pvars
  <2>1. UNCHANGED vars /\ UNCHANGED <<stated, pi, alter, output, outcome>>
    BY <1>11 DEF pvars
  <2>2. IInv'
    BY <1>0, <2>1, PhaseInv DEF IInv, Base, Verdicts, Phases, vars
  <2>3. GateResult' = GateResult /\ OutputResult' = OutputResult
    BY <2>1 DEF GateResult, Recomputed, OutputResult, vars
  <2>4. Statement'
    BY <2>1, <2>3 DEF PInv, Statement, Sent, vars
  <2> QED BY <2>2, <2>4 DEF PInv
<1> QED BY <1>1, <1>2, <1>3, <1>4, <1>5, <1>6, <1>7, <1>8, <1>9, <1>10, <1>11 DEF PNext

LEMMA AlwaysPInv == PSpec => []PInv
  BY InitPInv, StepPInv, PTL DEF PSpec

(****************************** the header *********************************)
\* An outcome is the gate's error, or the end of the walk's over a good gate.
LEMMA Accepted ==
    ASSUME PInv, outcome = "ok"
    PROVE  /\ phase = "done" /\ GateResult = "ok" /\ OutputResult = "ok"
           /\ verdict = "ok" /\ output = bufs[prog.output_buf]
           /\ pi.output = OutputCommitment(output)
<1>1. phase = "done" /\ verdict # "none" /\ GateResult = "ok" /\ OutputResult = "ok"
  BY DEF PInv, Statement
<1> QED BY <1>1 DEF OutputResult

\* A good gate: every header field is the one the verifier holds.
LEMMA GoodGate ==
    ASSUME GateResult = "ok"
    PROVE  /\ pi.version = "v1" /\ pi.relation = "predictor" /\ pi.statement = "P0Step"
           /\ pi.model = Recomputed.model /\ pi.quant = Recomputed.quant
           /\ pi.planner = PlannerSentinel /\ pi.inputs = Recomputed.inputs
  BY DEF GateResult

\* A changed field that the verifier reads is not what it compares it with.
LEMMA ReadIsKept ==
    ASSUME PInv, outcome = "ok"
    PROVE  alter \in UnreadFields \union {"none"}
<1> SUFFICES ASSUME alter \in ReadFields PROVE FALSE
  BY DEF PInv, Statement, Fields
<1>1. /\ phase = "done" /\ pi.output = OutputCommitment(output)
      /\ pi.version = "v1" /\ pi.relation = "predictor" /\ pi.statement = "P0Step"
      /\ pi.planner = PlannerSentinel
      /\ pi.model = Recomputed.model /\ pi.quant = Recomputed.quant /\ pi.inputs = Recomputed.inputs
  BY Accepted, GoodGate
<1>2. alter # "none" /\ pi = [Public(stated, output) EXCEPT ![alter] = Altered(alter)]
  BY <1>1 DEF PInv, Statement, Sent, ReadFields
<1>3. pi[alter] = Altered(alter)
  BY <1>2 DEF Public, ReadFields
<1>4. alter \notin {"version", "relation", "statement"}
  BY <1>1, <1>3 DEF Altered, UnreadFields
<1>5. alter # "planner"
  BY <1>1, <1>3 DEF Altered, PlannerSentinel, Commit32
<1>6. alter # "output"
  BY <1>1, <1>3 DEF Altered, OutputCommitment, Commit32
<1>7. /\ Recomputed.model # Commit32("altered", None) /\ Recomputed.quant # Commit32("altered", None)
      /\ Recomputed.inputs # Commit32("altered", None)
  BY DEF Recomputed, Public, ModelCommitment, QuantCommitment, InputsCommitment, Commit32
<1>8. alter \in {"model", "quant", "inputs"} => Altered(alter) = Commit32("altered", None)
  BY DEF Altered, UnreadFields
<1>9. alter # "model"
  BY <1>1, <1>3, <1>7, <1>8
<1>10. alter # "quant"
  BY <1>1, <1>3, <1>7, <1>8
<1>11. alter # "inputs"
  BY <1>1, <1>3, <1>7, <1>8
<1> QED BY <1>4, <1>5, <1>6, <1>9, <1>10, <1>11 DEF ReadFields

\* The header of an accepted artifact is the one that was sealed, in every field that
\* verify_predictor reads (the version, the relation, the statement, five commitments), for
\* every program, claim and output; seven fields of the public input are left open.
THEOREM AcceptedHeaderIsSealed == PSpec => []HeaderBound
<1>1. PInv => HeaderBound
  BY ReadIsKept DEF HeaderBound
<1> QED BY <1>1, AlwaysPInv, PTL

(************************* the claimed output ******************************)
\* After the last op that writes the output buffer, it holds that op's claim.
LEMMA LastWriter ==
    ASSUME PInv, Len(claims) = Len(prog.ops), Writers # {}, NEW h, Maps(h)
    PROVE  LET last == h[Len(claims)]
           IN  prog.output_buf \in DOMAIN last /\ last[prog.output_buf] = claims[Max(Writers)]
<1> DEFINE N == Len(claims)
           b == prog.output_buf
           j == Max(Writers)
           z == claims[Max(Writers)]
           Holds(n) == b \in DOMAIN h[n] /\ h[n][b] = z
<1>1. N \in Nat /\ Writers \subseteq 1..N /\ DOMAIN prog.ops = 1..N
  BY Prog, ListFacts DEF PInv, Writers
<1>2. j \in Writers /\ \A y \in Writers : y <= j
  <2> HIDE DEF N
  <2> QED BY <1>1, GreatestIs
<1>3. j \in 1..N /\ prog.ops[j].out_buf = b
  BY <1>1, <1>2 DEF Writers
<1>4. Holds(j)
  <2>1. h[j] = Insert(h[j - 1], prog.ops[j].out_buf, claims[j])
    BY <1>3 DEF Maps
  <2> QED BY <1>3, <2>1 DEF Insert
<1>5. ASSUME NEW n \in j..(N - 1), Holds(n)
      PROVE  Holds(n + 1)
  <2>1. n + 1 \in 1..N /\ (n + 1) - 1 = n /\ ~(n + 1 <= j)
    BY <1>1, <1>3
  <2>2. h[n + 1] = Insert(h[n], prog.ops[n + 1].out_buf, claims[n + 1])
    BY <2>1 DEF Maps
  <2>3. prog.ops[n + 1].out_buf # b
    BY <1>1, <1>2, <2>1 DEF Writers
  <2> QED BY <1>5, <2>2, <2>3 DEF Insert
<1> DEFINE S == { n \in Nat : j + n <= N => Holds(j + n) }
<1> HIDE DEF Holds, j
<1>6. 0 \in S
  <2>1. j + 0 = j
    BY <1>1, <1>3
  <2> QED BY <1>4, <2>1
<1>7. ASSUME NEW n \in Nat, n \in S
      PROVE  n + 1 \in S
  <2>1. SUFFICES ASSUME j + (n + 1) <= N PROVE Holds(j + (n + 1))
    BY <1>7
  <2>2. j + n \in j..(N - 1) /\ (j + n) + 1 = j + (n + 1) /\ j + n <= N
    BY <1>1, <1>3, <2>1
  <2>3. Holds(j + n)
    BY <1>7, <2>2
  <2>4. Holds((j + n) + 1)
    BY <1>5, <2>2, <2>3
  <2> QED BY <2>2, <2>4
<1>8. N - j \in S
  <2>1. \A n \in Nat : n \in S
    <3> HIDE DEF S
    <3> QED BY <1>6, <1>7, SetInduction
  <2>2. N - j \in Nat
    BY <1>1, <1>3
  <2> HIDE DEF S, N
  <2> QED BY <2>1, <2>2
<1>9. Holds(N)
  <2>1. j + (N - j) = N
    BY <1>1, <1>3
  <2> QED BY <1>1, <1>8, <2>1
<1> QED BY <1>9 DEF Holds

\* At the end of the walk the verifier's map is the last of the history.
LEMMA WalkOver ==
    ASSUME PInv, phase = "done", pc > Len(prog.ops), NEW h, Aligned(h)
    PROVE  Len(claims) = Len(prog.ops) /\ pc = Len(claims) + 1 /\ bufs = h[Len(claims)]
<1>1. Base /\ Len(prog.ops) \in Nat /\ Len(claims) = Len(prog.ops)
  BY Prog DEF PInv, IInv, Base
<1>2. pc = Len(claims) + 1 /\ pc - 1 = Len(claims)
  BY <1>1 DEF Base
<1> QED BY <1>1, <1>2 DEF Aligned

\* An artifact prove_predictor makes is accepted by verify_predictor, or refused
\* for the accumulator range or a shift, which only the verifier checks: both
\* sides commit the same parts, and the prover's last writer of the output
\* buffer is what the verifier finds in it.
THEOREM HonestArtifactIsAccepted == PSpec => []HonestPredictorAccepted
<1>1. PInv => HonestPredictorAccepted
  <2> SUFFICES ASSUME PInv, outcome # "none", stated = prog, forged = {}, alter = "none",
                      Writers # {}, output = claims[Max(Writers)]
               PROVE  \/ outcome \in {"ok", "AccumulatorRange"}
                      \/ outcome = "InvalidShift" /\ ShiftRejected(prog.ops[pc])
    BY DEF HonestPredictorAccepted
  <2>1. phase = "done" /\ pi = Public(prog, output)
    BY DEF PInv, Statement, Sent
  <2>2. GateResult = "ok"
    BY <2>1 DEF GateResult, Recomputed, Public
  <2>3. verdict # "none" /\ outcome = OutputResult /\ HonestVerdict
    BY <2>1, <2>2 DEF PInv, Statement, IInv, Verdicts
  <2>4. PICK h : Maps(h) /\ Aligned(h)
    BY DEF PInv, IInv
  <2>5. ASSUME pc > Len(prog.ops)
        PROVE  prog.output_buf \in DOMAIN bufs /\ output = bufs[prog.output_buf]
    BY <2>1, <2>4, <2>5, WalkOver, LastWriter
  <2>6. CASE verdict = "ok"
    <3>1. pc > Len(prog.ops)
      BY <2>6 DEF PInv, IInv, Verdicts
    <3>2. output = bufs[prog.output_buf] /\ pi.output = OutputCommitment(output)
      BY <2>1, <2>5, <3>1 DEF Public
    <3> QED BY <2>3, <2>6, <3>2 DEF OutputResult
  <2>7. CASE verdict # "ok"
    <3>1. outcome = verdict
      BY <2>3, <2>7 DEF OutputResult
    <3>2. ~(verdict = "MissingBuffer" /\ pc > Len(prog.ops))
      BY <2>5 DEF PInv, IInv, Verdicts
    <3> QED BY <2>3, <2>7, <3>1, <3>2 DEF HonestVerdict
  <2> QED BY <2>6, <2>7
<1> QED BY <1>1, AlwaysPInv, PTL

(************************ what the program computes ************************)
\* The buffers a program runs through, by the exact kernels, none failing.
RunsThrough(p, h) ==
    /\ h[0] = Seed(p.inputs)
    /\ \A n \in 1..Len(p.ops) :
          LET k == Kernel(p.ops[n], h[n - 1], p.binds)
          IN  k.err = "ok" /\ h[n] = Insert(h[n - 1], p.ops[n].out_buf, k.out)

\* The recursion of RunsTo has one solution along such buffers.
LEMMA RunsAlong ==
    ASSUME NEW p, Len(p.ops) \in Nat, NEW h, RunsThrough(p, h)
    PROVE  RunsTo(p) = [ok |-> TRUE, bufs |-> h[Len(p.ops)]]
<1> DEFINE N == Len(p.ops)
           K(n, b) == Kernel(p.ops[n], b, p.binds)
           State(n) == [ok |-> TRUE, bufs |-> h[n]]
           Step(r, n) == IF n = 0 THEN State(0)
                         ELSE IF r[n - 1].ok /\ K(n, r[n - 1].bufs).err = "ok"
                              THEN [ok |-> TRUE,
                                    bufs |-> Insert(r[n - 1].bufs, p.ops[n].out_buf, K(n, r[n - 1].bufs).out)]
                              ELSE [ok |-> FALSE, bufs |-> r[n - 1].bufs]
           Eq(r) == r = [n \in 0..N |-> Step(r, n)]
           run == CHOOSE r : Eq(r)
           f == [n \in 0..N |-> State(n)]
<1>1. RunsTo(p) = run[N]
  BY DEF RunsTo, RunsThrough
<1>2. ASSUME NEW n \in 1..N, NEW r, r[n - 1] = State(n - 1)
      PROVE  Step(r, n) = State(n)
  <2>1. r[n - 1].ok /\ r[n - 1].bufs = h[n - 1]
    BY <1>2
  <2>2. K(n, h[n - 1]).err = "ok" /\ h[n] = Insert(h[n - 1], p.ops[n].out_buf, K(n, h[n - 1]).out)
    BY DEF RunsThrough
  <2>3. n # 0
    OBVIOUS
  <2> HIDE DEF K
  <2> QED BY <2>1, <2>2, <2>3
<1> HIDE DEF Step, State
<1>3. Eq(f)
  <2>1. ASSUME NEW n \in 0..N
        PROVE  State(n) = Step(f, n)
    <3>1. CASE n = 0
      BY <3>1 DEF Step
    <3>2. CASE n # 0
      <4>1. n \in 1..N /\ n - 1 \in 0..N
        BY <3>2
      <4>2. f[n - 1] = State(n - 1)
        BY <4>1
      <4> HIDE DEF f
      <4> QED BY <1>2, <4>1, <4>2
    <3> QED BY <3>1, <3>2
  <2> QED BY <2>1
<1>4. Eq(run)
  <2> HIDE DEF Eq, f
  <2> QED BY <1>3
<1> HIDE DEF run
<1> DEFINE S == { n \in Nat : n <= N => run[n] = State(n) }
<1>5. 0 \in S
  BY <1>4 DEF Step
<1>6. ASSUME NEW n \in Nat, n \in S
      PROVE  n + 1 \in S
  <2>1. SUFFICES ASSUME n + 1 <= N PROVE run[n + 1] = State(n + 1)
    BY <1>6
  <2>2. n + 1 \in 1..N /\ n + 1 \in 0..N /\ (n + 1) - 1 = n
    BY <2>1
  <2>3. run[n] = State(n)
    BY <1>6, <2>1
  <2>4. Step(run, n + 1) = State(n + 1)
    BY <1>2, <2>2, <2>3
  <2>5. run[n + 1] = Step(run, n + 1)
    BY <1>4, <2>2
  <2> QED BY <2>4, <2>5
<1>7. \A n \in Nat : n \in S
  <2> HIDE DEF S
  <2> QED BY <1>5, <1>6, SetInduction
<1> QED BY <1>1, <1>7 DEF State

(******************** the statement and the artifact ***********************)
\* The lists of a program that are hashed.
LEMMA ProgramLists ==
    ASSUME NEW p \in Programs
    PROVE  /\ IsList(p.ops) /\ WithIds(p.binds.weights) /\ WithIds(p.binds.tables)
           /\ \A i \in DOMAIN p.ops :
                 p.ops[i].kind \in Kinds /\ (IsLinear(p.ops[i]) => p.ops[i].bias \in Seq(Range(p.ops[i].bias)))
  BY ProgramsAssumption DEF ProgramOK, ProgramTyped, OpTyped, TensorOK, WithIds

\* Equal commitments over as many ops are over the same ops and inputs, and over
\* bindings that answer every lookup alike: a hash binds what is hashed, sorting
\* by id keeps what a lookup finds, and so does a last weight hashed twice.
LEMMA CommitmentsBind ==
    ASSUME NEW p \in Programs, NEW q \in Programs, NEW out,
           Public(p, out).model = Public(q, out).model, Public(p, out).quant = Public(q, out).quant,
           Public(p, out).inputs = Public(q, out).inputs,
           Len(p.ops) = Len(q.ops)
    PROVE  /\ p.ops = q.ops /\ p.inputs = q.inputs /\ p.scales = q.scales
           /\ Alike(p.binds.weights, q.binds.weights) /\ Alike(p.binds.tables, q.binds.tables)
<1>1. /\ IsList(p.ops) /\ WithIds(p.binds.weights) /\ WithIds(p.binds.tables)
      /\ IsList(q.ops) /\ WithIds(q.binds.weights) /\ WithIds(q.binds.tables)
  BY ProgramLists
<1>2. /\ BlockArchitectureCommitment(p.ops) = BlockArchitectureCommitment(q.ops)
      /\ WeightsRoot(p.binds.weights) = WeightsRoot(q.binds.weights)
  BY DEF Public, ModelCommitment, Commit32
<1>3. p.scales = q.scales /\ SortedById(p.binds.tables) = SortedById(q.binds.tables)
  BY DEF Public, QuantCommitment, TablesCommitment, Commit32
<1>4. p.inputs = q.inputs
  BY DEF Public, InputsCommitment, Commit32
<1>5. p.ops = q.ops
  BY <1>1, <1>2, LeavesInjective DEF BlockArchitectureCommitment, Tagged
<1>6. Alike(p.binds.weights, q.binds.weights)
  BY <1>1, <1>2, WeightsRootBinds
<1> QED BY <1>1, <1>3, <1>4, <1>5, <1>6, SortedAlike

\* An accepted artifact's own program runs through the verifier's buffers.
LEMMA OwnRun ==
    ASSUME PInv, outcome = "ok", ~fooled
    PROVE  \E h : RunsThrough(prog, h) /\ prog.output_buf \in DOMAIN h[Len(prog.ops)]
                  /\ output = h[Len(prog.ops)][prog.output_buf]
<1>1. /\ phase = "done" /\ verdict = "ok" /\ output = bufs[prog.output_buf]
      /\ pc > Len(prog.ops) /\ prog.output_buf \in DOMAIN bufs
  BY Accepted DEF PInv, IInv, Verdicts
<1>2. PICK h : Maps(h) /\ Aligned(h) /\ Evaluated(h)
  BY DEF PInv, IInv
<1>3. /\ Len(claims) = Len(prog.ops) /\ pc = Len(claims) + 1 /\ bufs = h[Len(claims)]
      /\ Len(claims) \in Nat
  BY <1>1, <1>2, WalkOver, Prog DEF PInv
<1>4. RunsThrough(prog, h)
  <2>1. ASSUME NEW n \in 1..Len(prog.ops)
        PROVE  /\ KernelAt(h, n).err = "ok"
               /\ h[n] = Insert(h[n - 1], prog.ops[n].out_buf, KernelAt(h, n).out)
    <3>1. n \in 1..Len(claims) /\ n \in 1..(pc - 1)
      BY <1>3
    <3>2. KernelAt(h, n).err = "ok" /\ claims[n] = KernelAt(h, n).out
      BY <1>2, <3>1 DEF Evaluated
    <3> QED BY <1>2, <3>1, <3>2 DEF Maps
  <2> QED BY <1>2, <2>1 DEF RunsThrough, Maps, KernelAt
<1> QED BY <1>1, <1>3, <1>4

LEMMA RunComputes ==
    ASSUME NEW p, Len(p.ops) \in Nat, NEW h, RunsThrough(p, h),
           p.output_buf \in DOMAIN h[Len(p.ops)]
    PROVE  Computes(p, h[Len(p.ops)][p.output_buf])
<1>1. RunsTo(p) = [ok |-> TRUE, bufs |-> h[Len(p.ops)]]
  BY RunsAlong
<1> QED BY <1>1 DEF Computes

\* The artifact's skeleton has as many ops as the stated program's and reads the
\* same buffer, which the commitments do not say.
SameShape == Len(stated.ops) = Len(prog.ops) /\ stated.output_buf = prog.output_buf

\* What a caller of verify_predictor learns with no further knowledge: the
\* program the artifact carries computes the claimed output on its inputs, by
\* the exact kernels, unless a wrong dense layer passed by luck.
THEOREM AcceptedArtifactRan == PSpec => []((outcome = "ok" /\ ~fooled) => Computes(prog, output))
<1>1. PInv => ((outcome = "ok" /\ ~fooled) => Computes(prog, output))
  <2> SUFFICES ASSUME PInv, outcome = "ok", ~fooled PROVE Computes(prog, output)
    OBVIOUS
  <2>1. PICK h : RunsThrough(prog, h) /\ prog.output_buf \in DOMAIN h[Len(prog.ops)]
                 /\ output = h[Len(prog.ops)][prog.output_buf]
    BY OwnRun
  <2>2. Len(prog.ops) \in Nat
    BY Prog DEF PInv
  <2> QED BY <2>1, <2>2, RunComputes
<1> QED BY <1>1, AlwaysPInv, PTL

\* And with it the committed model ran on the committed inputs, for every
\* skeleton of the committed shape: the commitments verify_predictor compares
\* bind the ops, the inputs, the scales and every lookup of a weight or a table.
THEOREM CommittedModelRanInShape == PSpec => [](SameShape => CommittedModelRan)
<1>1. PInv => (SameShape => CommittedModelRan)
  <2> SUFFICES ASSUME PInv, SameShape, outcome = "ok", ~fooled PROVE Computes(stated, output)
    BY DEF CommittedModelRan
  <2>1. PICK h : RunsThrough(prog, h) /\ prog.output_buf \in DOMAIN h[Len(prog.ops)]
                 /\ output = h[Len(prog.ops)][prog.output_buf]
    BY OwnRun
  <2>2. /\ stated \in Programs /\ prog \in Programs /\ Len(prog.ops) \in Nat /\ BindsOK(prog.binds)
        /\ Len(stated.ops) = Len(prog.ops) /\ stated.output_buf = prog.output_buf
    BY Prog DEF PInv, Statement, IInv, Base, SameShape
  <2>3. /\ Public(stated, output).model = Public(prog, output).model
        /\ Public(stated, output).quant = Public(prog, output).quant
        /\ Public(stated, output).inputs = Public(prog, output).inputs
    <3>1. /\ phase = "done" /\ pi.model = Public(prog, output).model
          /\ pi.quant = Public(prog, output).quant /\ pi.inputs = Public(prog, output).inputs
      BY Accepted, GoodGate DEF Recomputed
    <3>2. pi = IF alter = "none" THEN Public(stated, output)
               ELSE [Public(stated, output) EXCEPT ![alter] = Altered(alter)]
      BY <3>1 DEF PInv, Statement, Sent
    <3>3. alter \in UnreadFields \union {"none"}
      BY ReadIsKept
    <3>4. /\ pi.model = Public(stated, output).model /\ pi.quant = Public(stated, output).quant
          /\ pi.inputs = Public(stated, output).inputs
      BY <3>2, <3>3 DEF UnreadFields, Public
    <3> QED BY <3>1, <3>4
  <2>4. /\ stated.ops = prog.ops /\ stated.inputs = prog.inputs
        /\ Alike(stated.binds.weights, prog.binds.weights)
        /\ Alike(stated.binds.tables, prog.binds.tables)
    BY <2>2, <2>3, CommitmentsBind
  <2>5. RunsThrough(stated, h)
    <3>1. ASSUME NEW n \in 1..Len(prog.ops)
          PROVE  Kernel(stated.ops[n], h[n - 1], stated.binds) = Kernel(prog.ops[n], h[n - 1], prog.binds)
      <4>1. /\ prog.ops[n].kind \in Kinds
            /\ IsLinear(prog.ops[n]) => prog.ops[n].bias \in Seq(Range(prog.ops[n].bias))
        <5>1. n \in DOMAIN prog.ops
          BY <2>2, ProgramLists, ListFacts
        <5> QED BY <2>2, <5>1, ProgramLists
      <4>2. LinearAlike(prog.ops[n], stated.binds, prog.binds)
        BY <2>4 DEF Alike, LinearAlike
      <4> QED BY <2>4, <4>1, <4>2, AlikeKernel
    <3> QED BY <2>1, <2>2, <2>4, <3>1 DEF RunsThrough
  <2> QED BY <2>1, <2>2, <2>4, <2>5, RunComputes
<1> QED BY <1>1, AlwaysPInv, PTL
=============================================================================
