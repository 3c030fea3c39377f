------------------------------ MODULE BlockOps ------------------------------
(***************************************************************************)
(* One op of a named-buffer block (pwm-core block.rs), as the prover       *)
(* computes it (pwm-prover prove_block) and as the verifier audits it      *)
(* (pwm-verifier audit_block): operators only.                             *)
(*                                                                         *)
(* An op is a record: kind, args (the buffers it reads, in the order the   *)
(* code reads them), out_buf, and the parameters of its kind.  Its claimed *)
(* output is kept apart from it, as the skeleton is in the code.           *)
(* Bindings are a record of the weight and the table lists.                *)
(***************************************************************************)
EXTENDS Kernels, SequencesExt

(******************************* lookups ***********************************)
\* iter().find: the first entry with the id.
Has(list, id) == \E i \in DOMAIN list : list[i].id = id
Find(list, id) == list[Min({ i \in DOMAIN list : list[i].id = id })]

\* A buffer map is a function from the ids written so far; insert overwrites.
Insert(bufs, id, v) == [b \in DOMAIN bufs \union {id} |-> IF b = id THEN v ELSE bufs[b]]

\* The map seeded from the input list: the last entry of an id wins.
Seed(inputs) ==
    [b \in { inputs[i].id : i \in DOMAIN inputs } |->
        inputs[Max({ i \in DOMAIN inputs : inputs[i].id = b })].vals]

(******************************* the kernels *******************************)
Out(v) == [err |-> "ok", out |-> v]
Err(e) == [err |-> e, out |-> <<>>]

Kinds == {"Linear", "BatchedLinear", "Requant", "Activation", "LayerNorm", "Modulate", "Gate",
          "Add", "MatMul", "Softmax", "Slice", "Concat"}

\* The operands of a kind other than Concat, which takes any number.
Arity(op) ==
    CASE op.kind = "Modulate"                  -> 3
      [] op.kind \in {"Gate", "Add", "MatMul"} -> 2
      [] OTHER                                 -> 1

IsLinear(op) == op.kind \in {"Linear", "BatchedLinear"}
SeqLen(op) == IF op.kind = "Linear" THEN 1 ELSE op.seq

\* The Rust types: a Vec is a list, and an op has the operands and lengths of its kind.
IsList(s) == s \in Seq(Range(s))

OpTyped(op) ==
    /\ op.kind \in Kinds /\ {"kind", "args"} \subseteq DOMAIN op
    /\ IsList(op.args) /\ (op.kind # "Concat" => Len(op.args) = Arity(op))
    /\ IsLinear(op) => op.bias \in Seq(Range(op.bias)) /\ Len(op.bias) <= 1
    /\ op.kind = "BatchedLinear" => op.seq \in Nat
    /\ op.kind = "MatMul" => op.rows \in Nat /\ op.cols \in Nat
    /\ op.kind = "Slice" => op.start \in Nat /\ op.len \in Nat

\* What Tensor and the exporter guarantee: the cells of a matrix match its shape
\* and are symmetric int8.
TensorOK(w) ==
    /\ w.id \in Nat /\ w.shape \in Seq(Nat) /\ w.cells \in Seq(Int)
    /\ Len(w.shape) = 2 =>
          Len(w.cells) = Rows(w) * Cols(w) /\ \A j \in DOMAIN w.cells : w.cells[j] \in -WMax..WMax

\* bias_id: Option<u32> is a sequence of at most one id.
BiasMissing(op, B) == op.bias # <<>> /\ ~Has(B.weights, op.bias[1])

Bias(op, B) ==
    IF op.bias = <<>> THEN [i \in 1..Rows(Find(B.weights, op.weight)) |-> 0]
    ELSE Find(B.weights, op.bias[1]).cells

LinearKernel(op, x, B) ==
    IF ~Has(B.weights, op.weight) THEN Err("MissingWeight")
    ELSE LET w == Find(B.weights, op.weight) IN
         IF Len(w.shape) # 2 THEN Err("WeightShape")
         ELSE IF Len(x) # SeqLen(op) * Cols(w) THEN Err("Shape")
         ELSE IF BiasMissing(op, B) THEN Err("MissingBias")
         ELSE Out(LinearRows(w, x, Bias(op, B), SeqLen(op)))

RequantKernel(op, x) ==
    IF op.rounding \notin Modes THEN Err("InvalidRounding")
    ELSE Out([i \in DOMAIN x |->
                Requantize(x[i], op.shift, op.zero_point, op.lo, op.hi, op.rounding)])

ActivationKernel(op, x, B) ==
    IF ~Has(B.tables, op.table) THEN Err("MissingTable")
    ELSE LET t == Find(B.tables, op.table) IN
         IF \E i \in DOMAIN x : ~InDomain(t, x[i]) THEN Err("TableDomain")
         ELSE Out([i \in DOMAIN x |-> Lookup(t, x[i])])

LayerNormKernel(op, x, B) ==
    IF ~Has(B.tables, op.table) THEN Err("MissingTable")
    ELSE IF op.rounding \notin Modes THEN Err("InvalidRounding")
    ELSE LET t == Find(B.tables, op.table) IN
         IF ~LayerNormDefined(x, t) THEN Err("TableDomain")
         ELSE Out(LayerNorm(op, x, t))

ModulateKernel(op, x, scale, shift) ==
    IF op.rounding \notin Modes THEN Err("InvalidRounding")
    ELSE IF Len(scale) # Len(x) \/ Len(shift) # Len(x) THEN Err("Shape")
    ELSE Out(ModulateVec(op, x, scale, shift))

GateKernel(op, g, x) ==
    IF op.rounding \notin Modes THEN Err("InvalidRounding")
    ELSE IF Len(g) # Len(x) THEN Err("Shape")
    ELSE Out(GateVec(op, g, x))

AddKernel(a, b) == IF Len(a) # Len(b) THEN Err("Shape") ELSE Out(ResidualAdd(a, b))

MatMulKernel(op, a, b) ==
    IF ~MatMulDefined(a, b, op) THEN Err("Shape") ELSE Out(MatMul(a, b, op))

SoftmaxKernel(op, x, B) ==
    IF ~Has(B.tables, op.table) THEN Err("MissingTable")
    ELSE LET t == Find(B.tables, op.table) IN
         IF ~SoftmaxRowsDefined(x, op.row_len, t) THEN Err("TableDomain")
         ELSE Out(SoftmaxRows(x, op.row_len, t, op.one))

SliceKernel(op, x) ==
    IF op.start + op.len > Len(x) THEN Err("Shape")
    ELSE Out(SubSeq(x, op.start + 1, op.start + op.len))

\* One arm of prove_block: read the operands, then run the kernel.
Kernel(op, bufs, B) ==
    IF \E i \in DOMAIN op.args : op.args[i] \notin DOMAIN bufs THEN Err("MissingBuffer")
    ELSE LET arg == [i \in DOMAIN op.args |-> bufs[op.args[i]]] IN
         CASE IsLinear(op)           -> LinearKernel(op, arg[1], B)
           [] op.kind = "Requant"    -> RequantKernel(op, arg[1])
           [] op.kind = "Activation" -> ActivationKernel(op, arg[1], B)
           [] op.kind = "LayerNorm"  -> LayerNormKernel(op, arg[1], B)
           [] op.kind = "Modulate"   -> ModulateKernel(op, arg[1], arg[2], arg[3])
           [] op.kind = "Gate"       -> GateKernel(op, arg[1], arg[2])
           [] op.kind = "Add"        -> AddKernel(arg[1], arg[2])
           [] op.kind = "MatMul"     -> MatMulKernel(op, arg[1], arg[2])
           [] op.kind = "Softmax"    -> SoftmaxKernel(op, arg[1], B)
           [] op.kind = "Slice"      -> SliceKernel(op, arg[1])
           [] op.kind = "Concat"     -> Out(FlattenSeq(arg))

(******************************** the audit ********************************)
Shifts(op) == op.kind \in {"Requant", "LayerNorm", "Modulate", "Gate"}
ShiftRejected(op) == Shifts(op) /\ ~ValidShift(op.shift)

\* What the verifier reports where the kernel reports e.
Code(e) ==
    CASE e = "MissingBuffer"                                            -> "MissingBuffer"
      [] e \in {"MissingWeight", "MissingBias", "MissingTable", "WeightShape"} -> "MissingBinding"
      [] e \in {"Shape", "InvalidRounding"}                             -> "BlockOpMismatch"
      [] e = "TableDomain"                                              -> "ActivationDomain"

\* Linear and BatchedLinear: lookups and lengths, the range guard over the
\* whole buffer, and the Freivalds equation row by row under one challenge.
WeightOf(op, B) == Find(B.weights, op.weight)

WrongLength(op, claim, B) ==
    /\ Has(B.weights, op.weight) /\ Len(WeightOf(op, B).shape) = 2
    /\ Len(claim) # SeqLen(op) * Rows(WeightOf(op, B))

\* Mutant: every row of a batched layer is checked on the first input row.
EquationFirstRow(op, claim, x, B, r) ==
    LET w == WeightOf(op, B)
        v == PrecomputeV(r, w)
    IN  \A t \in 1..SeqLen(op) :
            CheckLinearBiased(v, RowOf(x, 1, Cols(w)), Bias(op, B), r, RowOf(claim, t, Rows(w)))

EquationHolds(op, claim, x, B, r) ==
    LET w == WeightOf(op, B)
        v == PrecomputeV(r, w)
    IN  \A t \in 1..SeqLen(op) :
            CheckLinearBiased(v, RowOf(x, t, Cols(w)), Bias(op, B), r, RowOf(claim, t, Rows(w)))

AuditLinear(op, claim, bufs, B, r) ==
    LET k == Kernel(op, bufs, B)
    IN  IF k.err \in {"ok", "MissingBias"} /\ WrongLength(op, claim, B) THEN "BlockOpMismatch"
        ELSE IF k.err # "ok" THEN Code(k.err)
        ELSE IF ~RangeGuard(Cols(WeightOf(op, B)), bufs[op.args[1]], Bias(op, B), claim)
             THEN "AccumulatorRange"
        ELSE IF ~EquationHolds(op, claim, bufs[op.args[1]], B, r) THEN "FreivaldsCheckFailed"
        ELSE "ok"

\* Activation compares element by element, so a wrong element before the first
\* input outside the table is reported as a mismatch, and so is a wrong length.
ActivationMismatch(op, claim, bufs, B) ==
    LET x == bufs[op.args[1]]
        t == Find(B.tables, op.table)
        first == Min({ i \in DOMAIN x : ~InDomain(t, x[i]) })
    IN  Len(claim) # Len(x) \/ \E i \in 1..(first - 1) : claim[i] # Lookup(t, x[i])

\* Mutant: a claim is compared as far as it goes, as zip does.
AuditPrefix(op, claim, bufs, B) ==
    LET k == Kernel(op, bufs, B)
    IN  IF ShiftRejected(op) THEN "InvalidShift"
        ELSE IF k.err # "ok" THEN Code(k.err)
        ELSE IF \A i \in 1..ZipLen(claim, k.out) : claim[i] = k.out[i] THEN "ok"
        ELSE "BlockOpMismatch"

\* Every other kind is recomputed; the shift is checked before a table is read.
AuditExact(op, claim, bufs, B) ==
    LET k == Kernel(op, bufs, B)
    IN  IF k.err \in {"ok", "TableDomain"} /\ ShiftRejected(op) THEN "InvalidShift"
        ELSE IF k.err = "ok" THEN (IF claim = k.out THEN "ok" ELSE "BlockOpMismatch")
        ELSE IF k.err = "TableDomain" /\ op.kind = "Activation" /\ ActivationMismatch(op, claim, bufs, B)
             THEN "BlockOpMismatch"
        ELSE Code(k.err)

\* One iteration of audit_block: "ok", or the error it returns.
AuditOp(op, claim, bufs, B, r) ==
    IF IsLinear(op) THEN AuditLinear(op, claim, bufs, B, r) ELSE AuditExact(op, claim, bufs, B)
=============================================================================
