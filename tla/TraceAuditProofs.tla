-------------------------- MODULE TraceAuditProofs --------------------------
(***************************************************************************)
(* The trace of a feed-forward model, under every source of challenges.    *)
(* An accepted trace is what its model computes from the public history,   *)
(* unless a wrong dense record was lucky or was left out of the sample;    *)
(* the committed model is that model, the honest trace is refused only for *)
(* what its prover does not check, and the coverage reported is exact.     *)
(***************************************************************************)
EXTENDS TraceAudit, KernelProofs

(******************************** the model ********************************)
Own(layer) == << layer.weight >> \o layer.bias

LEMMA PairList ==
    ASSUME NEW a, NEW b
    PROVE  IsList(<<a, b>>) /\ Range(<<a, b>>) = {a, b}
<1>1. <<a, b>> \in Seq({a, b})
  OBVIOUS
<1>2. IsList(<<a, b>>)
  BY <1>1, ListOf
<1> DEFINE s == <<a, b>>
<1>3. DOMAIN s = {1, 2} /\ s[1] = a /\ s[2] = b
  OBVIOUS
<1> HIDE DEF s
<1>4. Range(s) = {a, b}
  BY <1>3 DEF Range
<1> QED BY <1>2, <1>4 DEF s

LEMMA OwnList ==
    ASSUME NEW layer, LayerOK(layer)
    PROVE  /\ IsList(Own(layer)) /\ Range(Own(layer)) = {layer.weight} \union Range(layer.bias)
           /\ 1 \in DOMAIN Own(layer) /\ Own(layer)[1] = layer.weight
<1> DEFINE w == << layer.weight >>
<1>1. IsList(layer.bias)
  BY DEF LayerOK, OptionOf
<1>2. IsList(w) /\ Range(w) = {layer.weight} /\ Len(w) = 1 /\ w[1] = layer.weight
  <2>1. w \in Seq({layer.weight}) /\ DOMAIN w = {1} /\ Len(w) = 1 /\ w[1] = layer.weight
    OBVIOUS
  <2>2. IsList(w)
    BY <2>1, ListOf
  <2> HIDE DEF w
  <2>3. Range(w) = {layer.weight}
    BY <2>1 DEF Range
  <2> QED BY <2>1, <2>2, <2>3
<1> HIDE DEF w
<1>3. IsList(w \o layer.bias) /\ Range(w \o layer.bias) = {layer.weight} \union Range(layer.bias)
  BY <1>1, <1>2, ConcatList
<1>4. 1 \in DOMAIN (w \o layer.bias) /\ (w \o layer.bias)[1] = layer.weight
  <2> DEFINE S == Range(w) \union Range(layer.bias)
  <2>1. w \in Seq(S) /\ layer.bias \in Seq(S)
    <3>1. (\A i \in DOMAIN w : w[i] \in S) /\ (\A i \in DOMAIN layer.bias : layer.bias[i] \in S)
      BY DEF Range
    <3> HIDE DEF S
    <3> QED BY <1>1, <1>2, <3>1, ListIn
  <2> HIDE DEF S
  <2>2. PICK n : n = Len(layer.bias)
    OBVIOUS
  <2>3. n \in Nat
    BY <1>1, <2>2, ListFacts
  <2>4. 1 \in 1..(1 + n) /\ 1 <= 1
    BY <2>3
  <2>5. Len(w \o layer.bias) = 1 + n /\ (w \o layer.bias)[1] = w[1]
    <3>1. /\ Len(w \o layer.bias) = Len(w) + Len(layer.bias)
          /\ \A i \in 1..(Len(w) + Len(layer.bias)) :
                (w \o layer.bias)[i] = IF i <= Len(w) THEN w[i] ELSE layer.bias[i - Len(w)]
      BY <2>1, ConcatProperties
    <3> QED BY <1>2, <2>2, <2>4, <3>1
  <2> QED BY <1>2, <1>3, <2>4, <2>5, ListFacts
<1> QED BY <1>3, <1>4 DEF Own, w

\* The dense op of a layer, by the Rust types.
LEMMA DenseTyped ==
    ASSUME NEW layer, LayerOK(layer)
    PROVE  /\ OpTyped(DenseOp(layer)) /\ DenseOp(layer).kind = "Linear" /\ DenseOp(layer).args = << 0 >>
           /\ DenseOp(layer).weight = layer.weight.id
           /\ DenseOp(layer).bias \in Seq(Range(DenseOp(layer).bias)) /\ Len(DenseOp(layer).bias) <= 1
           /\ DenseOp(layer).bias # <<>> =>
                 1 \in DOMAIN layer.bias /\ DenseOp(layer).bias[1] = layer.bias[1].id
<1> DEFINE op == DenseOp(layer)
           ids == [i \in DOMAIN layer.bias |-> layer.bias[i].id]
<1>1. /\ op.kind = "Linear" /\ op.args = << 0 >> /\ op.weight = layer.weight.id /\ op.bias = ids
      /\ {"kind", "args"} \subseteq DOMAIN op
  BY DEF DenseOp
<1>2. IsList(layer.bias) /\ Len(layer.bias) <= 1
  BY DEF LayerOK, OptionOf
<1>3. PICK n : n = Len(layer.bias)
  OBVIOUS
<1>4. n \in Nat /\ n <= 1 /\ DOMAIN layer.bias = 1..n
  BY <1>2, <1>3, ListFacts
<1>5. IsList(ids) /\ Len(ids) = n
  <2>1. ids = [i \in 1..n |-> ids[i]]
    BY <1>4
  <2> HIDE DEF ids
  <2> QED BY <1>4, <2>1, MakeList
<1>6. IsList(<< 0 >>) /\ Len(<< 0 >>) = 1
  BY << 0 >> \in Seq(Nat), ListOf
<1>7. ids # <<>> => 1 \in DOMAIN layer.bias /\ ids[1] = layer.bias[1].id
  <2>1. CASE n = 0
    <3>1. ids = <<>>
      <4>1. IsList(<<>>) /\ Len(<<>>) = 0
        BY <<>> \in Seq(Nat), ListOf
      <4> HIDE DEF ids
      <4> QED BY <1>5, <2>1, <4>1, SameList
    <3> QED BY <3>1
  <2>2. CASE n = 1
    BY <1>4, <2>2
  <2> QED BY <1>4, <2>1, <2>2
<1> HIDE DEF op, ids
<1>8. ids \in Seq(Range(ids)) /\ Len(ids) <= 1
  BY <1>4, <1>5 DEF IsList
<1>9. OpTyped(op)
  <2>1. op.kind \in Kinds /\ Arity(op) = 1
    BY <1>1 DEF Kinds, Arity
  <2> QED BY <1>1, <1>6, <1>8, <2>1 DEF OpTyped
<1> QED BY <1>1, <1>7, <1>8, <1>9 DEF op

LayerOps(layer) == Range(layer.ln) \union {DenseOp(layer), layer.requant} \union Range(layer.act)

LEMMA LayerTasksAre ==
    ASSUME NEW layer, LayerOK(layer)
    PROVE  /\ IsList(LayerTasks(layer))
           /\ Range(LayerTasks(layer)) = { [op |-> op, own |-> Own(layer)] : op \in LayerOps(layer) }
<1> DEFINE mid == << DenseOp(layer), layer.requant >>
           ops == layer.ln \o mid \o layer.act
           f == [i \in DOMAIN ops |-> [op |-> ops[i], own |-> Own(layer)]]
<1>1. IsList(layer.ln) /\ IsList(layer.act)
  BY DEF LayerOK, OptionOf
<1>2. IsList(mid) /\ Range(mid) = {DenseOp(layer), layer.requant}
  BY PairList
<1> HIDE DEF mid
<1>3. IsList(layer.ln \o mid) /\ Range(layer.ln \o mid) = Range(layer.ln) \union Range(mid)
  BY <1>1, <1>2, ConcatList
<1>4. IsList(ops) /\ Range(ops) = LayerOps(layer)
  <2>1. IsList(ops) /\ Range(ops) = Range(layer.ln \o mid) \union Range(layer.act)
    BY <1>1, <1>3, ConcatList
  <2> QED BY <1>2, <1>3, <2>1 DEF LayerOps
<1>5. LayerTasks(layer) = f
  BY DEF LayerTasks, Own, mid
<1> HIDE DEF ops
<1>6. IsList(f)
  BY <1>4, MapList
<1>7. Range(f) = { [op |-> op, own |-> Own(layer)] : op \in Range(ops) }
  BY DEF Range
<1> QED BY <1>4, <1>5, <1>6, <1>7

\* The tasks and the tensors of a model are those of its layers.
LEMMA TasksAre ==
    ASSUME NEW m \in Models
    PROVE  /\ IsList(Tasks(m)) /\ IsList(WeightTensors(m))
           /\ \A layer \in Range(m.layers) : LayerOK(layer)
           /\ \A i \in DOMAIN Tasks(m) : \E layer \in Range(m.layers) :
                 Tasks(m)[i].own = Own(layer) /\ Tasks(m)[i].op \in LayerOps(layer)
           /\ \A layer \in Range(m.layers) : \E i \in DOMAIN Tasks(m) :
                 Tasks(m)[i].own = Own(layer) /\ Tasks(m)[i].op = DenseOp(layer)
           /\ Range(WeightTensors(m)) = UNION { Range(Own(layer)) : layer \in Range(m.layers) }
<1>1. IsList(m.layers) /\ \A layer \in Range(m.layers) : LayerOK(layer)
  BY ModelsAssumption DEF ModelOK
<1> DEFINE tasks == [i \in DOMAIN m.layers |-> LayerTasks(m.layers[i])]
           owns == [i \in DOMAIN m.layers |-> Own(m.layers[i])]
<1>2. IsList(tasks) /\ IsList(owns)
  BY <1>1, MapList
<1>3. DOMAIN tasks = DOMAIN m.layers /\ \A i \in DOMAIN m.layers : tasks[i] = LayerTasks(m.layers[i])
  OBVIOUS
<1>4. DOMAIN owns = DOMAIN m.layers /\ \A i \in DOMAIN m.layers : owns[i] = Own(m.layers[i])
  OBVIOUS
<1>5. Tasks(m) = FlattenSeq(tasks) /\ WeightTensors(m) = FlattenSeq(owns)
  BY DEF Tasks, WeightTensors, Own
<1> HIDE DEF tasks, owns
<1>6. \A i \in DOMAIN m.layers : m.layers[i] \in Range(m.layers)
  BY DEF Range
<1>7. /\ IsList(Tasks(m)) /\ Range(Tasks(m)) = UNION { Range(tasks[i]) : i \in DOMAIN m.layers }
  <2>1. \A i \in DOMAIN tasks : IsList(tasks[i])
    BY <1>1, <1>3, <1>6, LayerTasksAre
  <2> QED BY <1>2, <1>3, <1>5, <2>1, FlattenList
<1>8. /\ IsList(WeightTensors(m))
      /\ Range(WeightTensors(m)) = UNION { Range(owns[i]) : i \in DOMAIN m.layers }
  <2>1. \A i \in DOMAIN owns : IsList(owns[i])
    BY <1>1, <1>4, <1>6, OwnList
  <2> QED BY <1>2, <1>4, <1>5, <2>1, FlattenList
<1>9. ASSUME NEW k \in DOMAIN Tasks(m)
      PROVE  \E layer \in Range(m.layers) :
                 Tasks(m)[k].own = Own(layer) /\ Tasks(m)[k].op \in LayerOps(layer)
  <2>1. Tasks(m)[k] \in Range(Tasks(m))
    BY DEF Range
  <2>2. PICK i \in DOMAIN m.layers : Tasks(m)[k] \in Range(tasks[i])
    BY <1>7, <2>1
  <2>3. PICK op \in LayerOps(m.layers[i]) : Tasks(m)[k] = [op |-> op, own |-> Own(m.layers[i])]
    BY <1>1, <1>3, <1>6, <2>2, LayerTasksAre
  <2> QED BY <1>6, <2>3
<1>10. ASSUME NEW layer \in Range(m.layers)
       PROVE  \E i \in DOMAIN Tasks(m) : Tasks(m)[i].own = Own(layer) /\ Tasks(m)[i].op = DenseOp(layer)
  <2> DEFINE task == [op |-> DenseOp(layer), own |-> Own(layer)]
  <2>1. PICK i \in DOMAIN m.layers : m.layers[i] = layer
    BY DEF Range
  <2>2. task \in Range(tasks[i])
    <3>1. DenseOp(layer) \in LayerOps(layer)
      BY DEF LayerOps
    <3> QED BY <1>1, <1>3, <2>1, <3>1, LayerTasksAre
  <2>3. task.own = Own(layer) /\ task.op = DenseOp(layer)
    OBVIOUS
  <2> HIDE DEF task
  <2>4. PICK k \in DOMAIN Tasks(m) : Tasks(m)[k] = task
    <3>1. task \in Range(Tasks(m))
      BY <1>7, <2>1, <2>2
    <3> QED BY <3>1 DEF Range
  <2> QED BY <2>3, <2>4
<1>11. Range(WeightTensors(m)) = UNION { Range(Own(layer)) : layer \in Range(m.layers) }
  <2>1. Range(m.layers) = { m.layers[i] : i \in DOMAIN m.layers }
    BY DEF Range
  <2> QED BY <1>4, <1>8, <2>1
<1> QED BY <1>1, <1>7, <1>8, <1>9, <1>10, <1>11


\* A tensor that a layer owns can be looked up, and is found where ids are unique.
LEMMA OwnFound ==
    ASSUME NEW m \in Models, NEW layer \in Range(m.layers), NEW w \in Range(Own(layer))
    PROVE  /\ Has(WeightTensors(m), w.id)
           /\ OwnIds(m) => Find(WeightTensors(m), w.id) = w
<1>1. Has(WeightTensors(m), w.id)
  <2>1. w \in Range(WeightTensors(m))
    BY TasksAre
  <2> QED BY <2>1 DEF Has, Range
<1>2. ASSUME OwnIds(m)
      PROVE  Find(WeightTensors(m), w.id) = w
  <2>1. PICK i \in DOMAIN Tasks(m) : Tasks(m)[i].own = Own(layer)
    BY TasksAre
  <2>2. PICK t \in DOMAIN Own(layer) : Own(layer)[t] = w
    BY DEF Range
  <2> QED BY <1>2, <2>1, <2>2 DEF OwnIds
<1> QED BY <1>1, <1>2

GraphKinds == {"Linear", "Requant", "Activation", "LayerNorm"}

\* An op of the graph, and the layer that a dense one stands for.
LEMMA GraphOp ==
    ASSUME NEW m \in Models, NEW i \in DOMAIN Tasks(m)
    PROVE  /\ OpTyped(Tasks(m)[i].op) /\ Tasks(m)[i].op.kind \in GraphKinds
           /\ Tasks(m)[i].op.args = << 0 >>
           /\ \E layer \in Range(m.layers) :
                 /\ LayerOK(layer) /\ Tasks(m)[i].own = Own(layer)
                 /\ IsLinear(Tasks(m)[i].op) => Tasks(m)[i].op = DenseOp(layer)
<1>1. PICK layer \in Range(m.layers) :
          Tasks(m)[i].own = Own(layer) /\ Tasks(m)[i].op \in LayerOps(layer)
  BY TasksAre
<1>2. LayerOK(layer)
  BY TasksAre
<1> DEFINE op == Tasks(m)[i].op
<1>3. op = DenseOp(layer) \/ \E kind \in {"Requant", "Activation", "LayerNorm"} : ExactOK(op, kind)
  BY <1>1, <1>2 DEF LayerOps, LayerOK
<1> HIDE DEF op
<1>4. CASE op = DenseOp(layer)
  <2>1. OpTyped(op) /\ op.kind = "Linear" /\ op.args = << 0 >>
    BY <1>2, <1>4, DenseTyped
  <2> QED BY <1>1, <1>2, <1>4, <2>1 DEF op, GraphKinds
<1>5. CASE \E kind \in {"Requant", "Activation", "LayerNorm"} : ExactOK(op, kind)
  <2>1. OpTyped(op) /\ op.kind \in {"Requant", "Activation", "LayerNorm"} /\ op.args = << 0 >>
    BY <1>5 DEF ExactOK
  <2>2. ~IsLinear(op) /\ op.kind \in GraphKinds
    BY <2>1 DEF IsLinear, GraphKinds
  <2> QED BY <1>1, <1>2, <2>1, <2>2 DEF op
<1> QED BY <1>3, <1>4, <1>5

LEMMA GraphIs ==
    ASSUME NEW m \in Models
    PROVE  /\ IsList(Graph(m)) /\ Len(Graph(m)) = Len(Tasks(m)) /\ Len(Graph(m)) \in Nat
           /\ DOMAIN Graph(m) = DOMAIN Tasks(m) /\ DOMAIN Graph(m) = 1..Len(Graph(m))
           /\ \A i \in DOMAIN Graph(m) : Graph(m)[i] = Tasks(m)[i].op
<1> DEFINE tasks == Tasks(m)
           g == [i \in DOMAIN tasks |-> tasks[i].op]
<1>1. IsList(tasks)
  BY TasksAre
<1>2. Graph(m) = g
  BY DEF Graph
<1>3. DOMAIN g = DOMAIN tasks /\ \A i \in DOMAIN tasks : g[i] = tasks[i].op
  OBVIOUS
<1>4. IsList(g)
  <2> HIDE DEF tasks
  <2> QED BY <1>1, MapList
<1> HIDE DEF g, tasks
<1>5. Len(g) \in Nat /\ DOMAIN g = 1..Len(g) /\ Len(tasks) \in Nat /\ DOMAIN tasks = 1..Len(tasks)
  BY <1>1, <1>4, ListFacts
<1>6. Len(g) = Len(tasks)
  <2>1. PICK n, k : n = Len(g) /\ k = Len(tasks)
    OBVIOUS
  <2>2. n \in Nat /\ k \in Nat /\ 1..n = 1..k
    BY <1>3, <1>5, <2>1
  <2>3. n = k
    <3>1. CASE n < k
      <4>1. k \in 1..k /\ ~(k \in 1..n)
        BY <2>2, <3>1
      <4> QED BY <2>2, <4>1
    <3>2. CASE k < n
      <4>1. n \in 1..n /\ ~(n \in 1..k)
        BY <2>2, <3>2
      <4> QED BY <2>2, <4>1
    <3> QED BY <2>2, <3>1, <3>2
  <2> QED BY <2>1, <2>3
<1> QED BY <1>2, <1>3, <1>4, <1>5, <1>6 DEF tasks

LEMMA BindsTyped ==
    ASSUME NEW m \in Models
    PROVE  /\ BindsOK(Binds(m)) /\ WithIds(WeightTensors(m)) /\ WithIds(m.tables)
           /\ Binds(m).weights = WeightTensors(m) /\ Binds(m).tables = m.tables
<1>1. Binds(m).weights = WeightTensors(m) /\ Binds(m).tables = m.tables
  BY DEF Binds
<1>2. IsList(WeightTensors(m))
  BY TasksAre
<1>3. ASSUME NEW i \in DOMAIN WeightTensors(m)
      PROVE  TensorOK(WeightTensors(m)[i])
  <2>1. WeightTensors(m)[i] \in Range(WeightTensors(m))
    BY DEF Range
  <2>2. PICK layer \in Range(m.layers) : WeightTensors(m)[i] \in Range(Own(layer))
    BY <2>1, TasksAre
  <2>3. LayerOK(layer)
    BY TasksAre
  <2>4. Range(Own(layer)) = {layer.weight} \union Range(layer.bias)
    BY <2>3, OwnList
  <2> QED BY <2>2, <2>3, <2>4 DEF LayerOK
<1>4. \A i \in DOMAIN WeightTensors(m) : WeightTensors(m)[i].id \in Nat
  BY <1>3 DEF TensorOK
<1>5. IsList(m.tables) /\ \A i \in DOMAIN m.tables : m.tables[i].id \in Nat
  <2>1. \A i \in DOMAIN m.tables : m.tables[i] \in Range(m.tables)
    BY DEF Range
  <2> QED BY <2>1, ModelsAssumption DEF ModelOK
<1> QED BY <1>1, <1>2, <1>3, <1>4, <1>5 DEF BindsOK, WithIds

\* A layer's dense op finds the layer's own tensors, where ids are unique.
LEMMA DenseFound ==
    ASSUME NEW m \in Models, NEW layer \in Range(m.layers)
    PROVE  LET op == DenseOp(layer) IN
           /\ Has(WeightTensors(m), op.weight) /\ ~BiasMissing(op, Binds(m))
           /\ OwnIds(m) => /\ WeightOf(op, Binds(m)) = layer.weight
                           /\ OpOK(op, Binds(m))
<1> DEFINE op == DenseOp(layer)
<1>1. LayerOK(layer)
  BY TasksAre
<1>2. /\ OpTyped(op) /\ op.weight = layer.weight.id /\ op.kind = "Linear"
      /\ op.bias # <<>> => 1 \in DOMAIN layer.bias /\ op.bias[1] = layer.bias[1].id
  BY <1>1, DenseTyped
<1>3. Range(Own(layer)) = {layer.weight} \union Range(layer.bias)
  BY <1>1, OwnList
<1>4. Binds(m).weights = WeightTensors(m)
  BY DEF Binds
<1> HIDE DEF op
<1>5. op.bias # <<>> => layer.bias[1] \in Range(layer.bias)
  BY <1>2 DEF Range
<1>6. Has(WeightTensors(m), op.weight)
  BY <1>2, <1>3, OwnFound
<1>7. ~BiasMissing(op, Binds(m))
  <2>1. op.bias # <<>> => Has(WeightTensors(m), op.bias[1])
    BY <1>2, <1>3, <1>5, OwnFound
  <2> QED BY <1>4, <2>1 DEF BiasMissing
<1>8. ASSUME OwnIds(m)
      PROVE  WeightOf(op, Binds(m)) = layer.weight /\ OpOK(op, Binds(m))
  <2>1. WeightOf(op, Binds(m)) = layer.weight
    BY <1>2, <1>3, <1>4, <1>8, OwnFound DEF WeightOf
  <2>2. OpLists(op) /\ {"kind", "args"} \subseteq DOMAIN op
    BY <1>2 DEF OpTyped, OpLists
  <2>3. IsLinear(op) => op.bias \in Seq(Range(op.bias)) /\ Len(op.bias) <= 1
    BY <1>2 DEF OpTyped
  <2>4. ASSUME Len(layer.weight.shape) = 2
        PROVE  Len(Bias(op, Binds(m))) >= Rows(layer.weight)
    <3>1. CASE op.bias = <<>>
      <4>1. PICK n : n = Rows(layer.weight)
        OBVIOUS
      <4>2. n \in Nat
        BY <1>1, <2>4, <4>1 DEF LayerOK, TensorOK, Rows
      <4> DEFINE zero == [i \in 1..n |-> 0]
      <4>3. Bias(op, Binds(m)) = zero
        BY <2>1, <3>1, <4>1 DEF Bias, WeightOf
      <4>4. Len(zero) = n
        BY <4>2
      <4> HIDE DEF zero
      <4> QED BY <4>1, <4>2, <4>3, <4>4
    <3>2. CASE op.bias # <<>>
      <4>1. Find(WeightTensors(m), op.bias[1]) = layer.bias[1]
        BY <1>2, <1>3, <1>5, <1>8, <3>2, OwnFound
      <4>2. Bias(op, Binds(m)) = layer.bias[1].cells
        BY <1>4, <3>2, <4>1 DEF Bias
      <4> QED BY <1>1, <1>5, <2>4, <3>2, <4>2 DEF LayerOK
    <3> QED BY <3>1, <3>2
  <2> QED BY <2>1, <2>2, <2>3, <2>4 DEF OpOK
<1> QED BY <1>6, <1>7, <1>8 DEF op

\* Applied to one buffer, a graph op reads that buffer.
LEMMA ApplyIs ==
    ASSUME NEW op, op.args = << 0 >>, NEW x, NEW B
    PROVE  IsLinear(op) => Apply(op, x, B) = LinearKernel(op, x, B)
<1> DEFINE bufs == [b \in {0} |-> x]
<1>1. DOMAIN op.args = {1} /\ op.args[1] = 0
  OBVIOUS
<1>2. DOMAIN bufs = {0} /\ bufs[0] = x
  OBVIOUS
<1> HIDE DEF bufs
<1> DEFINE arg == [i \in DOMAIN op.args |-> bufs[op.args[i]]]
<1>3. arg[1] = x
  BY <1>1, <1>2
<1>4. ~(\E i \in DOMAIN op.args : op.args[i] \notin DOMAIN bufs)
  BY <1>1, <1>2
<1>5. IsLinear(op) => Kernel(op, bufs, B) = LinearKernel(op, arg[1], B)
  <2> HIDE DEF arg
  <2>1. IsLinear(op) => op.kind \in {"Linear", "BatchedLinear"}
    BY DEF IsLinear
  <2> QED BY <1>4, <2>1 DEF Kernel, arg
<1> QED BY <1>3, <1>5 DEF Apply, bufs

\* Model::run uses a layer's own tensors, and the lookup finds them.
LEMMA OwnRuns ==
    ASSUME NEW m \in Models, OwnIds(m), NEW i \in DOMAIN Tasks(m), NEW x
    PROVE  /\ RunTask(m, i, x) = Apply(Tasks(m)[i].op, x, Binds(m))
           /\ OpOK(Tasks(m)[i].op, Binds(m))
<1> DEFINE op == Tasks(m)[i].op
           own == Tasks(m)[i].own
           B == [weights |-> own, tables |-> m.tables]
<1>1. PICK layer \in Range(m.layers) :
          LayerOK(layer) /\ own = Own(layer) /\ (IsLinear(op) => op = DenseOp(layer))
  BY GraphOp
<1>2. OpTyped(op)
  BY GraphOp
<1>3. B.weights = own /\ B.tables = m.tables /\ RunTask(m, i, x) = Apply(op, x, B)
  BY DEF RunTask
<1>4. Binds(m).weights = WeightTensors(m) /\ Binds(m).tables = m.tables
  BY DEF Binds
<1> HIDE DEF op, own, B
<1>5. IsLinear(op) => LinearAlike(op, B, Binds(m))
  <2> SUFFICES ASSUME IsLinear(op), NEW id \in {op.weight} \union Range(op.bias)
               PROVE  /\ Has(B.weights, id) <=> Has(Binds(m).weights, id)
                      /\ Has(B.weights, id) => Find(B.weights, id) = Find(Binds(m).weights, id)
    BY DEF LinearAlike
  <2>1. \E w \in Range(own) : w.id = id
    <3>1. Range(own) = {layer.weight} \union Range(layer.bias)
      BY <1>1, OwnList
    <3>2. op.weight = layer.weight.id /\ op.bias = [j \in DOMAIN layer.bias |-> layer.bias[j].id]
      BY <1>1 DEF DenseOp
    <3>3. CASE id = op.weight
      BY <3>1, <3>2, <3>3
    <3>4. CASE id \in Range(op.bias)
      <4>1. PICK j \in DOMAIN op.bias : id = op.bias[j]
        BY <3>4 DEF Range
      <4>2. j \in DOMAIN layer.bias /\ op.bias[j] = layer.bias[j].id
        BY <3>2, <4>1
      <4>3. layer.bias[j] \in Range(layer.bias)
        BY <4>2 DEF Range
      <4> QED BY <3>1, <4>1, <4>2, <4>3
    <3> QED BY <3>3, <3>4
  <2>2. IsList(own) /\ Has(own, id)
    BY <1>1, <2>1, OwnList DEF Has, Range
  <2>3. PICK t \in DOMAIN own : Find(own, id) = own[t] /\ own[t].id = id
    BY <2>2, FindIs
  <2>4. own[t] \in Range(Own(layer))
    BY <1>1 DEF Range
  <2>5. Has(WeightTensors(m), own[t].id) /\ Find(WeightTensors(m), own[t].id) = own[t]
    BY <2>4, OwnFound
  <2> QED BY <1>3, <1>4, <2>2, <2>3, <2>5
<1>6. Apply(op, x, B) = Apply(op, x, Binds(m))
  <2>1. Alike(B.tables, Binds(m).tables)
    BY <1>3, <1>4 DEF Alike
  <2> DEFINE bufs == [b \in {0} |-> x]
  <2>2. op.kind \in Kinds /\ (IsLinear(op) => op.bias \in Seq(Range(op.bias)))
    BY <1>2 DEF OpTyped
  <2> HIDE DEF bufs
  <2>3. Kernel(op, bufs, B) = Kernel(op, bufs, Binds(m))
    BY <1>5, <2>1, <2>2, AlikeKernel
  <2> QED BY <2>3 DEF Apply, bufs
<1>7. OpOK(op, Binds(m))
  <2>1. CASE IsLinear(op)
    BY <1>1, <2>1, DenseFound
  <2>2. CASE ~IsLinear(op)
    BY <1>2, <2>2 DEF OpTyped, OpOK, OpLists
  <2> QED BY <2>1, <2>2
<1> QED BY <1>3, <1>6, <1>7 DEF op

(******************************* one record ********************************)
\* The output of an op over a list is a list.
LEMMA ApplyList ==
    ASSUME NEW m \in Models, NEW i \in DOMAIN Tasks(m), NEW x, IsList(x)
    PROVE  /\ IsList(RunTask(m, i, x).out)
           /\ IsList(Apply(Tasks(m)[i].op, x, Binds(m)).out)
<1> DEFINE op == Tasks(m)[i].op
           bufs == [b \in {0} |-> x]
           B == [weights |-> Tasks(m)[i].own, tables |-> m.tables]
<1>1. OpLists(op)
  BY GraphOp DEF OpTyped, OpLists
<1>2. BufsTyped(bufs)
  BY DEF BufsTyped
<1>3. PICK layer \in Range(m.layers) : LayerOK(layer) /\ Tasks(m)[i].own = Own(layer)
  BY GraphOp
<1>4. IsList(B.weights) /\ \A j \in DOMAIN B.weights : B.weights[j].shape \in Seq(Nat)
  <2>1. Range(Own(layer)) = {layer.weight} \union Range(layer.bias) /\ IsList(Own(layer))
    BY <1>3, OwnList
  <2>2. \A w \in Range(Own(layer)) : TensorOK(w)
    BY <1>3, <2>1 DEF LayerOK
  <2>3. \A j \in DOMAIN Own(layer) : Own(layer)[j] \in Range(Own(layer))
    BY DEF Range
  <2> QED BY <1>3, <2>1, <2>2, <2>3 DEF TensorOK
<1>5. /\ IsList(Binds(m).weights)
      /\ \A j \in DOMAIN Binds(m).weights : Binds(m).weights[j].shape \in Seq(Nat)
  BY BindsTyped DEF BindsOK, TensorOK
<1>6. /\ RunTask(m, i, x) = Kernel(op, bufs, B)
      /\ Apply(Tasks(m)[i].op, x, Binds(m)) = Kernel(op, bufs, Binds(m))
  BY DEF RunTask, Apply
<1> HIDE DEF op, bufs, B
<1>7. IsList(Kernel(op, bufs, B).out) /\ IsList(Kernel(op, bufs, Binds(m)).out)
  BY <1>1, <1>2, <1>4, <1>5, KernelOut
<1> QED BY <1>6, <1>7

\* One row: the layer's output is its only row's.
LEMMA OneRow ==
    ASSUME NEW w, Rows(w) \in Nat, Cols(w) \in Nat,
           NEW x, IsList(x), Len(x) = Cols(w), NEW bias,
           NEW z, IsList(z), Len(z) = Rows(w)
    PROVE  z = Linear(w, x, bias) <=> z = LinearRows(w, x, bias, 1)
<1>1. PICK n, k : n = Rows(w) /\ k = Cols(w)
  OBVIOUS
<1>2. n \in Nat /\ k \in Nat /\ 1 * n = n /\ 1 * k = k /\ 1..1 = {1}
  BY <1>1
<1>3. RowOf(z, 1, n) = z
  <2>1. /\ IsList(RowOf(z, 1, n)) /\ Len(RowOf(z, 1, n)) = n
        /\ \A j \in 1..n : RowEntry(z, 1, n, j)
    BY <1>1, <1>2, RowOfIs
  <2>2. \A j \in 1..n : RowOf(z, 1, n)[j] = z[j]
    <3> TAKE j \in 1..n
    <3>1. At(1, n, j) = j
      BY <1>2 DEF At
    <3> QED BY <2>1, <3>1 DEF RowEntry
  <2> QED BY <1>1, <2>1, <2>2, SameList
<1>4. RowOf(x, 1, k) = x
  <2>1. /\ IsList(RowOf(x, 1, k)) /\ Len(RowOf(x, 1, k)) = k
        /\ \A j \in 1..k : RowEntry(x, 1, k, j)
    <3>1. Len(x) = 1 * k /\ 1 \in Nat /\ 1 \in 1..1
      BY <1>1, <1>2
    <3> QED BY <1>2, <3>1, RowOfIs
  <2>2. \A j \in 1..k : RowOf(x, 1, k)[j] = x[j]
    <3> TAKE j \in 1..k
    <3>1. At(1, k, j) = j
      BY <1>2 DEF At
    <3> QED BY <2>1, <3>1 DEF RowEntry
  <2> QED BY <1>1, <2>1, <2>2, SameList
<1>5. (\A t \in 1..1 : RowOf(z, t, Rows(w)) = Linear(w, RowOf(x, t, Cols(w)), bias))
         <=> z = LinearRows(w, x, bias, 1)
  BY <1>1, <1>2, RowByRow
<1> QED BY <1>1, <1>2, <1>3, <1>4, <1>5

\* What check_linear finds of a record that it passes: the record has the lengths
\* of its layer, which the kernel therefore runs.
LEMMA DenseChecked ==
    ASSUME model \in Models, NEW i \in DOMAIN Tasks(model),
           NEW rec, rec.op = Tasks(model)[i].op, IsLinear(rec.op),
           IsList(rec.input), IsList(rec.output), NEW r, CheckLinear(rec, r) = "ok"
    PROVE  LET B == Binds(model)
               w == WeightOf(rec.op, B)
           IN  /\ TensorOK(w) /\ Len(w.shape) = 2 /\ Rows(w) \in Nat /\ Cols(w) \in Nat
               /\ Len(rec.output) = Rows(w) /\ Len(rec.input) = Cols(w)
               /\ Apply(rec.op, rec.input, B).err = "ok"
               /\ Apply(rec.op, rec.input, B).out = LinearRows(w, rec.input, Bias(rec.op, B), 1)
               /\ WeightRows(rec.op.weight) = Rows(w)
<1> DEFINE op == rec.op
           B == Binds(model)
           w == WeightOf(op, B)
<1>1. PICK layer \in Range(model.layers) : op = DenseOp(layer)
  BY GraphOp
<1>2. Has(B.weights, op.weight) /\ ~BiasMissing(op, B)
  BY <1>1, DenseFound, BindsTyped
<1>3. op.kind = "Linear" /\ op.args = << 0 >>
  BY <1>1 DEF DenseOp
<1>4. /\ Len(w.shape) = 2 /\ Len(rec.output) = Rows(w) /\ Len(rec.input) = Cols(w)
  BY DEF CheckLinear
<1>5. TensorOK(w)
  <2>1. \E j \in DOMAIN B.weights : Find(B.weights, op.weight) = B.weights[j]
    <3>1. IsList(B.weights)
      BY BindsTyped DEF BindsOK
    <3> QED BY <1>2, <3>1, FindIs
  <2> QED BY <2>1, BindsTyped DEF BindsOK, WeightOf
<1>6. Rows(w) \in Nat /\ Cols(w) \in Nat
  BY <1>4, <1>5 DEF TensorOK, Rows, Cols
<1>7. WeightRows(op.weight) = Rows(w)
  BY BindsTyped DEF WeightRows, WeightOf
<1>8. /\ Apply(op, rec.input, B).err = "ok"
      /\ Apply(op, rec.input, B).out = LinearRows(w, rec.input, Bias(op, B), 1)
  <2>1. Apply(op, rec.input, B) = LinearKernel(op, rec.input, B)
    <3>1. IsLinear(op)
      OBVIOUS
    <3> HIDE DEF op, B
    <3> QED BY <1>3, <3>1, ApplyIs
  <2>2. SeqLen(op) = 1
    BY <1>3 DEF SeqLen
  <2>3. Len(rec.input) = SeqLen(op) * Cols(w)
    BY <1>4, <1>6, <2>2
  <2>4. LinearKernel(op, rec.input, B) = Out(LinearRows(w, rec.input, Bias(op, B), 1))
    BY <1>2, <1>4, <2>2, <2>3 DEF LinearKernel, WeightOf
  <2> QED BY <2>1, <2>4 DEF Out
<1> QED BY <1>4, <1>5, <1>6, <1>7, <1>8 DEF op, w, B

\* A dense record that every challenge passes is right.
LEMMA DenseSound ==
    ASSUME model \in Models, NEW i \in DOMAIN Tasks(model),
           NEW rec, rec.op = Tasks(model)[i].op, IsLinear(rec.op), OpOK(rec.op, Binds(model)),
           IsList(rec.input), IsList(rec.output), NEW r0, CheckLinear(rec, r0) = "ok",
           \A r \in [1..WeightRows(rec.op.weight) -> FieldElems] : CheckLinear(rec, r) = "ok"
    PROVE  rec.output = Apply(rec.op, rec.input, Binds(model)).out
<1> DEFINE op == rec.op
           B == Binds(model)
           w == WeightOf(op, B)
           bias == Bias(op, B)
<1>1. /\ TensorOK(w) /\ Len(w.shape) = 2 /\ Rows(w) \in Nat /\ Cols(w) \in Nat
      /\ Len(rec.output) = Rows(w) /\ Len(rec.input) = Cols(w)
      /\ Apply(op, rec.input, B).err = "ok"
      /\ Apply(op, rec.input, B).out = LinearRows(w, rec.input, bias, 1)
      /\ WeightRows(op.weight) = Rows(w)
  BY DenseChecked
<1>2. \A r \in Challenges(Rows(w)) :
          CheckLinearBiased(PrecomputeV(r, w), rec.input, bias, r, rec.output)
  <2> TAKE r \in Challenges(Rows(w))
  <2>1. CheckLinear(rec, r) = "ok"
    BY <1>1 DEF Challenges
  <2> QED BY <2>1 DEF CheckLinear
<1>3. bias \in Seq(Int) /\ Len(bias) >= Rows(w)
  <2> DEFINE bufs == [b \in {0} |-> rec.input]
  <2>1. BufsTyped(bufs) /\ Kernel(op, bufs, B).err = "ok"
    BY <1>1 DEF BufsTyped, Apply
  <2>2. BindsOK(B)
    BY BindsTyped
  <2> HIDE DEF bufs, op, B
  <2>3. OpOK(op, B) /\ IsLinear(op)
    BY DEF op, B
  <2> QED BY <2>1, <2>2, <2>3, LinearFacts
<1> HIDE DEF op, B, w, bias
<1>4. rec.output = Linear(w, rec.input, bias)
  BY <1>1, <1>2, <1>3, RowSound
<1>5. rec.output = LinearRows(w, rec.input, bias, 1)
  BY <1>1, <1>4, OneRow
<1> QED BY <1>1, <1>5 DEF op, B

\* What the checks of one record leave: it is exact, or an equation that some
\* vector satisfied, and that every vector satisfies unless it was luck.
Checked(rec) ==
    /\ ~IsLinear(rec.op) => CheckExact(rec) = "ok"
    /\ IsLinear(rec.op) =>
          /\ \E r \in DrawnFor(rec.op, Draws) : CheckLinear(rec, r) = "ok"
          /\ \/ fooled \/ ~Wrong(rec)
             \/ \A r \in [1..WeightRows(rec.op.weight) -> FieldElems] : CheckLinear(rec, r) = "ok"

\* A record that was checked, luck apart, is what its op computes.
LEMMA CheckedRight ==
    ASSUME model \in Models, NEW i \in DOMAIN Tasks(model),
           NEW rec, rec.op = Tasks(model)[i].op, OpOK(rec.op, Binds(model)),
           IsList(rec.input), IsList(rec.output), Checked(rec), ~fooled
    PROVE  /\ Apply(rec.op, rec.input, Binds(model)).err = "ok"
           /\ rec.output = Apply(rec.op, rec.input, Binds(model)).out
<1>1. CASE IsLinear(rec.op)
  <2>1. PICK r : CheckLinear(rec, r) = "ok"
    BY <1>1 DEF Checked
  <2>2. Apply(rec.op, rec.input, Binds(model)).err = "ok"
    BY <1>1, <2>1, DenseChecked
  <2>3. CASE ~Wrong(rec)
    BY <2>2, <2>3 DEF Wrong
  <2>4. CASE \A r1 \in [1..WeightRows(rec.op.weight) -> FieldElems] : CheckLinear(rec, r1) = "ok"
    BY <1>1, <2>1, <2>2, <2>4, DenseSound
  <2> QED BY <1>1, <2>3, <2>4 DEF Checked
<1>2. CASE ~IsLinear(rec.op)
  <2> DEFINE bufs == [b \in {0} |-> rec.input]
  <2>1. AuditExact(rec.op, rec.output, bufs, Binds(model)) = "ok"
    BY <1>2 DEF Checked, CheckExact
  <2>2. AuditOp(rec.op, rec.output, bufs, Binds(model), <<>>) = "ok"
    BY <1>2, <2>1 DEF AuditOp
  <2> HIDE DEF bufs
  <2>3. Kernel(rec.op, bufs, Binds(model)).err = "ok" /\ rec.output = Kernel(rec.op, bufs, Binds(model)).out
    BY <1>2, <2>2, AuditSound
  <2> QED BY <2>3 DEF Apply, bufs
<1> QED BY <1>1, <1>2

(******************************* the invariant *****************************)
\* What goes into record i, as the prover threads it and as the verifier does.
TipAt(i) == IF i = 1 THEN input ELSE trace[i - 1].output
CurrentAt(i) == IF i = 1 THEN History ELSE trace[i - 1].output

Honest(i) ==
    LET k == RunTask(model, i, TipAt(i)) IN
    k.err = "ok" /\ trace[i] = Rec(Graph(model)[i], TipAt(i), k.out)

RecordTyped(rec) ==
    rec = Rec(rec.op, rec.input, rec.output) /\ IsList(rec.input) /\ IsList(rec.output)

\* The trace: every record but the forged one is what Model::run computes after
\* the record before it.
Base ==
    /\ model \in Models /\ stated \in Models /\ input \in Inputs
    /\ phase \in {"run", "failed", "sealed", "pick", "picked", "walk", "done"}
    /\ IsList(trace) /\ Len(trace) <= Len(Graph(model))
    /\ \A i \in DOMAIN trace : RecordTyped(trace[i])
    /\ forged \subseteq DOMAIN trace /\ \A i, j \in forged : i = j
    /\ \A i \in DOMAIN trace : i \in forged <=> ~Honest(i)

\* The artifact: an honest trace is full, and its header is bound as it was sealed.
Sealed == phase \notin {"run", "failed"}

Statement ==
    Sealed => /\ forged = {} => Len(trace) = Len(Graph(model))
              /\ Encodable(input)
              /\ alter = "none" => pi = Header(stated, input, claimed)

\* The source: a sample names dense records, and a batched vector has the length of
\* its weight.
Source ==
    /\ phase \in {"run", "failed", "sealed"} => mode.kind = "none"
    /\ phase \in {"pick", "picked"} => mode.kind = "Sampled"
    /\ mode.kind = "Sampled" =>
          /\ DOMAIN mode = {"kind", "want", "sample", "picks"}
          /\ mode.sample \subseteq 0..(Cardinality(DenseIn(trace)) - 1)
    /\ mode.kind = "Batched" =>
          \A i \in DOMAIN model.layers :
              LET id == model.layers[i].weight.id IN mode.rmap[id] \in [1..WeightRows(id) -> Draws]

\* The walk: the records before pos are threaded from the public history on, and
\* each was checked but for the dense ones that are not in the sample.
DenseBefore(p) == { i \in DenseIn(trace) : i < p }

Early ==
    /\ phase # "done" => verdict = "none"
    /\ phase \notin {"walk", "done"} => pos = 1 /\ cursor = 0 /\ audited = {} /\ ~fooled

Threaded ==
    /\ GateResult = "ok"
    /\ pos \in 1..(Len(trace) + 1) /\ current = CurrentAt(pos)
    /\ \A i \in 1..(pos - 1) : trace[i].input = CurrentAt(i)
    /\ cursor = Cardinality(DenseBefore(pos))

Audited ==
    /\ audited \subseteq 1..(pos - 1)
    /\ \A i \in (1..(pos - 1)) \ audited : IsLinear(trace[i].op) /\ mode.kind = "Sampled"
    /\ \A i \in audited : \A rec \in {trace[i]} : Checked(rec)
    /\ mode.kind = "Sampled" =>
          Cardinality(audited \cap DenseIn(trace)) = Cardinality(mode.sample \cap 0..(cursor - 1))

Walked ==
    /\ (phase = "walk" \/ verdict = "ok") => Threaded /\ Audited
    /\ verdict = "ok" => pos = Len(trace) + 1 /\ claimed = current

IInv == Base /\ Statement /\ Source /\ Early /\ Walked /\ HonestAccepted

\* Values that the field can hold survive their encoding.
LEMMA DecodeBack ==
    ASSUME NEW x \in Int, InSignedRange(x)
    PROVE  Decode(Encode(x)) = x
<1>1. PHalf \in Nat \ {0} /\ P \in Nat \ {0} /\ P = 2 * PHalf + 1
  BY FieldAssumption DEF P
<1>2. CASE x >= 0
  <2>1. x = P * 0 + x /\ x \in 0..(P - 1) /\ x <= PHalf
    BY <1>1, <1>2 DEF InSignedRange
  <2>2. x = x % P
    BY <1>1, <2>1, ModUnique
  <2> QED BY <2>1, <2>2 DEF Decode, Encode
<1>3. CASE x < 0
  <2> DEFINE r == x + P
  <2>1. x = P * (-1) + r /\ r \in 0..(P - 1) /\ r > PHalf /\ r - P = x
    BY <1>1, <1>3 DEF InSignedRange
  <2> HIDE DEF r
  <2>2. r = x % P
    BY <1>1, <2>1, ModUnique
  <2> QED BY <1>1, <2>1, <2>2 DEF Decode, Encode
<1> QED BY <1>2, <1>3

(****************************** the prover's steps *************************)
LEMMA BaseKept ==
    ASSUME Base, UNCHANGED <<model, stated, input, trace, forged>>,
           phase' \in {"run", "failed", "sealed", "pick", "picked", "walk", "done"}
    PROVE  Base'
<1>1. \A i \in DOMAIN trace : Honest(i)' <=> Honest(i)
  BY DEF Honest, TipAt
<1> QED BY <1>1 DEF Base

\* Nothing is said of the walk before it begins.
LEMMA BeforeWalk ==
    ASSUME Early, phase' \notin {"walk", "done"}, phase \notin {"walk", "done"},
           UNCHANGED <<cursor, pos, audited, fooled, verdict>>
    PROVE  Early' /\ Walked' /\ HonestAccepted'
BY DEF Early, Walked, HonestAccepted

LEMMA SourceNone ==
    ASSUME Source, phase \in {"run", "failed", "sealed"}, phase' \in {"run", "failed", "sealed"},
           mode' = mode
    PROVE  Source'
BY DEF Source

\* What Model::run appends to the trace.
RunNext(rec) ==
    LET i == Len(trace) + 1
        k == RunTask(model, i, Tip)
    IN  k.err = "ok" /\ rec = Rec(Graph(model)[i], Tip, k.out)

\* A record is appended: those before it are as they were.
LEMMA BaseAppends ==
    ASSUME Base, phase = "run", Len(trace) < Len(Graph(model)),
           NEW rec, RecordTyped(rec), trace' = Append(trace, rec),
           UNCHANGED <<model, stated, input, phase>>,
           \/ RunNext(rec) /\ forged' = forged
           \/ ~RunNext(rec) /\ forged = {} /\ forged' = {Len(trace) + 1}
    PROVE  Base'
<1>1. PICK n : n = Len(trace)
  OBVIOUS
<1>2. IsList(trace)
  BY DEF Base
<1>3. n \in Nat /\ DOMAIN trace = 1..n
  BY <1>1, <1>2, ListFacts
<1>4. /\ IsList(trace') /\ Len(trace') = n + 1 /\ (\A i \in 1..n : trace'[i] = trace[i])
      /\ trace'[n + 1] = rec
  BY <1>1, <1>2, Extended
<1>5. DOMAIN trace' = 1..(n + 1)
  BY <1>4, ListFacts
<1>6. Tip = TipAt(n + 1)
  <2>1. CASE trace = <<>>
    <3>1. n = 0
      BY <1>1, <2>1
    <3> QED BY <2>1, <3>1 DEF Tip, TipAt
  <2>2. CASE trace # <<>>
    <3>1. n # 0
      <4>1. IsList(<<>>) /\ Len(<<>>) = 0
        BY <<>> \in Seq(Nat), ListOf
      <4> QED BY <1>1, <1>2, <1>3, <2>2, <4>1, SameList
    <3>2. Last(trace) = trace[n]
      BY <1>1 DEF Last
    <3>3. n + 1 # 1 /\ (n + 1) - 1 = n
      BY <1>3, <3>1
    <3> QED BY <2>2, <3>2, <3>3 DEF Tip, TipAt
  <2> QED BY <2>1, <2>2
<1>7. \A i \in 1..(n + 1) : TipAt(i)' = TipAt(i)
  <2> TAKE i \in 1..(n + 1)
  <2>1. i # 1 => i - 1 \in 1..n
    BY <1>3
  <2> QED BY <1>4, <2>1 DEF TipAt
<1>8. \A i \in 1..n : Honest(i)' <=> Honest(i)
  <2> TAKE i \in 1..n
  <2>1. i \in 1..(n + 1)
    BY <1>3
  <2> QED BY <1>4, <1>7, <2>1 DEF Honest
<1>9. n + 1 \in forged' <=> ~Honest(n + 1)'
  <2>1. n + 1 \in 1..(n + 1) /\ ~(n + 1 \in 1..n)
    BY <1>3
  <2>2. TipAt(n + 1)' = Tip
    BY <1>6, <1>7, <2>1
  <2>3. forged \subseteq 1..n
    BY <1>3 DEF Base
  <2> QED BY <1>1, <1>4, <2>1, <2>2, <2>3 DEF Honest, RunNext
<1>10. \A i \in 1..n : i \in forged' <=> i \in forged
  <2> TAKE i \in 1..n
  <2>1. i # n + 1
    BY <1>3
  <2> QED BY <1>1, <2>1
<1>11. \A i \in 1..(n + 1) : i \in 1..n \/ i = n + 1
  BY <1>3
<1>12. \A i \in DOMAIN trace' : i \in forged' <=> ~Honest(i)'
  BY <1>3, <1>5, <1>8, <1>9, <1>10, <1>11 DEF Base
<1>13. \A i \in DOMAIN trace' : RecordTyped(trace'[i])
  BY <1>3, <1>4, <1>5, <1>11 DEF Base
<1>14. Len(trace') <= Len(Graph(model'))
  <2>1. Len(Graph(model)) \in Nat
    BY GraphIs DEF Base
  <2> QED BY <1>1, <1>3, <1>4, <2>1
<1>15. forged' \subseteq DOMAIN trace' /\ \A i, j \in forged' : i = j
  <2>1. \A i \in 1..n : i \in 1..(n + 1)
    BY <1>3
  <2>2. n + 1 \in 1..(n + 1)
    BY <1>3
  <2> QED BY <1>1, <1>3, <1>5, <2>1, <2>2 DEF Base
<1> QED BY <1>4, <1>12, <1>13, <1>14, <1>15 DEF Base

\* What a run has got to is a list, and so is the model's input.
LEMMA TipList ==
    ASSUME Base
    PROVE  IsList(Tip) /\ IsList(input) /\ input \in Seq(Int)
<1>1. input \in Seq(Int) /\ IsList(input)
  <2>1. input \in Seq(Int)
    BY VectorsAssumption DEF Base
  <2> QED BY <2>1, ListOf
<1>2. CASE trace = <<>>
  BY <1>1, <1>2 DEF Tip
<1>3. CASE trace # <<>>
  <2>1. PICK n : n = Len(trace)
    OBVIOUS
  <2>2. n \in Nat /\ DOMAIN trace = 1..n /\ IsList(trace)
    BY <2>1, ListFacts DEF Base
  <2>3. n # 0
    <3>1. IsList(<<>>) /\ Len(<<>>) = 0
      BY <<>> \in Seq(Nat), ListOf
    <3> QED BY <1>3, <2>1, <2>2, <3>1, SameList
  <2>4. n \in DOMAIN trace
    BY <2>2, <2>3
  <2>5. Tip = trace[n].output
    BY <1>3, <2>1 DEF Tip, Last
  <2> QED BY <1>1, <2>4, <2>5 DEF Base, RecordTyped
<1> QED BY <1>1, <1>2, <1>3

LEMMA NextTask ==
    ASSUME Base, Len(trace) < Len(Graph(model))
    PROVE  /\ Len(trace) + 1 \in DOMAIN Tasks(model)
           /\ IsList(RunTask(model, Len(trace) + 1, Tip).out)
<1>1. PICK n, k : n = Len(trace) /\ k = Len(Graph(model))
  OBVIOUS
<1>2. n \in Nat /\ k \in Nat /\ DOMAIN Tasks(model) = 1..k
  BY <1>1, ListFacts, GraphIs DEF Base
<1>3. n + 1 \in 1..k
  BY <1>1, <1>2
<1> QED BY <1>1, <1>2, <1>3, TipList, ApplyList DEF Base

LEMMA RunOpKeeps ==
    ASSUME IInv, RunOp
    PROVE  IInv'
<1>1. /\ phase = "run" /\ Len(trace) < Len(Graph(model)) /\ phase' \in {"run", "failed"}
      /\ UNCHANGED <<model, stated, input, forged, mode, cursor, pos, audited, fooled, verdict>>
  BY DEF RunOp, Running, check
<1>2. Base'
  <2> DEFINE k == RunTask(model, Len(trace) + 1, Tip)
             rec == Rec(Graph(model)[Len(trace) + 1], Tip, k.out)
  <2>1. CASE k.err = "ok"
    <3>1. trace' = Append(trace, rec) /\ phase' = phase
      BY <2>1 DEF RunOp
    <3>2. rec.input = Tip /\ rec.output = k.out
      BY DEF Rec
    <3>3. RecordTyped(rec)
      <4>1. IsList(rec.input) /\ IsList(rec.output)
        BY <1>1, <3>2, TipList, NextTask DEF IInv
      <4>2. rec = Rec(rec.op, rec.input, rec.output)
        BY DEF Rec
      <4> HIDE DEF rec
      <4> QED BY <4>1, <4>2 DEF RecordTyped
    <3> HIDE DEF rec
    <3>4. rec = Rec(Graph(model)[Len(trace) + 1], Tip, k.out)
      BY DEF rec
    <3> QED BY <1>1, <2>1, <3>1, <3>3, <3>4, BaseAppends DEF IInv, RunNext
  <2>2. CASE k.err # "ok"
    <3>1. trace' = trace /\ phase' = "failed"
      BY <2>2 DEF RunOp
    <3> QED BY <1>1, <3>1, BaseKept DEF IInv
  <2> QED BY <2>1, <2>2
<1>3. Statement'
  BY <1>1 DEF Statement, Sealed
<1>4. Source'
  BY <1>1, SourceNone DEF IInv
<1>5. Early' /\ Walked' /\ HonestAccepted'
  BY <1>1, BeforeWalk DEF IInv
<1> QED BY <1>2, <1>3, <1>4, <1>5 DEF IInv

LEMMA ForgeRecordKeeps ==
    ASSUME IInv, NEW rec \in Records, ForgeRecord(rec)
    PROVE  IInv'
<1>1. /\ phase = "run" /\ Len(trace) < Len(Graph(model)) /\ phase' = "run" /\ forged = {}
      /\ UNCHANGED <<model, stated, input, mode, cursor, pos, audited, fooled, verdict>>
      /\ trace' = Append(trace, rec)
  BY DEF ForgeRecord, Running, check
<1>2. Base'
  <2> DEFINE k == RunTask(model, Len(trace) + 1, Tip)
  <2>1. /\ forged' = {Len(trace) + 1}
        /\ k.err = "ok" => rec # Rec(Graph(model)[Len(trace) + 1], Tip, k.out)
    BY DEF ForgeRecord
  <2>2. RecordTyped(rec)
    BY RecordsAssumption, ListOf DEF RecordTyped
  <2>3. phase' = phase
    BY <1>1
  <2> QED BY <1>1, <2>1, <2>2, <2>3, BaseAppends DEF IInv, RunNext
<1>3. Statement'
  BY <1>1 DEF Statement, Sealed
<1>4. Source'
  BY <1>1, SourceNone DEF IInv
<1>5. Early' /\ Walked' /\ HonestAccepted'
  BY <1>1, BeforeWalk DEF IInv
<1> QED BY <1>2, <1>3, <1>4, <1>5 DEF IInv

LEMMA SealKeeps ==
    ASSUME IInv, NEW out, SealAs(out)
    PROVE  IInv'
<1>1. /\ phase = "run" /\ (Len(trace) = Len(Graph(model)) \/ forged # {})
      /\ phase' \in {"sealed", "failed"}
      /\ phase' = "sealed" => /\ Encodable(input) /\ claimed' = out
                              /\ pi' = Header(stated, input, out)
      /\ UNCHANGED <<model, stated, input, trace, forged, mode, cursor, pos, audited, fooled, verdict>>
  BY DEF SealAs, check
<1>2. Base'
  BY <1>1, BaseKept DEF IInv
<1>3. Statement'
  BY <1>1 DEF Statement, Sealed, Encodable
<1>4. Source'
  BY <1>1, SourceNone DEF IInv
<1>5. Early' /\ Walked' /\ HonestAccepted'
  BY <1>1, BeforeWalk DEF IInv
<1> QED BY <1>2, <1>3, <1>4, <1>5 DEF IInv

LEMMA AlterKeeps ==
    ASSUME IInv, NEW f \in Fields, Alter(f)
    PROVE  IInv'
<1>1. /\ phase = "sealed" /\ phase' = "sealed" /\ alter' = f
      /\ UNCHANGED <<model, stated, input, trace, forged, mode, cursor, pos, audited, fooled, verdict>>
  BY DEF Alter, made, check
<1>2. Base'
  BY <1>1, BaseKept DEF IInv
<1>3. Statement'
  <2>1. f # "none"
    BY DEF Fields
  <2> QED BY <1>1, <2>1 DEF IInv, Statement, Sealed, Encodable
<1>4. Source'
  BY <1>1, SourceNone DEF IInv
<1>5. Early' /\ Walked' /\ HonestAccepted'
  BY <1>1, BeforeWalk DEF IInv
<1> QED BY <1>2, <1>3, <1>4, <1>5 DEF IInv

(*************************** the sample is drawn ***************************)
\* A sealed artifact stays as it is.
LEMMA StatementKept ==
    ASSUME Statement, Sealed, UNCHANGED <<made, pi, alter>>
    PROVE  Statement'
BY DEF Statement, Sealed, Encodable, made

LEMMA StartSampledKeeps ==
    ASSUME IInv, NEW m \in ChallengeModes, StartSampled(m)
    PROVE  IInv'
<1>1. /\ phase = "sealed" /\ m.kind = "Sampled" /\ phase' = "pick" /\ mode' = m
      /\ UNCHANGED <<model, stated, input, trace, forged, cursor, pos, audited, fooled, verdict>>
      /\ UNCHANGED <<made, pi, alter>>
  BY DEF StartSampled, made
<1>2. Base'
  BY <1>1, BaseKept DEF IInv
<1>3. Statement'
  BY <1>1, StatementKept DEF IInv, Sealed
<1>4. Source'
  <2>1. DOMAIN m = {"kind", "want", "sample", "picks"} /\ m.sample = {}
    BY <1>1 DEF ChallengeModes
  <2> QED BY <1>1, <2>1 DEF Source
<1>5. Early' /\ Walked' /\ HonestAccepted'
  BY <1>1, BeforeWalk DEF IInv
<1> QED BY <1>2, <1>3, <1>4, <1>5 DEF IInv

LEMMA PickKeeps ==
    ASSUME IInv, NEW i \in 0..(Cardinality(DenseIn(trace)) - 1), Pick(i)
    PROVE  IInv'
<1>1. /\ phase = "pick" /\ phase' = "pick"
      /\ mode' = [mode EXCEPT !.sample = @ \union {i}, !.picks = @ + 1]
      /\ UNCHANGED <<model, stated, input, trace, forged, cursor, pos, audited, fooled, verdict>>
      /\ UNCHANGED <<made, pi, alter>>
  BY DEF Pick, Picking, made
<1>2. Base'
  BY <1>1, BaseKept DEF IInv
<1>3. Statement'
  BY <1>1, StatementKept DEF IInv, Sealed
<1>4. Source'
  <2>1. /\ mode.kind = "Sampled" /\ DOMAIN mode = {"kind", "want", "sample", "picks"}
        /\ mode.sample \subseteq 0..(Cardinality(DenseIn(trace)) - 1)
    BY <1>1 DEF IInv, Source
  <2>2. mode'.kind = "Sampled" /\ DOMAIN mode' = DOMAIN mode /\ mode'.sample = mode.sample \union {i}
    BY <1>1, <2>1
  <2>3. DenseIn(trace)' = DenseIn(trace)
    BY <1>1 DEF DenseIn
  <2> QED BY <1>1, <2>1, <2>2, <2>3 DEF Source
<1>5. Early' /\ Walked' /\ HonestAccepted'
  BY <1>1, BeforeWalk DEF IInv
<1> QED BY <1>2, <1>3, <1>4, <1>5 DEF IInv

LEMMA EndPicksKeeps ==
    ASSUME IInv, EndPicks
    PROVE  IInv'
<1>1. /\ phase = "pick" /\ phase' = "picked"
      /\ UNCHANGED <<model, stated, input, trace, forged, cursor, pos, audited, fooled, verdict>>
      /\ UNCHANGED <<made, pi, alter>> /\ mode' = mode
  BY DEF EndPicks, Picked, made
<1>2. Base'
  BY <1>1, BaseKept DEF IInv
<1>3. Statement'
  BY <1>1, StatementKept DEF IInv, Sealed
<1>4. Source'
  BY <1>1 DEF IInv, Source, DenseIn
<1>5. Early' /\ Walked' /\ HonestAccepted'
  BY <1>1, BeforeWalk DEF IInv
<1> QED BY <1>2, <1>3, <1>4, <1>5 DEF IInv

(***************************** an honest record ****************************)
\* An honest record holds what its op computes from what the record before it put out.
LEMMA HonestIs ==
    ASSUME Base, NEW i \in DOMAIN trace, Honest(i), OwnIds(model)
    PROVE  /\ i \in DOMAIN Tasks(model) /\ trace[i].op = Tasks(model)[i].op
           /\ trace[i].op = Graph(model)[i] /\ trace[i].input = TipAt(i)
           /\ OpOK(trace[i].op, Binds(model))
           /\ Apply(trace[i].op, trace[i].input, Binds(model)).err = "ok"
           /\ trace[i].output = Apply(trace[i].op, trace[i].input, Binds(model)).out
<1>1. i \in DOMAIN Tasks(model)
  <2>1. PICK n, k : n = Len(trace) /\ k = Len(Graph(model))
    OBVIOUS
  <2>2. n \in Nat /\ k \in Nat /\ DOMAIN trace = 1..n /\ DOMAIN Tasks(model) = 1..k /\ n <= k
    BY <2>1, ListFacts, GraphIs DEF Base
  <2> QED BY <2>2
<1>2. /\ RunTask(model, i, TipAt(i)).err = "ok"
      /\ trace[i] = Rec(Graph(model)[i], TipAt(i), RunTask(model, i, TipAt(i)).out)
  BY DEF Honest
<1>3. /\ trace[i].op = Graph(model)[i] /\ trace[i].input = TipAt(i)
      /\ trace[i].output = RunTask(model, i, TipAt(i)).out
  BY <1>2 DEF Rec
<1>4. trace[i].op = Tasks(model)[i].op
  BY <1>1, <1>3, GraphIs DEF Base
<1>5. /\ RunTask(model, i, TipAt(i)) = Apply(Tasks(model)[i].op, TipAt(i), Binds(model))
      /\ OpOK(Tasks(model)[i].op, Binds(model))
  BY <1>1, OwnRuns DEF Base
<1> QED BY <1>1, <1>2, <1>3, <1>4, <1>5

LEMMA HonestDense ==
    ASSUME Base, NEW i \in DOMAIN trace, Honest(i), OwnIds(model), IsLinear(trace[i].op)
    PROVE  LET op == trace[i].op
               B == Binds(model)
               w == WeightOf(op, B)
           IN  /\ \E layer \in Range(model.layers) :
                     op = DenseOp(layer) /\ w = layer.weight /\ LayerOK(layer)
               /\ TensorOK(w) /\ Len(w.shape) = 2 /\ Rows(w) \in Nat /\ Cols(w) \in Nat
               /\ Bias(op, B) \in Seq(Int) /\ Len(Bias(op, B)) >= Rows(w)
               /\ Len(trace[i].input) = Cols(w) /\ Len(trace[i].output) = Rows(w)
               /\ trace[i].output = Linear(w, trace[i].input, Bias(op, B))
               /\ WeightRows(op.weight) = Rows(w)
<1> DEFINE op == trace[i].op
           B == Binds(model)
           w == WeightOf(op, B)
           x == trace[i].input
           z == trace[i].output
           bufs == [b \in {0} |-> x]
<1>1. /\ i \in DOMAIN Tasks(model) /\ op = Tasks(model)[i].op /\ OpOK(op, B)
      /\ Apply(op, x, B).err = "ok" /\ z = Apply(op, x, B).out
  BY HonestIs
<1>2. PICK layer \in Range(model.layers) : LayerOK(layer) /\ op = DenseOp(layer)
  BY <1>1, GraphOp DEF Base
<1>3. w = layer.weight
  BY <1>2, DenseFound DEF Base
<1>4. IsList(x) /\ IsList(z)
  BY DEF Base, RecordTyped
<1>5. op.kind = "Linear" /\ op.args = << 0 >>
  BY <1>2 DEF DenseOp
<1>6. WeightRows(op.weight) = Rows(w)
  BY BindsTyped DEF WeightRows, WeightOf, Base
<1>7. BindsOK(B)
  BY BindsTyped DEF Base
<1>8. BufsTyped(bufs) /\ Apply(op, x, B) = Kernel(op, bufs, B) /\ bufs[0] = x
  BY <1>4 DEF BufsTyped, Apply
<1>9. IsLinear(op)
  OBVIOUS
<1> HIDE DEF op, B, x, z, bufs
<1>10. /\ TensorOK(w) /\ Len(w.shape) = 2 /\ Rows(w) \in Nat /\ Cols(w) \in Nat
       /\ Len(x) = 1 * Cols(w) /\ Bias(op, B) \in Seq(Int) /\ Len(Bias(op, B)) >= Rows(w)
       /\ z = LinearRows(w, x, Bias(op, B), 1)
  <2>1. op.args[1] = 0 /\ SeqLen(op) = 1
    BY <1>5 DEF SeqLen
  <2> QED BY <1>1, <1>7, <1>8, <1>9, <2>1, LinearFacts
<1> HIDE DEF w
<1>11. Len(x) = Cols(w)
  BY <1>10
<1>12. Len(z) = Rows(w)
  <2>1. PICK n : n = Rows(w)
    OBVIOUS
  <2>2. DOMAIN z = 1..(1 * n)
    BY <1>10, <2>1 DEF LinearRows
  <2>3. n \in Nat /\ 1 * n = n
    BY <1>10, <2>1
  <2>4. PICK k : k = Len(z)
    OBVIOUS
  <2>5. k \in Nat /\ 1..k = 1..n
    BY <1>4, <2>2, <2>3, <2>4, ListFacts
  <2>6. k = n
    <3>1. CASE k < n
      <4>1. n \in 1..n /\ ~(n \in 1..k)
        BY <2>3, <2>5, <3>1
      <4> QED BY <2>5, <4>1
    <3>2. CASE n < k
      <4>1. k \in 1..k /\ ~(k \in 1..n)
        BY <2>3, <2>5, <3>2
      <4> QED BY <2>5, <4>1
    <3> QED BY <2>3, <2>5, <3>1, <3>2
  <2> QED BY <2>1, <2>4, <2>6
<1>13. z = Linear(w, x, Bias(op, B))
  BY <1>4, <1>10, <1>11, <1>12, OneRow
<1> QED BY <1>2, <1>3, <1>6, <1>10, <1>11, <1>12, <1>13 DEF op, B, x, z, w

\* The gate lets an honest artifact pass, and so does the batched verifier's reading
\* of the weights.
LEMMA HonestGate ==
    ASSUME IInv, Sealed, forged = {}, alter = "none", stated = model, OwnIds(model)
    PROVE  /\ GateResult = "ok" /\ History = input
           /\ \A i \in DOMAIN model.layers : Len(model.layers[i].weight.shape) = 2
<1>1. /\ Base /\ Len(trace) = Len(Graph(model)) /\ Encodable(input)
      /\ pi = Header(model, input, claimed)
  BY DEF IInv, Statement
<1>2. \A i \in DOMAIN trace : Honest(i)
  BY <1>1 DEF Base
<1>3. DOMAIN trace = DOMAIN Tasks(model)
  BY <1>1, ListFacts, GraphIs DEF Base
<1>4. ASSUME NEW i \in DOMAIN model.layers
      PROVE  Len(model.layers[i].weight.shape) = 2
  <2>1. PICK layer : layer = model.layers[i] /\ layer \in Range(model.layers)
    BY DEF Range
  <2>2. PICK j \in DOMAIN Tasks(model) : Tasks(model)[j].op = DenseOp(layer)
    BY <1>1, <2>1, TasksAre DEF Base
  <2>3. trace[j].op = DenseOp(layer) /\ Honest(j) /\ j \in DOMAIN trace
    BY <1>1, <1>2, <1>3, <2>2, HonestIs
  <2>4. IsLinear(trace[j].op)
    BY <2>3 DEF DenseOp, IsLinear
  <2>5. Len(WeightOf(trace[j].op, Binds(model)).shape) = 2
    BY <1>1, <2>3, <2>4, HonestDense
  <2>6. WeightOf(DenseOp(layer), Binds(model)) = layer.weight
    BY <1>1, <2>1, DenseFound DEF Base
  <2> QED BY <2>1, <2>3, <2>5, <2>6
<1>5. Conforms
  <2> SUFFICES ASSUME NEW i \in DOMAIN trace
               PROVE  ConformsAt(i)
    BY <1>1 DEF Conforms
  <2>1. trace[i].op = Graph(model)[i]
    BY <1>1, <1>2, HonestIs
  <2>2. ASSUME IsLinear(trace[i].op)
        PROVE  Len(trace[i].input) = trace[i].op.cols /\ Len(trace[i].output) = trace[i].op.rows
    <3>1. PICK w : w = WeightOf(trace[i].op, Binds(model))
      OBVIOUS
    <3>2. /\ \E layer \in Range(model.layers) : trace[i].op = DenseOp(layer) /\ w = layer.weight
          /\ TensorOK(w) /\ Len(w.shape) = 2
          /\ Len(trace[i].input) = Cols(w) /\ Len(trace[i].output) = Rows(w)
      BY <1>1, <1>2, <2>2, <3>1, HonestDense
    <3>3. trace[i].op.cols = Last(w.shape) /\ trace[i].op.rows = Head(w.shape)
      BY <3>2 DEF DenseOp
    <3>4. Last(w.shape) = w.shape[2] /\ Head(w.shape) = w.shape[1]
      BY <3>2 DEF Last, TensorOK
    <3> QED BY <3>2, <3>3, <3>4 DEF Rows, Cols
  <2> QED BY <2>1, <2>2 DEF ConformsAt
<1>6. History = input /\ pi.history # <<>>
  <2> DEFINE h == [i \in DOMAIN input |-> Encode(input[i])]
  <2>1. pi.history = << h >>
    BY <1>1 DEF Header
  <2>2. DOMAIN h = DOMAIN input /\ \A i \in DOMAIN input : h[i] = Encode(input[i])
    OBVIOUS
  <2> HIDE DEF h
  <2>3. History = [i \in DOMAIN h |-> Decode(h[i])] /\ pi.history # <<>>
    BY <2>1 DEF History
  <2>4. \A i \in DOMAIN input : Decode(h[i]) = input[i]
    <3> TAKE i \in DOMAIN input
    <3>1. input[i] \in Int /\ InSignedRange(input[i])
      BY <1>1, TipList DEF Encodable
    <3> QED BY <2>2, <3>1, DecodeBack
  <2>5. input = [i \in DOMAIN input |-> input[i]]
    BY <1>1, TipList
  <2> QED BY <2>2, <2>3, <2>4, <2>5
<1>7. trace # <<>> => Head(trace).input = input
  <2> SUFFICES ASSUME trace # <<>>
               PROVE  Head(trace).input = input
    OBVIOUS
  <2>1. 1 \in DOMAIN trace /\ Head(trace) = trace[1]
    <3>1. trace \in Seq(Range(trace))
      BY <1>1 DEF Base, IsList
    <3> QED BY <3>1
  <2>2. trace[1].input = TipAt(1)
    BY <1>1, <1>2, <2>1, HonestIs
  <2> QED BY <2>1, <2>2 DEF TipAt
<1>8. GateResult = "ok"
  <2>1. /\ pi.version = "v1" /\ pi.relation = "mlp" /\ pi.statement = "P0Step"
        /\ pi.planner = PlannerSentinel
    BY <1>1 DEF Header
  <2> QED BY <1>1, <1>5, <1>6, <1>7, <2>1 DEF GateResult
<1> QED BY <1>4, <1>6, <1>8

(******************************* the walk opens ****************************)
\* What the invariant asks of a source once the walk begins.
SourceOf(m) ==
    /\ m.kind = "Sampled" =>
          /\ DOMAIN m = {"kind", "want", "sample", "picks"}
          /\ m.sample \subseteq 0..(Cardinality(DenseIn(trace)) - 1)
    /\ m.kind = "Batched" =>
          \A i \in DOMAIN model.layers :
              LET id == model.layers[i].weight.id IN m.rmap[id] \in [1..WeightRows(id) -> Draws]

LEMMA OpenKeeps ==
    ASSUME IInv, phase \in {"sealed", "picked"}, NEW m, SourceOf(m), Open(m)
    PROVE  IInv'
<1>1. /\ mode' = m /\ UNCHANGED <<made, pi, alter, cursor, pos, audited, fooled>>
      /\ UNCHANGED <<model, stated, input, trace, forged, claimed>>
      /\ \/ Opened(m) = "ok" /\ phase' = "walk" /\ current' = History /\ verdict' = verdict
         \/ Opened(m) # "ok" /\ phase' = "done" /\ verdict' = Opened(m)
  BY DEF Open, made
<1>2. /\ pos = 1 /\ cursor = 0 /\ audited = {} /\ ~fooled /\ verdict = "none" /\ Sealed
  BY DEF IInv, Early, Sealed
<1>3. Base'
  BY <1>1, BaseKept DEF IInv
<1>4. Statement'
  BY <1>1, <1>2, StatementKept DEF IInv
<1>5. Source'
  <2>1. DenseIn(trace)' = DenseIn(trace)
    BY <1>1 DEF DenseIn
  <2>2. \A id : WeightRows(id)' = WeightRows(id)
    BY <1>1 DEF WeightRows
  <2> QED BY <1>1, <2>1, <2>2 DEF Source, SourceOf
<1>6. Early'
  BY <1>1, <1>2 DEF Early
<1>7. Walked'
  <2>1. CASE Opened(m) = "ok" /\ phase' = "walk" /\ current' = History /\ verdict' = verdict
    <3>1. GateResult = "ok"
      BY <2>1 DEF Opened
    <3>2. GateResult' = GateResult /\ History' = History
      BY <1>1 DEF GateResult, Conforms, ConformsAt, History
    <3>3. 1 \in 1..(Len(trace) + 1) /\ 1..(1 - 1) = {} /\ 0..(0 - 1) = {}
      <4>1. Len(trace) \in Nat
        BY ListFacts DEF IInv, Base
      <4> QED BY <4>1
    <3>4. DenseBefore(1) = {}
      <4>1. \A i \in DOMAIN trace : ~(i < 1)
        <5>1. DOMAIN trace = 1..Len(trace) /\ Len(trace) \in Nat
          BY ListFacts DEF IInv, Base
        <5> QED BY <5>1
      <4> QED BY <4>1 DEF DenseBefore, DenseIn
    <3>5. DenseBefore(1)' = DenseBefore(1)
      BY <1>1 DEF DenseBefore, DenseIn
    <3>6. Cardinality({}) = 0
      BY FS_EmptySet
    <3>7. Threaded'
      <4>1. pos' = 1 /\ current' = History' /\ cursor' = 0
        BY <1>1, <1>2, <2>1, <3>2
      <4>2. CurrentAt(1)' = History'
        BY DEF CurrentAt
      <4>3. Len(trace)' = Len(trace)
        BY <1>1
      <4> QED BY <3>1, <3>2, <3>3, <3>4, <3>5, <3>6, <4>1, <4>2, <4>3 DEF Threaded
    <3>8. Audited'
      <4>1. audited' = {} /\ pos' = 1 /\ cursor' = 0
        BY <1>1, <1>2
      <4>2. (audited \cap DenseIn(trace))' = {} /\ (mode.sample \cap 0..(cursor - 1))' = {}
        BY <3>3, <4>1
      <4> QED BY <3>3, <4>1, <4>2 DEF Audited
    <3> QED BY <1>2, <2>1, <3>7, <3>8 DEF Walked
  <2>2. CASE Opened(m) # "ok" /\ phase' = "done" /\ verdict' = Opened(m)
    BY <2>2 DEF Walked
  <2> QED BY <1>1, <2>1, <2>2
<1>8. HonestAccepted'
  <2> SUFFICES ASSUME phase' = "done", forged' = {}, alter' = "none", stated' = model', OwnIds(model')
               PROVE  FALSE
    BY DEF HonestAccepted
  <2>1. forged = {} /\ alter = "none" /\ stated = model /\ OwnIds(model)
    BY <1>1
  <2>2. Opened(m) = "ok"
    BY <1>2, <2>1, HonestGate DEF Opened
  <2> QED BY <1>1, <2>2
<1> QED BY <1>3, <1>4, <1>5, <1>6, <1>7, <1>8 DEF IInv

LEMMA StartKeeps ==
    ASSUME IInv, NEW m \in ChallengeModes, Start(m)
    PROVE  IInv'
<1>1. phase = "sealed" /\ m.kind # "Sampled" /\ Open(m)
  BY DEF Start
<1>2. ASSUME m.kind = "Batched", NEW i \in DOMAIN model.layers
      PROVE  m.rmap[model.layers[i].weight.id] \in
                [1..WeightRows(model.layers[i].weight.id) -> Draws]
  <2> DEFINE id == model.layers[i].weight.id
             ids == { model.layers[j].weight.id : j \in DOMAIN model.layers }
             tall == Max({0} \union { WeightRows(k) : k \in ids })
  <2>1. m.rmap \in SharedVectors
    BY <1>2 DEF ChallengeModes
  <2>2. id \in ids
    OBVIOUS
  <2>3. /\ m.rmap \in [ids -> UNION { [1..n -> Draws] : n \in 0..tall }]
        /\ \A k \in ids : DOMAIN m.rmap[k] = 1..WeightRows(k)
    BY <2>1 DEF SharedVectors
  <2> HIDE DEF ids, tall, id
  <2>4. m.rmap[id] \in UNION { [1..n -> Draws] : n \in 0..tall } /\ DOMAIN m.rmap[id] = 1..WeightRows(id)
    BY <2>2, <2>3
  <2>5. PICK n \in 0..tall : m.rmap[id] \in [1..n -> Draws]
    BY <2>4
  <2>6. 1..n = 1..WeightRows(id)
    BY <2>4, <2>5
  <2>7. m.rmap[id] \in [1..WeightRows(id) -> Draws]
    BY <2>5, <2>6
  <2> QED BY <2>7 DEF id
<1>3. SourceOf(m)
  BY <1>1, <1>2 DEF SourceOf
<1> QED BY <1>1, <1>3, OpenKeeps

LEMMA OpenSampledKeeps ==
    ASSUME IInv, OpenSampled
    PROVE  IInv'
<1> DEFINE m == [mode EXCEPT !.picks = 0]
<1>1. phase = "picked" /\ Open(m)
  BY DEF OpenSampled
<1>2. /\ mode.kind = "Sampled" /\ DOMAIN mode = {"kind", "want", "sample", "picks"}
      /\ mode.sample \subseteq 0..(Cardinality(DenseIn(trace)) - 1)
  BY <1>1 DEF IInv, Source
<1>3. m.kind = "Sampled" /\ DOMAIN m = DOMAIN mode /\ m.sample = mode.sample
  BY <1>2
<1> HIDE DEF m
<1>4. SourceOf(m)
  BY <1>2, <1>3 DEF SourceOf
<1> QED BY <1>1, <1>4, OpenKeeps

(******************************** one record *******************************)
\* What an honest record may still be refused for.
LEMMA HonestRecord ==
    ASSUME IInv, phase = "walk", NEW i \in DOMAIN trace, Honest(i), OwnIds(model),
           trace[i].input = current, NEW r \in DrawnFor(trace[i].op, Draws)
    PROVE  \/ CheckRecord(trace[i], r) \in {"ok", "AccumulatorRange"}
           \/ CheckRecord(trace[i], r) = "InvalidShift" /\ ShiftRejected(trace[i].op)
           \/ CheckRecord(trace[i], r) = "FreivaldsCheckFailed" /\ SecretMissing(trace[i].op)
<1>1. Base
  BY DEF IInv
<1>2. PICK op, B, x, z : /\ op = trace[i].op /\ B = Binds(model)
                         /\ x = trace[i].input /\ z = trace[i].output
  OBVIOUS
<1>3. /\ OpOK(op, B) /\ Apply(op, x, B).err = "ok" /\ z = Apply(op, x, B).out
  BY <1>1, <1>2, HonestIs
<1>4. CASE ~IsLinear(op)
  <2> DEFINE bufs == [b \in {0} |-> x]
  <2>1. BindsOK(B)
    BY <1>1, <1>2, BindsTyped DEF Base
  <2>2. BufsTyped(bufs)
    BY <1>1, <1>2 DEF BufsTyped, Base, RecordTyped
  <2>3. Kernel(op, bufs, B).err = "ok" /\ z = Kernel(op, bufs, B).out
    BY <1>3 DEF Apply
  <2>4. CheckRecord(trace[i], r) = CheckExact(trace[i])
    BY <1>2, <1>4 DEF CheckRecord
  <2> DEFINE e == AuditExact(op, z, bufs, B)
  <2>5. CheckExact(trace[i]) = IF e = "BlockOpMismatch" THEN "ExactReplayMismatch" ELSE e
    BY <1>2 DEF CheckExact
  <2>6. e = AuditOp(op, z, bufs, B, <<>>)
    BY <1>4 DEF AuditOp
  <2> HIDE DEF bufs, e
  <2>7. /\ ShiftRejected(op) => AuditOp(op, z, bufs, B, <<>>) = "InvalidShift"
        /\ ~ShiftRejected(op) => AuditOp(op, z, bufs, B, <<>>) \in {"ok", "AccumulatorRange"}
    BY <1>3, <1>4, <2>1, <2>2, <2>3, AuditComplete
  <2>8. CASE ShiftRejected(op)
    BY <1>2, <2>4, <2>5, <2>6, <2>7, <2>8
  <2>9. CASE ~ShiftRejected(op)
    BY <2>4, <2>5, <2>6, <2>7, <2>9
  <2> QED BY <2>8, <2>9
<1>5. CASE IsLinear(op)
  <2>1. PICK w, bias : w = WeightOf(op, B) /\ bias = Bias(op, B)
    OBVIOUS
  <2>2. /\ \E layer \in Range(model.layers) : op = DenseOp(layer)
        /\ TensorOK(w) /\ Len(w.shape) = 2 /\ Rows(w) \in Nat /\ Cols(w) \in Nat
        /\ bias \in Seq(Int) /\ Len(bias) >= Rows(w) /\ Len(x) = Cols(w) /\ Len(z) = Rows(w)
        /\ z = Linear(w, x, bias) /\ WeightRows(op.weight) = Rows(w)
    BY <1>1, <1>2, <1>5, <2>1, HonestDense
  <2>3. CheckRecord(trace[i], r) = IF Skipped(op) THEN "ok"
                                   ELSE IF SecretMissing(op) THEN "FreivaldsCheckFailed"
                                   ELSE CheckLinear(trace[i], r)
    BY <1>2, <1>5 DEF CheckRecord
  <2>4. IsList(x)
    BY <1>1, <1>2 DEF Base, RecordTyped
  <2>5. r \in Challenges(Rows(w))
    <3>1. Draws \subseteq FieldElems
      BY DrawsAssumption
    <3>2. r \in [1..Rows(w) -> Draws]
      <4>1. CASE mode.kind = "Batched"
        <5>1. PICK layer \in Range(model.layers) : op = DenseOp(layer)
          BY <2>2
        <5>2. PICK j \in DOMAIN model.layers : model.layers[j] = layer
          BY DEF Range
        <5>3. op.weight = model.layers[j].weight.id
          BY <5>1, <5>2 DEF DenseOp
        <5>4. mode.rmap[op.weight] \in [1..WeightRows(op.weight) -> Draws]
          BY <4>1, <5>3 DEF IInv, Source
        <5> QED BY <1>2, <1>5, <2>2, <4>1, <5>4 DEF DrawnFor
      <4>2. CASE mode.kind # "Batched"
        BY <1>2, <1>5, <2>2, <4>2 DEF DrawnFor
      <4> QED BY <4>1, <4>2
    <3> QED BY <3>1, <3>2 DEF Challenges
  <2>6. CheckLinear(trace[i], r) \in {"ok", "AccumulatorRange"}
    <3>1. CASE RangeGuard(Cols(w), x, bias, z)
      <4>1. CheckLinearBiased(PrecomputeV(r, w), x, bias, r, z)
        BY <2>2, <2>4, <2>5, <3>1, RowComplete
      <4> QED BY <1>2, <2>1, <2>2, <3>1, <4>1 DEF CheckLinear
    <3>2. CASE ~RangeGuard(Cols(w), x, bias, z)
      BY <1>2, <2>1, <2>2, <3>2 DEF CheckLinear
    <3> QED BY <3>1, <3>2
  <2>7. CASE Skipped(op)
    BY <2>3, <2>7
  <2>8. CASE ~Skipped(op) /\ SecretMissing(op)
    BY <1>2, <2>3, <2>8
  <2>9. CASE ~Skipped(op) /\ ~SecretMissing(op)
    BY <2>3, <2>6, <2>9
  <2> QED BY <2>7, <2>8, <2>9
<1> QED BY <1>4, <1>5

\* The cursor counts the dense records met.
LEMMA CursorStep ==
    ASSUME Base, NEW p \in DOMAIN trace
    PROVE  /\ Cardinality(DenseBefore(p)) \in Nat
           /\ Cardinality(DenseBefore(p + 1)) =
                 Cardinality(DenseBefore(p)) + (IF p \in DenseIn(trace) THEN 1 ELSE 0)
<1>1. PICK n : n = Len(trace) /\ DOMAIN trace = 1..n /\ n \in Nat
  BY ListFacts DEF Base
<1>2. PICK D, E : D = DenseIn(trace) /\ E = DenseBefore(p)
  OBVIOUS
<1>3. D \subseteq 1..n /\ p \in 1..n /\ E = { i \in D : i < p }
      /\ DenseBefore(p + 1) = { i \in D : i < p + 1 }
  BY <1>1, <1>2 DEF DenseBefore, DenseIn
<1>4. IsFiniteSet(1..n)
  BY <1>1, FS_Interval
<1>5. IsFiniteSet(E) /\ p \notin E
  <2>1. E \subseteq 1..n
    BY <1>3
  <2>2. ~(p < p)
    BY <1>3
  <2> QED BY <1>3, <1>4, <2>1, <2>2, FS_Subset
<1>6. Cardinality(E) \in Nat
  BY <1>5, FS_CardinalityType
<1>7. CASE p \notin D
  <2>1. \A i \in D : i < p + 1 <=> i < p
    BY <1>3, <1>7
  <2>2. DenseBefore(p + 1) = E
    BY <1>3, <2>1
  <2> QED BY <1>2, <1>6, <1>7, <2>2
<1>8. CASE p \in D
  <2>1. \A i \in D : i < p + 1 <=> (i < p \/ i = p)
    BY <1>3
  <2>2. DenseBefore(p + 1) = E \union {p}
    BY <1>3, <1>8, <2>1
  <2>3. Cardinality(E \union {p}) = Cardinality(E) + 1
    BY <1>5, FS_AddElement
  <2> QED BY <1>2, <1>6, <1>8, <2>2, <2>3
<1> QED BY <1>7, <1>8

\* One more position was checked, dense or not.
LEMMA AuditedStep ==
    ASSUME Base, NEW p \in DOMAIN trace, NEW a \in SUBSET (1..(p - 1))
    PROVE  Cardinality((a \union {p}) \cap DenseIn(trace)) =
              Cardinality(a \cap DenseIn(trace)) + (IF p \in DenseIn(trace) THEN 1 ELSE 0)
<1>1. PICK n : n = Len(trace) /\ DOMAIN trace = 1..n /\ n \in Nat
  BY ListFacts DEF Base
<1>2. PICK D, E : D = DenseIn(trace) /\ E = a \cap D
  OBVIOUS
<1>3. D \subseteq 1..n /\ p \in 1..n
  BY <1>1, <1>2 DEF DenseIn
<1>4. IsFiniteSet(E) /\ p \notin E
  <2>1. E \subseteq 1..n /\ p \notin E
    BY <1>2, <1>3
  <2>2. IsFiniteSet(1..n)
    BY <1>1, FS_Interval
  <2> QED BY <2>1, <2>2, FS_Subset
<1>5. Cardinality(E) \in Nat
  BY <1>4, FS_CardinalityType
<1>6. CASE p \notin D
  <2>1. (a \union {p}) \cap D = E
    BY <1>2, <1>6
  <2>2. Cardinality(E) = Cardinality(E) + 0
    BY <1>5
  <2> QED BY <1>2, <1>6, <2>1, <2>2
<1>7. CASE p \in D
  <2>1. (a \union {p}) \cap D = E \union {p}
    BY <1>2, <1>7
  <2>2. Cardinality(E \union {p}) = Cardinality(E) + 1
    BY <1>4, FS_AddElement
  <2> QED BY <1>2, <1>5, <1>7, <2>1, <2>2
<1> QED BY <1>6, <1>7

\* One more cursor was passed, in the sample or not.
LEMMA SampleStep ==
    ASSUME NEW c \in Nat, NEW sample \in SUBSET Int
    PROVE  Cardinality(sample \cap 0..c) =
              Cardinality(sample \cap 0..(c - 1)) + (IF c \in sample THEN 1 ELSE 0)
<1>1. PICK E : E = sample \cap 0..(c - 1)
  OBVIOUS
<1>2. IsFiniteSet(E) /\ c \notin E
  <2>1. E \subseteq 0..(c - 1) /\ c \notin E
    BY <1>1
  <2>2. IsFiniteSet(0..(c - 1))
    BY FS_Interval
  <2> QED BY <2>1, <2>2, FS_Subset
<1>3. Cardinality(E) \in Nat
  BY <1>2, FS_CardinalityType
<1>4. CASE c \notin sample
  <2>1. sample \cap 0..c = E
    BY <1>1, <1>4
  <2>2. Cardinality(E) = Cardinality(E) + 0
    BY <1>3
  <2> QED BY <1>1, <1>4, <2>1, <2>2
<1>5. CASE c \in sample
  <2>1. sample \cap 0..c = E \union {c}
    BY <1>1, <1>5
  <2>2. Cardinality(E \union {c}) = Cardinality(E) + 1
    BY <1>2, FS_AddElement
  <2> QED BY <1>1, <1>5, <2>1, <2>2
<1> QED BY <1>4, <1>5

LEMMA WalkKeeps ==
    ASSUME IInv, phase = "walk", pos <= Len(trace),
           NEW r \in DrawnFor(trace[pos].op, Draws), Walk(r)
    PROVE  IInv'
<1>0. PICK rec, op : rec = trace[pos] /\ op = rec.op
  OBVIOUS
<1>1. /\ UNCHANGED <<model, stated, input, trace, forged, claimed, made, pi, alter, mode>>
      /\ \/ /\ CheckRecord(rec, r) = "ok"
            /\ current' = rec.output /\ pos' = pos + 1
            /\ cursor' = IF IsLinear(op) THEN cursor + 1 ELSE cursor
            /\ audited' = IF Skipped(op) THEN audited ELSE audited \union {pos}
            /\ fooled' = (fooled \/ Lucky(rec)) /\ phase' = phase /\ verdict' = verdict
         \/ /\ CheckRecord(rec, r) # "ok"
            /\ phase' = "done" /\ verdict' = CheckRecord(rec, r)
            /\ UNCHANGED <<current, pos, cursor, audited, fooled>>
  BY <1>0 DEF Walk, made
<1>2. Base /\ Threaded /\ Audited /\ verdict = "none" /\ Sealed
  BY DEF IInv, Walked, Early, Sealed
<1>3. PICK n : n = Len(trace) /\ n \in Nat /\ DOMAIN trace = 1..n
  BY <1>2, ListFacts DEF Base
<1>4. pos \in 1..n /\ pos \in DOMAIN trace
  BY <1>2, <1>3 DEF Threaded
<1>5. Base' /\ Statement'
  <2>1. phase' \in {"walk", "done"}
    BY <1>1
  <2>2. Base'
    BY <1>1, <1>2, <2>1, BaseKept
  <2> QED BY <1>1, <1>2, <2>2, StatementKept DEF IInv
<1>6. Source'
  <2>1. phase' \in {"walk", "done"}
    BY <1>1
  <2>2. DenseIn(trace)' = DenseIn(trace)
    BY <1>1 DEF DenseIn
  <2>3. \A id : WeightRows(id)' = WeightRows(id)
    BY <1>1 DEF WeightRows
  <2> QED BY <1>1, <2>1, <2>2, <2>3 DEF IInv, Source
<1>7. GateResult' = GateResult /\ \A i : CurrentAt(i)' = CurrentAt(i)
  BY <1>1 DEF GateResult, Conforms, ConformsAt, History, CurrentAt
<1>8. CASE CheckRecord(rec, r) = "ok"
  <2>1. /\ current' = rec.output /\ pos' = pos + 1
        /\ cursor' = IF IsLinear(op) THEN cursor + 1 ELSE cursor
        /\ audited' = IF Skipped(op) THEN audited ELSE audited \union {pos}
        /\ fooled' = (fooled \/ Lucky(rec)) /\ phase' = "walk" /\ verdict' = "none"
    BY <1>1, <1>2, <1>8
  <2>2. rec.input = current /\ rec = trace[pos] /\ op = rec.op
    BY <1>0, <1>8 DEF CheckRecord
  <2>3. pos + 1 \in 1..(n + 1) /\ (pos + 1) - 1 = pos /\ pos + 1 # 1
        /\ \A i \in 1..pos : i \in 1..(pos - 1) \/ i = pos
    BY <1>3, <1>4
  <2>4. pos \in DenseIn(trace) <=> IsLinear(op)
    BY <1>4, <2>2 DEF DenseIn
  <2>5. Threaded'
    <3>1. current' = CurrentAt(pos + 1)
      BY <2>1, <2>2, <2>3 DEF CurrentAt
    <3>2. \A i \in 1..pos : trace[i].input = CurrentAt(i)
      BY <1>2, <2>2, <2>3 DEF Threaded
    <3>3. cursor' = Cardinality(DenseBefore(pos + 1))
      <4>1. cursor = Cardinality(DenseBefore(pos))
        BY <1>2 DEF Threaded
      <4>2. cursor' = cursor + (IF pos \in DenseIn(trace) THEN 1 ELSE 0)
        <5>1. cursor \in Nat
          BY <1>2, <1>4, <4>1, CursorStep
        <5> QED BY <2>1, <2>4, <5>1
      <4> QED BY <1>2, <1>4, <4>1, <4>2, CursorStep
    <3>5. cursor' = Cardinality(DenseBefore(pos))'
      <4>1. DenseIn(trace)' = DenseIn(trace)
        BY <1>1 DEF DenseIn
      <4>2. DenseBefore(pos)' = DenseBefore(pos + 1)
        BY <2>1, <4>1 DEF DenseBefore
      <4> QED BY <3>3, <4>2
    <3>6. CurrentAt(pos)' = CurrentAt(pos + 1)
      BY <1>1, <2>1 DEF CurrentAt, History
    <3>7. 1..(pos' - 1) = 1..pos /\ pos' \in 1..(Len(trace') + 1)
      BY <1>1, <1>3, <2>1, <2>3
    <3>8. \A i \in 1..(pos' - 1) : trace'[i].input = CurrentAt(i)'
      BY <1>1, <1>7, <3>2, <3>7
    <3> QED BY <1>2, <1>7, <3>1, <3>5, <3>6, <3>7, <3>8 DEF Threaded
  <2>6. Audited'
    <3>1. audited \subseteq 1..(pos - 1)
      BY <1>2 DEF Audited
    <3>2. audited' \subseteq 1..pos
      BY <1>4, <2>1, <3>1
    <3>3. \A i \in (1..pos) \ audited' : IsLinear(trace[i].op) /\ mode.kind = "Sampled"
      <4> SUFFICES ASSUME NEW i \in (1..pos) \ audited'
                   PROVE  IsLinear(trace[i].op) /\ mode.kind = "Sampled"
        OBVIOUS
      <4>1. CASE i = pos
        BY <2>1, <2>2, <4>1 DEF Skipped
      <4>2. CASE i # pos
        BY <1>2, <2>1, <2>3, <4>2 DEF Audited
      <4> QED BY <4>1, <4>2
    <3>4. ASSUME NEW q
          PROVE  /\ (~IsLinear(q.op) => CheckExact(q)' = CheckExact(q))
                 /\ DrawnFor(q.op, Draws)' = DrawnFor(q.op, Draws)
                 /\ Wrong(q)' = Wrong(q) /\ WeightRows(q.op.weight)' = WeightRows(q.op.weight)
                 /\ \A v : CheckLinear(q, v)' = CheckLinear(q, v)
      BY <1>1 DEF CheckExact, DrawnFor, Wrong, WeightRows, CheckLinear
    <3>5. ASSUME NEW q, Checked(q)
          PROVE  Checked(q)'
      <4>1. fooled => fooled'
        BY <2>1
      <4> QED BY <3>4, <3>5, <4>1 DEF Checked
    <3>6. ~Skipped(op) => Checked(rec)'
      <4> SUFFICES ASSUME ~Skipped(op)
                   PROVE  Checked(rec)'
        OBVIOUS
      <4>1. CASE ~IsLinear(op)
        <5>1. CheckExact(rec) = "ok"
          BY <1>8, <2>2, <4>1 DEF CheckRecord
        <5> QED BY <2>2, <3>4, <4>1, <5>1 DEF Checked
      <4>2. CASE IsLinear(op)
        <5>1. CheckLinear(rec, r) = "ok"
          BY <1>8, <2>2, <4>2 DEF CheckRecord
        <5>2. r \in DrawnFor(rec.op, Draws)
          BY <1>0
        <5>3. \/ fooled' \/ ~Wrong(rec)
              \/ \A v \in [1..WeightRows(rec.op.weight) -> FieldElems] : CheckLinear(rec, v) = "ok"
          BY <2>1, <2>2, <4>2 DEF Lucky
        <5> QED BY <2>2, <3>4, <4>2, <5>1, <5>2, <5>3 DEF Checked
      <4> QED BY <4>1, <4>2
    <3>7. ASSUME NEW i \in audited'
          PROVE  \A q \in {trace'[i]} : Checked(q)'
      <4>1. PICK q : q = trace[i]
        OBVIOUS
      <4>2. CASE i \in audited
        <5>1. Checked(q)
          BY <1>2, <4>1, <4>2 DEF Audited
        <5>2. Checked(q)'
          BY <3>5, <5>1
        <5> QED BY <1>1, <4>1, <5>2
      <4>3. CASE i = pos /\ ~Skipped(op)
        <5>1. Checked(rec)' /\ rec = trace'[i]
          BY <1>1, <2>2, <3>6, <4>3
        <5> QED BY <5>1
      <4> QED BY <2>1, <4>2, <4>3
    <3>8. mode.kind = "Sampled" =>
             Cardinality(audited' \cap DenseIn(trace)) = Cardinality(mode.sample \cap 0..(cursor' - 1))
      <4> SUFFICES ASSUME mode.kind = "Sampled"
                   PROVE  Cardinality(audited' \cap DenseIn(trace)) =
                             Cardinality(mode.sample \cap 0..(cursor' - 1))
        OBVIOUS
      <4>1. PICK p, c, a, s : p = pos /\ c = cursor /\ a = audited /\ s = mode.sample
        OBVIOUS
      <4>2. c \in Nat /\ s \in SUBSET Int /\ p \in DOMAIN trace /\ a \in SUBSET (1..(p - 1))
        <5>1. cursor = Cardinality(DenseBefore(pos))
          BY <1>2 DEF Threaded
        <5>2. cursor \in Nat
          BY <1>2, <1>4, <5>1, CursorStep
        <5> QED BY <1>4, <3>1, <4>1, <5>2 DEF IInv, Source
      <4>3. /\ Cardinality((a \union {p}) \cap DenseIn(trace)) =
                  Cardinality(a \cap DenseIn(trace)) + (IF p \in DenseIn(trace) THEN 1 ELSE 0)
            /\ Cardinality(s \cap 0..c) =
                  Cardinality(s \cap 0..(c - 1)) + (IF c \in s THEN 1 ELSE 0)
        BY <1>2, <4>2, AuditedStep, SampleStep
      <4>4. Cardinality(a \cap DenseIn(trace)) = Cardinality(s \cap 0..(c - 1))
        BY <1>2, <4>1 DEF Audited
      <4>5. Cardinality(s \cap 0..(c - 1)) \in Nat
        <5>1. IsFiniteSet(0..(c - 1)) /\ s \cap 0..(c - 1) \subseteq 0..(c - 1)
          BY <4>2, FS_Interval
        <5> QED BY <5>1, FS_Subset, FS_CardinalityType
      <4>6. CASE ~IsLinear(op)
        <5>1. cursor' = c /\ audited' = a \union {p} /\ p \notin DenseIn(trace)
          BY <2>1, <2>4, <4>1, <4>6 DEF Skipped
        <5> QED BY <4>1, <4>3, <4>4, <4>5, <5>1
      <4>7. CASE IsLinear(op) /\ c \notin s
        <5>1. cursor' = c + 1 /\ audited' = a /\ (c + 1) - 1 = c
          BY <2>1, <4>1, <4>2, <4>7 DEF Skipped
        <5>2. Cardinality(s \cap 0..c) = Cardinality(s \cap 0..(c - 1)) + 0
          BY <4>3, <4>7
        <5>3. Cardinality(s \cap 0..(c - 1)) + 0 = Cardinality(s \cap 0..(c - 1))
          BY <4>5
        <5> QED BY <4>1, <4>4, <5>1, <5>2, <5>3
      <4>8. CASE IsLinear(op) /\ c \in s
        <5>1. cursor' = c + 1 /\ audited' = a \union {p} /\ p \in DenseIn(trace) /\ (c + 1) - 1 = c
          BY <2>1, <2>4, <4>1, <4>2, <4>8 DEF Skipped
        <5> QED BY <4>1, <4>3, <4>4, <4>5, <4>8, <5>1
      <4> QED BY <4>6, <4>7, <4>8
    <3>9. 1..(pos' - 1) = 1..pos /\ mode' = mode /\ trace' = trace /\ DenseIn(trace)' = DenseIn(trace)
      BY <1>1, <2>1, <2>3 DEF DenseIn
    <3> QED BY <3>2, <3>3, <3>7, <3>8, <3>9 DEF Audited
  <2> QED BY <1>5, <1>6, <2>1, <2>5, <2>6 DEF IInv, Early, Walked, HonestAccepted
<1>9. CASE CheckRecord(rec, r) # "ok"
  <2>1. /\ phase' = "done" /\ verdict' = CheckRecord(rec, r) /\ verdict' # "ok"
        /\ UNCHANGED <<current, pos, cursor, audited, fooled>>
    BY <1>1, <1>9
  <2>2. Early' /\ Walked'
    BY <2>1 DEF Early, Walked
  <2>3. HonestAccepted'
    <3> SUFFICES ASSUME forged' = {}, alter' = "none", stated' = model', OwnIds(model')
                 PROVE  \/ verdict' \in {"ok", "AccumulatorRange"}
                        \/ verdict' = "InvalidShift" /\ ShiftRejected(trace'[pos'].op)
                        \/ verdict' = "FreivaldsCheckFailed" /\ SecretMissing(trace[pos].op)'
      BY DEF HonestAccepted
    <3>1. forged = {} /\ alter = "none" /\ stated = model /\ OwnIds(model)
      BY <1>1
    <3>2. Honest(pos)
      BY <1>2, <1>4, <3>1 DEF Base
    <3>3. trace[pos].input = current
      <4>1. trace[pos].input = TipAt(pos)
        BY <1>2, <1>4, <3>1, <3>2, HonestIs
      <4>2. current = CurrentAt(pos)
        BY <1>2 DEF Threaded
      <4>3. History = input
        BY <1>2, <3>1, HonestGate
      <4> QED BY <4>1, <4>2, <4>3 DEF TipAt, CurrentAt
    <3>4. SecretMissing(trace[pos].op)' <=> SecretMissing(trace[pos].op)
      BY <1>1, <2>1 DEF SecretMissing, WeightRows
    <3> QED BY <1>0, <1>1, <1>4, <2>1, <3>1, <3>2, <3>3, <3>4, HonestRecord
  <2> QED BY <1>5, <1>6, <2>2, <2>3 DEF IInv
<1> QED BY <1>8, <1>9

LEMMA FinishKeeps ==
    ASSUME IInv, FinishWalk
    PROVE  IInv'
<1>1. /\ phase = "walk" /\ pos > Len(trace) /\ phase' = "done"
      /\ UNCHANGED <<model, stated, input, trace, forged, claimed, made, pi, alter,
                     mode, cursor, pos, current, audited, fooled>>
      /\ verdict' = IF claimed # current THEN "OutputMismatch"
                    ELSE IF pi.output # OutputCommitment(current) THEN "OutputCommitmentMismatch"
                    ELSE "ok"
  BY DEF FinishWalk, made, check
<1>2. Base /\ Threaded /\ Audited /\ Sealed
  BY <1>1 DEF IInv, Walked, Sealed
<1>3. PICK n : n = Len(trace) /\ n \in Nat /\ DOMAIN trace = 1..n
  BY <1>2, ListFacts DEF Base
<1>4. pos = n + 1
  BY <1>1, <1>2, <1>3 DEF Threaded
<1>5. Base' /\ Statement'
  BY <1>1, <1>2, BaseKept, StatementKept DEF IInv
<1>6. Source'
  <2>1. DenseIn(trace)' = DenseIn(trace)
    BY <1>1 DEF DenseIn
  <2>2. \A id : WeightRows(id)' = WeightRows(id)
    BY <1>1 DEF WeightRows
  <2> QED BY <1>1, <2>1, <2>2 DEF IInv, Source
<1>7. Threaded'
  <2>1. GateResult' = GateResult /\ \A i : CurrentAt(i)' = CurrentAt(i)
    BY <1>1 DEF GateResult, Conforms, ConformsAt, History, CurrentAt
  <2>2. CurrentAt(pos)' = CurrentAt(pos) /\ DenseBefore(pos)' = DenseBefore(pos)
    BY <1>1 DEF CurrentAt, History, DenseBefore, DenseIn
  <2> QED BY <1>1, <1>2, <2>1, <2>2 DEF Threaded
<1>8. Audited'
  <2>1. ASSUME NEW q, Checked(q)
        PROVE  Checked(q)'
    <3>1. /\ (~IsLinear(q.op) => CheckExact(q)' = CheckExact(q))
          /\ DrawnFor(q.op, Draws)' = DrawnFor(q.op, Draws)
          /\ Wrong(q)' = Wrong(q) /\ WeightRows(q.op.weight)' = WeightRows(q.op.weight)
          /\ \A v : CheckLinear(q, v)' = CheckLinear(q, v)
      BY <1>1 DEF CheckExact, DrawnFor, Wrong, WeightRows, CheckLinear
    <3> QED BY <1>1, <2>1, <3>1 DEF Checked
  <2>2. ASSUME NEW i \in audited'
        PROVE  \A q \in {trace'[i]} : Checked(q)'
    <3>1. PICK q : q = trace[i]
      OBVIOUS
    <3>2. Checked(q)'
      BY <1>1, <1>2, <2>1, <3>1 DEF Audited
    <3> QED BY <1>1, <3>1, <3>2
  <2>3. DenseIn(trace)' = DenseIn(trace)
    BY <1>1 DEF DenseIn
  <2> QED BY <1>1, <1>2, <2>2, <2>3 DEF Audited
<1>9. Early' /\ Walked'
  <2>1. verdict' = "ok" => pos' = Len(trace') + 1 /\ claimed' = current'
    BY <1>1, <1>3, <1>4
  <2> QED BY <1>1, <1>7, <1>8, <2>1 DEF Early, Walked
<1>10. HonestAccepted'
  <2> SUFFICES ASSUME forged' = {}, alter' = "none", stated' = model', claimed' = Tip', OwnIds(model')
               PROVE  verdict' = "ok"
    BY DEF HonestAccepted
  <2>1. forged = {} /\ alter = "none" /\ stated = model /\ OwnIds(model) /\ claimed = Tip
    BY <1>1 DEF Tip
  <2>2. pi.output = OutputCommitment(claimed)
    <3>1. pi = Header(stated, input, claimed)
      BY <1>2, <2>1 DEF IInv, Statement
    <3> QED BY <3>1 DEF Header
  <2>3. History = input
    BY <1>2, <2>1, HonestGate
  <2>4. current = Tip
    <3>1. current = CurrentAt(n + 1)
      BY <1>2, <1>4 DEF Threaded
    <3>2. CASE n = 0
      <4>1. trace = <<>>
        <5>1. IsList(<<>>) /\ Len(<<>>) = 0
          BY <<>> \in Seq(Nat), ListOf
        <5> QED BY <1>2, <1>3, <3>2, <5>1, SameList DEF Base
      <4> QED BY <2>3, <3>1, <3>2, <4>1 DEF CurrentAt, Tip
    <3>3. CASE n # 0
      <4>1. trace # <<>> /\ n + 1 # 1 /\ (n + 1) - 1 = n
        <5>1. n \in DOMAIN trace
          BY <1>3, <3>3
        <5> QED BY <1>3, <3>3, <5>1
      <4>2. Last(trace) = trace[n]
        BY <1>3 DEF Last
      <4> QED BY <3>1, <4>1, <4>2 DEF CurrentAt, Tip
    <3> QED BY <3>2, <3>3
  <2> QED BY <1>1, <2>1, <2>2, <2>4
<1> QED BY <1>5, <1>6, <1>9, <1>10 DEF IInv

LEMMA StutterKeeps ==
    ASSUME IInv, UNCHANGED vars
    PROVE  IInv'
<1>1. UNCHANGED <<model, stated, input, trace, forged, claimed, made, phase, pi, alter,
                  mode, cursor, pos, current, audited, fooled, verdict>>
  BY DEF vars, made, check
<1>2. Base'
  BY <1>1, BaseKept DEF IInv, Base
<1>3. Statement' /\ Source' /\ Early'
  BY <1>1 DEF IInv, Statement, Sealed, Encodable, Source, Early, DenseIn, WeightRows
<1>4. Walked'
  <2>1. GateResult' = GateResult /\ \A i : CurrentAt(i)' = CurrentAt(i)
    BY <1>1 DEF GateResult, Conforms, ConformsAt, History, CurrentAt
  <2>2. CurrentAt(pos)' = CurrentAt(pos) /\ DenseBefore(pos)' = DenseBefore(pos)
    BY <1>1 DEF CurrentAt, History, DenseBefore, DenseIn
  <2>3. Threaded => Threaded'
    BY <1>1, <2>1, <2>2 DEF Threaded
  <2>4. ASSUME NEW q, Checked(q)
        PROVE  Checked(q)'
    <3>1. /\ (~IsLinear(q.op) => CheckExact(q)' = CheckExact(q))
          /\ DrawnFor(q.op, Draws)' = DrawnFor(q.op, Draws)
          /\ Wrong(q)' = Wrong(q) /\ WeightRows(q.op.weight)' = WeightRows(q.op.weight)
          /\ \A v : CheckLinear(q, v)' = CheckLinear(q, v)
      BY <1>1 DEF CheckExact, DrawnFor, Wrong, WeightRows, CheckLinear
    <3> QED BY <1>1, <2>4, <3>1 DEF Checked
  <2>5. ASSUME Audited
        PROVE  Audited'
    <3>1. ASSUME NEW i \in audited'
          PROVE  \A q \in {trace'[i]} : Checked(q)'
      <4>1. PICK q : q = trace[i]
        OBVIOUS
      <4>2. Checked(q)'
        BY <1>1, <2>4, <2>5, <4>1 DEF Audited
      <4> QED BY <1>1, <4>1, <4>2
    <3>2. DenseIn(trace)' = DenseIn(trace)
      BY <1>1 DEF DenseIn
    <3> QED BY <1>1, <2>5, <3>1, <3>2 DEF Audited
  <2> QED BY <1>1, <2>3, <2>5 DEF IInv, Walked
<1>5. HonestAccepted'
  <2>1. SecretMissing(trace[pos].op)' <=> SecretMissing(trace[pos].op)
    BY <1>1 DEF SecretMissing, WeightRows
  <2>2. Tip' = Tip
    BY <1>1 DEF Tip
  <2> QED BY <1>1, <2>1, <2>2 DEF IInv, HonestAccepted
<1> QED BY <1>2, <1>3, <1>4, <1>5 DEF IInv

\* The invariant is inductive.
LEMMA Inductive ==
    IInv /\ [Next]_vars => IInv'
<1> SUFFICES ASSUME IInv, [Next]_vars
             PROVE  IInv'
  OBVIOUS
<1>1. CASE RunOp
  BY <1>1, RunOpKeeps
<1>2. ASSUME NEW rec \in Records, ForgeRecord(rec)
      PROVE  IInv'
  BY <1>2, ForgeRecordKeeps
<1>3. CASE Seal
  BY <1>3, SealKeeps DEF Seal
<1>4. ASSUME NEW out \in Outputs, SealForged(out)
      PROVE  IInv'
  BY <1>4, SealKeeps DEF SealForged
<1>5. ASSUME NEW f \in Fields, Alter(f)
      PROVE  IInv'
  BY <1>5, AlterKeeps
<1>6. ASSUME NEW m \in ChallengeModes, Start(m) \/ StartSampled(m)
      PROVE  IInv'
  BY <1>6, StartKeeps, StartSampledKeeps
<1>7. CASE PickNext
  <2>1. ASSUME NEW i \in 0..(Cardinality(DenseIn(trace)) - 1), Pick(i)
        PROVE  IInv'
    BY <2>1, PickKeeps
  <2> QED BY <1>7, <2>1, EndPicksKeeps DEF PickNext
<1>8. CASE OpenSampled
  BY <1>8, OpenSampledKeeps
<1>9. CASE WalkNext
  <2>1. PICK r \in DrawnFor(trace[pos].op, Draws) : Walk(r)
    BY <1>9 DEF WalkNext
  <2>2. phase = "walk" /\ pos <= Len(trace)
    BY <1>9 DEF WalkNext
  <2> QED BY <2>1, <2>2, WalkKeeps
<1>10. CASE FinishWalk
  BY <1>10, FinishKeeps
<1>11. CASE UNCHANGED vars
  BY <1>11, StutterKeeps
<1> QED BY <1>1, <1>2, <1>3, <1>4, <1>5, <1>6, <1>7, <1>8, <1>9, <1>10, <1>11 DEF Next

LEMMA Initially ==
    Init => IInv
<1> SUFFICES ASSUME Init
             PROVE  IInv
  OBVIOUS
<1>1. IsList(<<>>) /\ Len(<<>>) = 0 /\ DOMAIN <<>> = {}
  <2>1. IsList(<<>>)
    BY <<>> \in Seq(Nat), ListOf
  <2> QED BY <2>1
<1>2. Len(Graph(model)) \in Nat
  BY GraphIs DEF Init
<1>3. Base
  BY <1>1, <1>2 DEF Init, Base
<1>4. Statement /\ Early /\ Walked /\ HonestAccepted
  BY DEF Init, Statement, Sealed, Early, Walked, HonestAccepted
<1>5. Source
  <2>1. mode.kind = "none"
    BY DEF Init
  <2> QED BY <2>1 DEF Init, Source
<1> QED BY <1>3, <1>4, <1>5 DEF IInv

LEMMA Invariance ==
    Spec => []IInv
<1>1. Init => IInv
  BY Initially
<1>2. IInv /\ [Next]_vars => IInv'
  BY Inductive
<1> QED BY <1>1, <1>2, PTL DEF Spec

(******************************* the theorems ******************************)
\* The honest artifact is accepted under every source of challenges, unless the
\* operand bound refuses it, a shift is out of range, a secret vector does not fit,
\* or an id names two tensors: prover and verifier run the same kernels over the
\* same tensors, and verify_with asks nothing else of what prove_feedforward seals.
THEOREM HonestTraceIsAccepted == Spec => []HonestAccepted
<1>1. IInv => HonestAccepted
  BY DEF IInv
<1> QED BY <1>1, Invariance, PTL

\* An accepted walk: what the gate found, and the whole trace behind it.
LEMMA AcceptedWalk ==
    ASSUME IInv, verdict = "ok"
    PROVE  /\ Base /\ Threaded /\ Audited /\ pos = Len(trace) + 1 /\ Len(trace) \in Nat
           /\ DOMAIN trace = 1..Len(trace) /\ pos - 1 = Len(trace)
           /\ DOMAIN trace = DOMAIN Tasks(model) /\ Len(trace) = Len(Graph(model))
           /\ \A i \in DOMAIN trace : /\ trace[i].op = Tasks(model)[i].op
                                      /\ trace[i].op = Graph(model)[i]
                                      /\ trace[i].input = CurrentAt(i)
           /\ claimed = CurrentAt(Len(trace) + 1)
           /\ pi.model = Header(model, input, claimed).model
           /\ pi.quant = Header(model, input, claimed).quant
<1>1. Base /\ Threaded /\ Audited /\ pos = Len(trace) + 1 /\ claimed = current
  BY DEF IInv, Walked
<1>2. GateResult = "ok"
  BY <1>1 DEF Threaded
<1>3. /\ pi.model = Header(model, input, claimed).model
      /\ pi.quant = Header(model, input, claimed).quant /\ Conforms
  BY <1>2 DEF GateResult
<1>4. Len(trace) \in Nat /\ DOMAIN trace = 1..Len(trace) /\ pos - 1 = Len(trace)
  BY <1>1, ListFacts DEF Base
<1>5. DOMAIN trace = DOMAIN Tasks(model) /\ Len(trace) = Len(Graph(model))
  BY <1>1, <1>3, <1>4, GraphIs DEF Conforms, Base
<1>6. ASSUME NEW i \in DOMAIN trace
      PROVE  /\ trace[i].op = Tasks(model)[i].op /\ trace[i].op = Graph(model)[i]
             /\ trace[i].input = CurrentAt(i)
  <2>1. trace[i].op = Graph(model)[i]
    BY <1>3 DEF Conforms, ConformsAt
  <2>2. trace[i].op = Tasks(model)[i].op
    BY <1>1, <1>5, <2>1, GraphIs DEF Base
  <2>3. trace[i].input = CurrentAt(i)
    BY <1>1, <1>4 DEF Threaded
  <2> QED BY <2>1, <2>2, <2>3
<1>7. claimed = CurrentAt(Len(trace) + 1)
  BY <1>1 DEF Threaded
<1> QED BY <1>1, <1>3, <1>4, <1>5, <1>6, <1>7

\* verify_sampled returns the number of dense ops that it checked: a sample names
\* cursors of dense records, and the walk passes every one of them.
THEOREM CoverageIsExact == Spec => []CoverageReported
<1>1. IInv => CoverageReported
  <2> SUFFICES ASSUME IInv, verdict = "ok", mode.kind = "Sampled"
               PROVE  Cardinality(audited \cap DenseIn(trace)) = Cardinality(mode.sample)
    BY DEF CoverageReported
  <2>1. PICK n, c : n = Len(trace) /\ c = Cardinality(DenseIn(trace))
    OBVIOUS
  <2>2. Base /\ Threaded /\ Audited /\ pos = n + 1 /\ DOMAIN trace = 1..n /\ n \in Nat
    BY <2>1, AcceptedWalk
  <2>3. DenseBefore(pos) = DenseIn(trace)
    <3>1. \A i \in DOMAIN trace : i < n + 1
      BY <2>2
    <3> QED BY <2>2, <3>1 DEF DenseBefore, DenseIn
  <2>4. cursor = c
    BY <2>1, <2>2, <2>3 DEF Threaded
  <2>5. mode.sample \cap 0..(c - 1) = mode.sample
    BY <2>1 DEF IInv, Source
  <2> QED BY <2>2, <2>4, <2>5 DEF Audited
<1> QED BY <1>1, Invariance, PTL

\* No forged record survives a check: what is accepted with one was luck, or the
\* record is a dense one outside the sample.  Up to it the trace is the model's own
\* run from the public history, so a check of it compares with what RunTask computes.
THEOREM ForgeryIsCaught == Spec => []ForgeryCaught
<1>1. IInv => ForgeryCaught
  <2> SUFFICES ASSUME IInv, verdict = "ok", ~fooled, OwnIds(model), History = input,
                      NEW i \in forged
               PROVE  i \notin audited /\ i \in DenseIn(trace)
    BY DEF ForgeryCaught
  <2>1. PICK n : n = Len(trace)
    OBVIOUS
  <2>2. /\ Base /\ Audited /\ pos - 1 = n /\ n \in Nat /\ DOMAIN trace = 1..n
        /\ DOMAIN trace = DOMAIN Tasks(model)
    BY <2>1, AcceptedWalk
  <2>3. i \in 1..n /\ i \in DOMAIN trace /\ ~Honest(i)
    BY <2>2 DEF Base
  <2>4. i \notin audited
    <3> SUFFICES ASSUME i \in audited
                 PROVE  Honest(i)
      BY <2>3
    <3>1. PICK rec : rec = trace[i]
      OBVIOUS
    <3>2. Checked(rec) /\ IsList(rec.input) /\ IsList(rec.output)
      BY <2>2, <2>3, <3>1 DEF Audited, Base, RecordTyped
    <3>3. /\ rec.op = Tasks(model)[i].op /\ rec.op = Graph(model)[i] /\ rec.input = CurrentAt(i)
      BY <2>3, <3>1, AcceptedWalk
    <3>4. CurrentAt(i) = TipAt(i)
      BY DEF CurrentAt, TipAt
    <3>5. OpOK(rec.op, Binds(model)) /\ \A x : RunTask(model, i, x) = Apply(rec.op, x, Binds(model))
      BY <2>2, <2>3, <3>3, OwnRuns DEF Base
    <3>6. /\ Apply(rec.op, rec.input, Binds(model)).err = "ok"
          /\ rec.output = Apply(rec.op, rec.input, Binds(model)).out
      BY <2>2, <2>3, <3>2, <3>3, <3>5, CheckedRight DEF Base
    <3>7. RunTask(model, i, TipAt(i)) = Apply(rec.op, rec.input, Binds(model))
      BY <3>3, <3>4, <3>5
    <3>8. rec = Rec(rec.op, rec.input, rec.output)
      BY <2>2, <2>3, <3>1 DEF Base, RecordTyped
    <3> QED BY <3>1, <3>3, <3>4, <3>6, <3>7, <3>8 DEF Honest
  <2>5. IsLinear(trace[i].op)
    BY <2>2, <2>3, <2>4 DEF Audited
  <2> QED BY <2>3, <2>4, <2>5 DEF DenseIn
<1> QED BY <1>1, Invariance, PTL

(***************************** the committed model *************************)
\* A model runs through the activations h, its ops failing nowhere.
RunsThrough(m, h) ==
    \A n \in 1..Len(Graph(m)) :
        RunTask(m, n, h[n - 1]).err = "ok" /\ h[n] = RunTask(m, n, h[n - 1]).out

\* The recursion of RunOf has one solution along such activations.
LEMMA RunsAlong ==
    ASSUME NEW m, Len(Graph(m)) \in Nat, NEW h, RunsThrough(m, h)
    PROVE  RunOf(m, h[0]) = << h[Len(Graph(m))] >>
<1> DEFINE N == Len(Graph(m))
           K(n, x) == RunTask(m, n, x)
           State(n) == << h[n] >>
           Step(r, n) == IF n = 0 THEN << h[0] >>
                         ELSE IF r[n - 1] = <<>> THEN <<>>
                         ELSE IF K(n, r[n - 1][1]).err = "ok" THEN << K(n, r[n - 1][1]).out >> ELSE <<>>
           Eq(r) == r = [n \in 0..N |-> Step(r, n)]
           run == CHOOSE r : Eq(r)
           f == [n \in 0..N |-> State(n)]
<1>1. RunOf(m, h[0]) = run[N]
  BY DEF RunOf
<1>2. ASSUME NEW n \in 1..N, NEW r, r[n - 1] = State(n - 1)
      PROVE  Step(r, n) = State(n)
  <2>1. r[n - 1] # <<>> /\ r[n - 1][1] = h[n - 1]
    BY <1>2
  <2>2. K(n, h[n - 1]).err = "ok" /\ h[n] = K(n, h[n - 1]).out
    BY DEF RunsThrough
  <2>3. n # 0
    OBVIOUS
  <2> HIDE DEF K
  <2> QED BY <2>1, <2>2, <2>3
<1>3. Step(f, 0) = State(0) /\ \A r : Step(r, 0) = State(0)
  OBVIOUS
<1> HIDE DEF Step, State
<1>4. Eq(f)
  <2>1. ASSUME NEW n \in 0..N
        PROVE  State(n) = Step(f, n)
    <3>1. CASE n = 0
      BY <1>3, <3>1
    <3>2. CASE n # 0
      <4>1. n \in 1..N /\ n - 1 \in 0..N
        BY <3>2
      <4>2. f[n - 1] = State(n - 1)
        BY <4>1
      <4> HIDE DEF f
      <4> QED BY <1>2, <4>1, <4>2
    <3> QED BY <3>1, <3>2
  <2> QED BY <2>1
<1>5. Eq(run)
  <2> HIDE DEF Eq, f
  <2> QED BY <1>4
<1> HIDE DEF run
<1> DEFINE S == { n \in Nat : n <= N => run[n] = State(n) }
<1>6. 0 \in S
  BY <1>3, <1>5
<1>7. ASSUME NEW n \in Nat, n \in S
      PROVE  n + 1 \in S
  <2>1. SUFFICES ASSUME n + 1 <= N PROVE run[n + 1] = State(n + 1)
    BY <1>7
  <2>2. n + 1 \in 1..N /\ n + 1 \in 0..N /\ (n + 1) - 1 = n
    BY <2>1
  <2>3. run[n] = State(n)
    BY <1>7, <2>1
  <2>4. Step(run, n + 1) = State(n + 1)
    BY <1>2, <2>2, <2>3
  <2>5. run[n + 1] = Step(run, n + 1)
    BY <1>5, <2>2
  <2> QED BY <2>4, <2>5
<1>8. \A n \in Nat : n \in S
  <2> HIDE DEF S
  <2> QED BY <1>6, <1>7, SetInduction
<1> QED BY <1>1, <1>8 DEF State

\* The commitments that the header compares bind the graph and what every lookup of
\* a weight or a table finds.
LEMMA HeaderBinds ==
    ASSUME NEW m \in Models, NEW k \in Models, NEW x, NEW y, NEW u, NEW v,
           Header(m, x, y).model = Header(k, u, v).model, Header(m, x, y).quant = Header(k, u, v).quant
    PROVE  /\ Graph(m) = Graph(k)
           /\ Alike(Binds(m).weights, Binds(k).weights) /\ Alike(Binds(m).tables, Binds(k).tables)
<1>1. /\ Graph(m) = Graph(k) /\ WeightsRoot(WeightTensors(m)) = WeightsRoot(WeightTensors(k))
  BY DEF Header, ModelCommitment, GraphCommitment, Commit32
<1>2. SortedById(m.tables) = SortedById(k.tables)
  BY DEF Header, QuantCommitment, TablesCommitment, Commit32
<1>3. Alike(WeightTensors(m), WeightTensors(k))
  BY <1>1, BindsTyped, WeightsRootBinds
<1>4. Alike(m.tables, k.tables)
  BY <1>2, BindsTyped, SortedAlike
<1> QED BY <1>1, <1>3, <1>4 DEF Binds

\* The statement of verify: an accepted artifact claims what every model with the
\* committed architecture, weights and tables computes from the public history,
\* unless a dense record was lucky or was left out of the sample.  The artifact's
\* own model is another that the commitments cannot tell from it.
THEOREM CommittedModelIsRun == Spec => []CommittedModelRan
<1>1. IInv => CommittedModelRan
  <2> SUFFICES ASSUME IInv, verdict = "ok", ~fooled, audited = DOMAIN trace, NEW m \in Models, OwnIds(m),
                      Header(m, <<>>, <<>>).model = pi.model, Header(m, <<>>, <<>>).quant = pi.quant
               PROVE  RunOf(m, History) = << claimed >>
    BY DEF CommittedModelRan
  <2>1. PICK n : n = Len(trace)
    OBVIOUS
  <2>2. /\ Base /\ Audited /\ n \in Nat /\ DOMAIN trace = 1..n /\ Len(Graph(model)) = n
        /\ DOMAIN trace = DOMAIN Tasks(model) /\ claimed = CurrentAt(n + 1)
        /\ pi.model = Header(model, input, claimed).model
        /\ pi.quant = Header(model, input, claimed).quant
    BY <2>1, AcceptedWalk
  <2>3. /\ Graph(m) = Graph(model)
        /\ Alike(Binds(m).weights, Binds(model).weights) /\ Alike(Binds(m).tables, Binds(model).tables)
    BY <2>2, HeaderBinds DEF Base
  <2> DEFINE h == [k \in 0..n |-> CurrentAt(k + 1)]
  <2>4. ASSUME NEW i \in 1..n
        PROVE  RunTask(m, i, CurrentAt(i)).err = "ok" /\ CurrentAt(i + 1) = RunTask(m, i, CurrentAt(i)).out
    <3>1. PICK rec, op : rec = trace[i] /\ op = rec.op
      OBVIOUS
    <3>2. Checked(rec) /\ IsList(rec.input) /\ IsList(rec.output)
      BY <2>2, <3>1 DEF Audited, Base, RecordTyped
    <3>3. op = Tasks(model)[i].op /\ op = Graph(model)[i] /\ rec.input = CurrentAt(i)
      BY <2>2, <3>1, AcceptedWalk
    <3>4. i \in DOMAIN Tasks(m) /\ op = Tasks(m)[i].op
      <4>1. DOMAIN Graph(m) = DOMAIN Graph(model)
        BY <2>3
      <4>2. DOMAIN Graph(m) = DOMAIN Tasks(m) /\ DOMAIN Graph(model) = DOMAIN Tasks(model)
        <5>1. model \in Models
          BY <2>2 DEF Base
        <5>2. DOMAIN Graph(model) = DOMAIN Tasks(model)
          BY <5>1, GraphIs
        <5>3. DOMAIN Graph(m) = DOMAIN Tasks(m)
          BY GraphIs
        <5> QED BY <5>2, <5>3
      <4>3. i \in DOMAIN Graph(m)
        BY <2>2, <4>1, <4>2
      <4> QED BY <2>3, <3>3, <4>2, <4>3, GraphIs
    <3>5. /\ RunTask(m, i, CurrentAt(i)) = Apply(op, CurrentAt(i), Binds(m)) /\ OpOK(op, Binds(m))
      BY <3>4, OwnRuns
    <3>6. op.kind \in Kinds /\ (IsLinear(op) => op.bias \in Seq(Range(op.bias)))
      BY <3>4, GraphOp DEF OpTyped
    <3>7. LinearAlike(op, Binds(m), Binds(model))
      BY <2>3 DEF Alike, LinearAlike
    <3>8. OpOK(op, Binds(model))
      <4>1. CASE IsLinear(op)
        <5>1. /\ BiasMissing(op, Binds(m)) <=> BiasMissing(op, Binds(model))
              /\ Has(Binds(m).weights, op.weight) =>
                    /\ WeightOf(op, Binds(m)) = WeightOf(op, Binds(model))
                    /\ ~BiasMissing(op, Binds(m)) => Bias(op, Binds(m)) = Bias(op, Binds(model))
          BY <3>6, <3>7, <4>1, AlikeLinear
        <5>2. Has(Binds(m).weights, op.weight) <=> Has(Binds(model).weights, op.weight)
          BY <2>3 DEF Alike
        <5> QED BY <3>5, <5>1, <5>2 DEF OpOK
      <4>2. CASE ~IsLinear(op)
        BY <3>5, <4>2 DEF OpOK
      <4> QED BY <4>1, <4>2
    <3>9. /\ Apply(op, rec.input, Binds(model)).err = "ok"
          /\ rec.output = Apply(op, rec.input, Binds(model)).out
      <4>1. /\ model \in Models /\ i \in DOMAIN Tasks(model) /\ rec.op = Tasks(model)[i].op
            /\ OpOK(rec.op, Binds(model))
        BY <2>2, <3>1, <3>3, <3>8 DEF Base
      <4>2. /\ Apply(rec.op, rec.input, Binds(model)).err = "ok"
            /\ rec.output = Apply(rec.op, rec.input, Binds(model)).out
        BY <3>2, <4>1, CheckedRight
      <4> QED BY <3>1, <4>2
    <3>10. Apply(op, CurrentAt(i), Binds(m)) = Apply(op, CurrentAt(i), Binds(model))
      <4>1. PICK b : b = [k \in {0} |-> CurrentAt(i)]
        OBVIOUS
      <4>2. Kernel(op, b, Binds(m)) = Kernel(op, b, Binds(model))
        BY <2>3, <3>6, <3>7, AlikeKernel
      <4> QED BY <4>1, <4>2 DEF Apply
    <3>11. CurrentAt(i + 1) = rec.output
      <4>1. i + 1 # 1 /\ (i + 1) - 1 = i
        BY <2>2
      <4> QED BY <3>1, <4>1 DEF CurrentAt
    <3> QED BY <3>3, <3>5, <3>9, <3>10, <3>11
  <2>5. RunsThrough(m, h)
    <3>1. Len(Graph(m)) = n
      BY <2>2, <2>3
    <3>2. ASSUME NEW i \in 1..n
          PROVE  h[i - 1] = CurrentAt(i) /\ h[i] = CurrentAt(i + 1)
      <4>1. i - 1 \in 0..n /\ i \in 0..n /\ (i - 1) + 1 = i
        BY <2>2
      <4> QED BY <4>1
    <3> HIDE DEF h
    <3> QED BY <2>4, <3>1, <3>2 DEF RunsThrough
  <2>6. h[0] = History /\ h[n] = claimed
    <3>1. 0 \in 0..n /\ n \in 0..n /\ 0 + 1 = 1
      BY <2>2
    <3>2. h[0] = CurrentAt(1) /\ h[n] = CurrentAt(n + 1)
      BY <3>1
    <3>3. CurrentAt(1) = History
      BY DEF CurrentAt
    <3> QED BY <2>2, <3>2, <3>3
  <2>7. Len(Graph(m)) = n
    BY <2>2, <2>3
  <2> HIDE DEF h
  <2>8. RunOf(m, h[0]) = << h[Len(Graph(m))] >>
    BY <2>2, <2>5, <2>7, RunsAlong
  <2> QED BY <2>6, <2>7, <2>8
<1> QED BY <1>1, Invariance, PTL
=============================================================================
