---------------------------- MODULE Commitments -----------------------------
(***************************************************************************)
(* The commitments of pwm-core (commit.rs, block.rs, tables.rs).  A hash   *)
(* is the term it hashes: a domain tag with its payload, or a Merkle node  *)
(* with its two children, so that two commitments are equal exactly when   *)
(* what is hashed is, as for a collision-free hash over an injective       *)
(* encoding.  What the code does before it hashes (sorting, padding an odd *)
(* level, clearing outputs, leaving a field out) is modelled in full.      *)
(***************************************************************************)
EXTENDS BlockOps, Merkle

Commit32(tag, payload) == <<tag, payload>>

\* sort_by_key is stable: an entry goes after every entry it does not precede.
SortedById(list) ==
    LET place(i) == Cardinality({ j \in DOMAIN list :
                        list[j].id < list[i].id \/ (list[j].id = list[i].id /\ j <= i) })
    IN  [k \in DOMAIN list |-> list[CHOOSE i \in DOMAIN list : place(i) = k]]

WeightsRoot(weights) ==
    LET sorted == SortedById(weights)
    IN  MerkleRoot("wnode", [i \in DOMAIN sorted |-> <<"wleaf", sorted[i]>>])

TablesCommitment(tables) == Commit32("table", SortedById(tables))

\* The root over the ops with their outputs cleared; an op record here holds no
\* output.  Neither input_bufs nor output_buf is among the leaves.
BlockArchitectureCommitment(ops) == MerkleRoot("bnode", [i \in DOMAIN ops |-> <<"bleaf", ops[i]>>])

\* The graph is hashed as one length-prefixed list, not as a tree.
GraphCommitment(ops) == Commit32("graph", ops)

(***************************** statement bindings **************************)
ModelCommitment(architecture, weights) == Commit32("model", << architecture, WeightsRoot(weights) >>)

QuantCommitment(scales, tables) == Commit32("quant", << scales, TablesCommitment(tables) >>)

\* The all-zero planner configuration of a statement without a planner.
PlannerSentinel == Commit32("planner", <<0, 0, 0, 0>>)

InputsCommitment(inputs) == Commit32("pinput", inputs)

OutputCommitment(values) == Commit32("output", values)
=============================================================================
