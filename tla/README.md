# ProvableWorldModel: a TLA+ verification project

ProvableWorldModel proves that a quantized world model (a predictor of latents) was run as committed.
The scheme is commit-and-audit: the prover writes down every intermediate value of an exact integer
run, the statement binds the model, its tables, the inputs and the output by hash commitments, and the
verifier recomputes every cheap operation and checks every dense layer with Freivalds' equation under a
challenge drawn after the claims are fixed.  This directory holds TLA+ models of that protocol and of
the arithmetic below it, the TLC configurations that check them, and TLAPS proofs.

Paths below are relative to the repository; `V` is `crates/pwm-verifier/src/lib.rs`, `P` is
`crates/pwm-prover/src/lib.rs`, and `core/x.rs` is `crates/pwm-core/src/x.rs`.

## 1. Inventory

| Part | State and operations | Hard behaviour | What makes it correct |
|---|---|---|---|
| Fixed point (`core/field.rs`, `fixed_point.rs`, `limb.rs`) | `BoundedInt` values with declared bounds; `add`, `sub`, `mul`, `accumulate`, comparison witnesses, limb selection and decomposition, `requantize` | boundary cells, bounds that escape while the value does not | arithmetic over encodings never wraps; what overflows one cell is decomposed exactly |
| Freivalds audit (`core/freivalds.rs`, V `check_linear`) | claim, challenge `r`, `v = r^T W`, verdict | congruence against equality, `as i8`, the order claim-then-challenge | honest claims pass; a wrong one passes for at most 1/p of the challenges |
| Kernels and tables (`core/predictor.rs`, `tables.rs`) | pure functions | three rounding rules, table domains, row-major indexing | one definition on both sides |
| Named-buffer block (`core/block.rs`, P `prove_block`, V `audit_block`) | buffer maps of prover and verifier, claimed outputs, position | overwritten buffers, twelve op kinds with their own early returns, two implementations of the same rules | an accepted block is what a trusted evaluator computes |
| Commitments (`core/commit.rs`, `graph.rs`, `trace.rs`, `tables.rs`) | hashes | what is sorted, padded, cleared or left out before hashing | equal commitments mean equal models |
| Predictor statement (P `prove_predictor`, V `verify_predictor`) | artifact, public input | a field that is not compared | the committed model ran on the committed inputs |
| Feed-forward statement (`pwm-export/src/reference.rs`, P `prove_feedforward`, V `verify_with`) | trace, graph, public history; challenge source with a cursor | four challenge modes, sampled coverage, ids that name two tensors | same, and forgeries survive only where a mode says so |
| Planning (`core/planning.rs`, P `prove_planning`, V `verify_planning`, `verify_planning_batched`) | candidates, costs, selection | ties, overflow, a goal of another length; a faster verifier that shares one model's weights and falls back | the selection is the first candidate of least true cost; both verifiers agree |
| Rollout (P `prove_rollout`, V `verify_rollout`) | latents, window, trajectory | flattened windows of ragged latents, a horizon the verifier does not know | the trajectory is the model fed with itself |
| CEM step (`core/planning.rs`) | candidates, costs, elite, next mean and variance | ties at the cut, k beyond the count, a shortened candidate set, two roundings | the elite is the k cheapest, replay fixes the candidates, the update stays within the elite's spread |
| Serialization (`core/serialize.rs` and the types' own encodings) | byte strings, a reader with a position | damaged, cut and extended bytes, truncating casts | every value has one encoding and every other byte string is refused |
| Manifest (`core/manifest.rs`) | one record with its own hash; `seal_self_hash`, `validate` | edits after sealing, a hash that covers its own record | what is accepted is what was sealed |
| Transcript (`core/transcript.rs`, `core/audit.rs`) | a state, absorbs and squeezes | absorb order, successive squeezes | a challenge depends on the statement and on every record, and is drawn once |
| Le-wm predictor (`pwm-export/src/predictor_quant.rs`, `pwm-testkit/src/lewm_predictor.rs`) | a scheme of fracs, a builder of ops over flat buffers | offsets of heads, thirds and positions; shifts that are differences of fracs; table domains | the ops compute the forward pass, at the declared scales, for every int8 input |
| Calibration, Python pipeline | floating-point calibration, files | none over time | not modelled (section 8) |
| Test kit, CLI, observability, Lean, website, CI | fixtures, formatting, pages | none of its own | not modelled |

Parts interact by calls only: `prove_predictor` calls `prove_block`; `verify_predictor` calls
`audit_block`; planning and rollout call `prove_feedforward` and `verify` once per candidate or step; the builder of the le-wm circuit
hands its block to `prove_predictor`.
Prover and verifier share nothing but the artifact.  There are no threads, no persisted state and no
retries; the adversary is a prover, or a carrier of the artifact, that may put anything in it.

`PROJECT.json` lists the components, the hazards at their lines and, for every definition, the source
lines it stands for.

## 2. Modules

```
Rounding   Sums              Kernels = Rounding + Freivalds        FixedPoint
              \             /
               Freivalds --        BlockOps = Kernels + lookups + the audit of one op
               |                      |              \             \
           LinearAudit            BlockEval    Commitments     PredictorGraph
                                      |         (+ Merkle)
                                  BlockAudit ---- Predictor   TraceAudit

StepProofs -> Planning -> BatchedPlanning    StepProofs -> Rollout

BoundedArith = FixedPoint + a chain of operations        Cem = Rounding + Sums + a CEM step

Codec -> Schemas (+ Merkle) -> Transcript -> Wire -> Manifest

SumsProofs -> KernelProofs -> ArithmeticProofs (BoundedArith, LinearAudit), PredictorProofs (BlockAudit, Predictor),
                              TraceAuditProofs, PredictorGraphProofs
SumsProofs -> PlanningProofs (BatchedPlanning, Cem), RolloutProofs
```

**Operators.** `Rounding`, `FixedPoint`, `Sums`, `Freivalds` and `Kernels` translate the pure functions
of `pwm-core`.  Sums are recursive functions (`SumTo`), so proofs can use them.  `BlockOps` has one
kernel per op kind (an arm of `prove_block`: its lookups and length checks, in order, with their
errors) and the audit of one op (an arm of `audit_block`).  An op record holds the buffers it reads,
`args`, and its parameters; its claimed output is kept apart, as the code's skeleton keeps it empty.
`Commitments` builds commitments as terms, with the Merkle roots of `Merkle`.

**`BoundedArith`.** State: the accumulator `acc`, the same chain over field encodings `residue`
(history), the operation that overflowed, the escaped value and bound, the selected representation and
the limbs.  `Add`, `Sub`, `Mul` are the methods of `BoundedInt` as `accumulate` and the exporters chain
them; `SelectRepr` is `select_accum_repr`; `DecomposePending` is `decompose`.

**`LinearAudit`.** One dense layer: `Commit` (an honest claim or any other), `DrawChallenge`
(`weight_i8` and `linear_step`), `CheckLinear`.

**`BlockAudit`.** `ProveOp`/`ProveFail` are one iteration of `prove_block`, `ForgeOp` a prover that
claims something else and goes on from it, `Commit` the absorbed block root, `AuditStep`/`AuditReject`
one iteration of `audit_block`, `Finish` the final buffer read.  `prove_block` does not check a shift;
past `MAX_SHIFT` the divisor depends on the build, so `UsedShifts` chooses any.  `BlockEval` is the
abstract specification: a trusted evaluator that runs the kernels in order and may give up.

**`Predictor`** extends `BlockAudit`: `Bind`/`BindFail`/`BindForged` build the artifact, `Alter` changes
one header field on the way (of `Fields`: those the verifier reads and the seven it does not), `Gate`, the block's audit,
and `CheckOutput` are `verify_predictor`.
`stated` is the program the public input commits to, `prog` the one the artifact carries.

**`TraceAudit`.** `RunOp` is one op of `Model::run`; `ForgeRecord`, `SealForged`, a `stated` model other
than the one that ran, and `Alter` are the dishonest choices; `Start` picks the challenge source and runs
the gate; `WalkNext` checks one record; `FinishWalk` compares the output.  `verify_sampled` first draws its sample: `Pick` is
one turn of its loop, `EndPicks` the loop's condition, `OpenSampled` the call of `verify_with`.  The sources are `Fiat`
(`verify`), `Secret` (`verify_interactive`, a cursor into vectors of given lengths), `Sampled`
(`verify_sampled`, any sample the picks can give) and `Batched` (one shared vector per weight).

**`Planning`, `Rollout`** work over `StepProofs`, where an artifact is `[model, input, output]` and
`Verified` is what `TraceAudit` shows of `verify`: the output is what the artifact's own model computes.
A dishonest prover adds any artifact, cost, latent or selection.

**`BatchedPlanning`** calls `verify_planning_batched` on the proof that `verify_planning` has answered.  `FallBack` is
its call of `verify_planning`, `PrepareFails` and `Prepare` read the weights of the first candidate, and `Audited` checks every
candidate against that model, as the code does with `rmap` and `vmap`.

**`Codec`, `Schemas`, `Wire`.** `Codec` describes a type by a record (a width, an option of a type, a list, a
struct as its fields in order) and has one encoder and one decoder over these, with the errors of
`DecodeError`.  `Schemas` is the schedule of every type that is written: the artifact with its public input,
graph and trace, the demo's predictor proof, the manifest.  `Wire` writes one document (`Write`), changes its
bytes (`Alter`, `Cut`, `Extend`: the carrier) and reads them (`Read`, `from_canonical_bytes`).  The descent is
recursive, so these modules, `Transcript` and `Manifest` are TLC's only.

**`Transcript`** has the duplex of `core/transcript.rs` with the hash as a term: a state is the sequence of what was absorbed,
and a draw is the state it is expanded from.  Over it stand the transcripts of `verify`, `verify_sampled` and
`verify_planning_batched`, fed with the encoded public input and the encoded records.

**`Manifest`** extends `Wire`: a manifest is sealed (`Seal`, `seal_self_hash`) and edited (`Edit`, any change of the public fields
that keeps the stored hash) in memory, written, carried, read, and what was read is validated (`Validate`, the rules of
`validate` in their order).  The self-hash is over the encoded bytes of the record with the hash zeroed, so what it binds
is what the encoding separates.

**`PredictorGraph`.** `Derive` turns a scheme into shifts (`derive`, with its refusals), `Build` lays out the ops
(`build_predictor_real`, one operator per method of `Builder`), `RunOp` runs and audits one of them.  The builder numbers its
buffers in turn; the model names a buffer for the value it holds, which no op depends on.  `Forward` is the forward pass
of `float_forward` over the integer kernels, without buffers: every matrix is built row by row, each row from the
row of the position it belongs to (`SublayerRow`, `GatedRow`, `HiddenRow`) or from the rows of all positions (`ScoreRow`, `ValueRow`),
and the stream goes from block to block (`Streams`).  The history variable `fracs` holds
the frac of every buffer written so far, computed from the ops and from the scales declared for the weights.

**`Cem`.** `Sample` and `ForgeSample` give the candidates, `Replay` is `verify_cem_sample`, `Score` any costs, `SelectElite`
the honest elite or any list, `Check` is `verify_topk`, `Update` is `cem_mean` and `cem_var`.  The hash is any
function of candidate and dimension.  No caller in the workspace chains these functions yet; the order is the one of
their comments.

The operators marked "Mutant" in the modules are changed forms of the definition that follows them; they are
used by no specification.  Each is a bug one of the properties is there to find.

## 3. Runs

| Configuration | Question | Bounds |
|---|---|---|
| `BoundedArith` | can a chain wrap, does every overflow decompose? | field of 15 elements, all splits `0..4`, operands with constant, one-sided and extreme bounds; chains of any length |
| `LinearAudit` | completeness, guard, soundness error of one layer | p = 13, operand bound 3, weights of two bits; challenges counted over all of the field |
| `BlockAudit` | what does acceptance mean, do the two sides agree? | p = 29, bound 6; four workloads covering all twelve op kinds and one-op programs for every early return; two forged claims, values that alias modulo p included |
| `Predictor` | is each part of the artifact bound? | artifacts differing in one part: inputs, weight order, weight cells, table, scales, op ids, in-place buffers, shift past the limit, an unwritten output; any of the header fields that are read, or one of the seven that are not, changed (`MayAlter`) |
| `PredictorRepeatedOp` | does the architecture commitment bind the whole block? (no) | a block of three ops and the same with its last repeated |
| `TraceAudit` | same for traces, in the four challenge modes | eleven models of at most two layers, one dishonest choice, samples of 0 to 2 with at most two picks, five shapes of secret vectors |
| `Planning` | is the selection sound, and do both verifiers agree? | three models, one with a weight that no check can use, three inputs, cost limit 8, two forged candidates; requests of up to three |
| `Rollout` | is the trajectory the model's? | two models on pairs over 0..2, ragged latents, windows 0 to 2, horizons 0, 1, 3, two forged steps |
| `Wire` | does a document survive the way, has it one encoding, is an accepted manifest the sealed one, are the challenges those of what was sent? | bytes in base 32, a u32 of one byte, a u64 of two; documents with every op kind, every shape of option and a manifest for each rule, traces of one to eight records that repeat their last ones; one edit; one or two changes anywhere by three byte values |
| `WireShift` | is every non-canonical encoding refused? (no) | the artifacts of `Wire`, one change |
| `Cem` | are replay, selection and update right? | three candidates in two dimensions, all hashes over two words, all costs over two values, elites of 0, 2 and 3, all selections of up to three |
| `PredictorGraph` | does the circuit compute the model, at the declared scales? | int8 scaled to -8..7; two blocks of two heads over two positions, one block of one head of four values over three; two schemes with fracs of their own at every site, schemes that `derive` refuses or panics on, and schemes with a shift, a GELU entry or exp(0) at the limit and past it; inputs at both ends of int8 and of other lengths, weights of other shapes |

The bounds are enough for the cases that matter to happen: p is small, so an accumulator off by p is
within reach of a claim; the operand bound and the margin are placed as in the code (the widest admitted
layer is two columns for p = 13); claims include the aliases of true values; every error of either side
is reached by some program; a forged value flows through later ops.  In `Planning` the cost limit is crossed
by one candidate; in `Rollout` two ragged histories flatten to the same window.  In `Wire` a damaged length swallows the
following fields, a residue at p and a bound past the signed range are one byte away; in `Cem` three
candidates always share a cost and a shortened claim is smaller than the elite.

In `PredictorGraph` two heads and two positions tell the order of a join apart, and rows that alternate between the ends of int8
reach past the square of one of them in the inverse-sqrt table.

Every system here stops: a prover fails or sends, a verifier returns.  So the configurations do not check
for deadlock.

**Fairness.** The code is sequential calls; what makes them go on is that a running call waits for nobody.  Fairness is assumed
of calls only, weakly, and never of a prover or a carrier, who may stop anywhere:

* `TraceAudit`: `WF_vars(PickNext)`, the loop of `verify_sampled`.  It holds for `Pick` as a whole and says nothing of which
  index is drawn, so the transcript may repeat one forever; `PickingEnds` holds by the loop's guard alone.
* `BatchedPlanning`: `WF` of `Verify` and of `VerifyBatched`, the two verifiers.  `BothAnswer` then says that a proof that was handed
  over is answered by both.

### What the runs show

* `NoWrap`, `PendingEnclosed`, `TwoLimbRoundTrip`, `OverflowNeedsLimbs`: overflow is rejected on the bound,
  before the encoded arithmetic could differ from the integers, and the limb path represents what was rejected.
* `HonestNeverFailsEquation`, `CongruenceImpliesEquality`, `FewFoolingChallenges`: the three claims of
  `core/freivalds.rs`, for weights in the symmetric range.  The last one bounds, for each wrong accumulator, the share of the
  challenges that pass it by 1/p.
* `Evaluates` (refinement), `ForgeryCaught`, `HonestAccepted` of `BlockAudit`: acceptance implies evaluation by
  the exact kernels, except for a dense claim another challenge would have caught (`fooled`); an honest
  block is refused only for the operand bound, a shift past the limit, or an output buffer that does not exist.
* `CommittedModelRan`, `HeaderBound`, `HonestPredictorAccepted`: over the artifacts of `MCPredictor`.  The
  instance leaves out the two ambiguities of the architecture commitment below.  `HeaderBound` is about the artifact's version and the
  seven public-input fields that `verify_predictor` reads (`ReadFields`); the other seven (`latent_history_public`,
  `goal_latent_commitment`, `goal_latent_public`, `candidate_actions_commitment`, `candidate_actions_public`, `selected_index`,
  `selected_cost`) may say anything in an accepted artifact; the instance changes one of them.
* `CommittedModelRan`, `ForgeryCaught`, `HonestAccepted`, `CoverageReported` of `TraceAudit`, under all four
  modes, and `PickingEnds`: with an ideal transcript that repeats itself the sample stays smaller than asked for, and the number
  that `verify_sampled` returns is the number it checked.  Where an id names two tensors (`OwnIds` fails) the honest artifact may be refused.
  `ForgeryCaught` speaks of a trace whose input is the public history: one whose first record was forged from another input passes when
  the public history is altered to that input, and rightly so, for it is then a true trace of the statement.
* `SelectionSound`, `HonestPlanAccepted`: an accepted plan picks the first cheapest candidate, and the honest plan
  passes.  `TrajectorySound`, `HonestRolloutAccepted`: the same for trajectories, step by step.
* `SameVerdict`, `BothAnswer`: `verify_planning_batched` accepts what `verify_planning` accepts and refuses the rest for the same
  reason, but for a weight that is missing, which it meets before it names a candidate.
* `RoundTrip`, `CanonicalButShifts`: decoding undoes encoding, and re-encoding gives the bytes back but for the high
  half of a shift.
* `SealBinds`, `SealHolds`: no edit after the last seal and no change on the way is accepted, and a manifest that arrives as it was
  sealed is not refused for its hash.
* `ChallengesBind`: the receiver's audit transcript is that of an artifact that may have been sent exactly when the public input is
  equal and the records are, once both lists are padded as `trace_root` pads them: it repeats the odd last node of every level, so
  [a, b, c] and [a, b, c, c] have one transcript, [a] and [a, a] have two.  No two draws of one audit are expanded from one state; the batched challenges depend on the records alone, not on the
  statement, which each candidate's gate compares by itself.
* `ScalesMeet`, `RunsToTheEnd`, `OutputIsForward`: every op gets operands at the fracs it takes them to be at, the residual
  stream and the output keep their declared scales, nothing leaves a table, and the output is the forward pass.
  `RunsToTheEnd` is for every int8 input and every scheme that is built *within limits `derive` does not check*: every shift is at most `MaxShift`
  (`ShiftsUsable`; `derive` refuses negative shifts only), the operands and the row sums of the linears are within `Bound`, the entries
  of the GELU table included, which nothing clamps (`LinearsFit`; at the sizes of the predictor only a GELU table with f_g2
  well above f_g1 is too large), and exp(0) does not round to zero (`ExpFits`).  `calibrate` aims at the first by a cap of 12 on its fracs "so
  near-zero sites cannot blow the downstream requant shifts past the `MAX_SHIFT` guard" (`predictor_quant.rs:595-597`) and meets the third
  with f_e = 15; nothing ties f_g2 to f_g1.  A scheme outside any of the three is built and its run may fail.  The instance has such schemes: without any one of the
  three conditions the property is violated.  The second part says that a block with an unusable shift is never accepted.  The lengths of the two
inputs are checked by no guard of their own but by the linear of the modulation and by the first residual, so `OutputIsForward` says that they cover
every position where there is a block; with none, the final norm reads as many rows as there are positions and ignores the rest.
* `SampledPrefix`, `EliteSound`, `HonestElite`, `UpdateBounded`.  A claimed candidate set may be shorter than the
  planner's; what the verifier then knows is that it is the beginning of the honest one.

### Where the code and its documentation differ

Two runs end in a violation, each of a sentence of the code's own comments.

1. *Repeated last op.* `block_root` duplicates an odd last node, so a block and the block with its last op
   repeated have one commitment, and either artifact is accepted for the other's statement; the trace shows the three ops accepted under the statement of the four
   (`PredictorRepeatedOp`).
2. *Shifts.* A shift is written as a u64 and read `as u32` (`core/graph.rs:163`, 176, `core/trace.rs:235`, 252), so an
   artifact has encodings that are accepted and not canonical, which the codec's comment excludes (`WireShift`).

More limits shape the models and have no run of their own.

* The margin and its comment take |W| <= 127 (`core/freivalds.rs:46-55`), the verifier and the exporter admit -128
  (V:239, `pwm-export/src/predictor_quant.rs:300`).  At the edge of the margin `CongruenceImpliesEquality` then
  fails, which is why `GuardSound` assumes `SymmetricWeights` and the instance has such layers only.  With the real
  constants this needs a layer about 2^24 wide.
* Seven fields of the public input are compared with nothing by `verify_predictor` (V:1048-1122), so an artifact is accepted with any of
  them changed, while the type's comment says that it "carries every public field a proof binds to" (`core/public_input.rs:4-5`).  They
  enter the transcript, but honest claims pass every challenge.  `HeaderBound` makes the exception and no other.
* `output_buf` and `input_bufs` are not in the architecture commitment, so the artifacts of `MCPredictor` whose
  ops agree also agree on the buffer that is read.
* `verify_planning` and `verify_rollout` compare no model commitments between their artifacts.
  `SelectionSound` speaks of each candidate's own model and `TrajectorySound` of steps of one model; that there is
  one is left to the caller.
* `trace_root` duplicates an odd last node as `block_root` does, so a trace and the same with its last records repeated draw the same
  challenges (`ChallengesBind`).  Decoding does not refuse the repetition either.  What refuses it is the gate of the audit, in
  `TraceAudit` (`Conforms`): the graph is committed as a list and the trace is compared with it record for record, in number and kind.
* `absorb` under the label "squeeze" gives the state of a squeeze, although the type's comment says that they never collide
  (`core/transcript.rs:56-58`).  No caller uses that label.
* The comment of `init_transcript` has the caller absorb four commitments (`core/transcript.rs:148-153`);
  `audit_transcript` absorbs the trace root alone, since the public-input digest covers the rest (`core/audit.rs:188-192`).
* `derive` evaluates `1i64 << f_ln` before it checks `f_ln` (`predictor_quant.rs:252`), so a negative one panics in a debug build and
  is refused in a release build; `DeriveOutcomes` has both.  It shifts by `f_p` (line 254) and by an `f_ln` past 62 as unchecked: the unit
  then wraps, or a debug build panics.  The models exclude these schemes (section 4).

## 4. Modelling assumptions

* A hash is the term it hashes: commitments and transcript states are equal exactly when what is hashed is.  In the audits encodings are injective, which `RoundTrip` shows of the codec.
* The challenge is drawn after everything its transcript absorbs is fixed (for the traces: `ChallengesBind`), and is any vector over
  the field.
  Soundness with probability is stated as counting (`FewFoolingChallenges`) or with the history variable
  `fooled`, true once a wrong dense claim passed that another challenge would have rejected.
* The audit modulus is prime (`PrimeAssumption`), as 2^61 - 1 is (`core/field.rs`).
* Constants scale the code's numbers: `AuditP` for 2^61 - 1, `Bound` for 2^30 - 1, `WMax` for 127, `PHalf` for
  (2^31 - 2)/2, `MaxShift` for 62, `CostMax` for `i64::MAX`, `MaxPicks` for 100 000, `Radix` for 256, `W32` for the 4 bytes of a u32.
* A 32-byte digest is one byte on the wire: it is copied as it stands.  A text is valid when its bytes are of `TextBytes`.
* The SiLU, GELU and exp entries of `PredictorGraph` are any functions of the fracs; the instance has coarse ones.  The dims and the
  number of heads are small, and no property of the layout depends on them beyond two.
* Kernel sums stay within `i64`, as the code assumes of operands bounded by `Bound`; for `PredictorGraph` also the table entries and
  their sums, whatever the fracs f_e, f_g2 and t_inv.
* The schemes of `PredictorGraph` have f_p in 0..62 and f_ln at most 62, so that the units 2^f_p and 2^f_ln fit an i64
  (`ModelsAssumption`); `derive` checks neither, and its theorems say nothing of others.
* Programs and models are of the code's types (`OpTyped`, `ProgramTyped`: lists, the operands of each kind of op, unsigned ids) and
  satisfy what `Tensor::new` and the exporter guarantee (`TensorOK`, `ProgramOK`, `LayerOK`, `LayersAssumption`): cells match the
  shape and are symmetric int8, a bias covers every row, clamp bounds are ordered.  What a forger sends is bound by its type only.

## 5. Proofs

All checked by `tlapm` for every value of the constants, under the assumptions named in the modules.

* `SumsProofs`: remainders, congruence, and the fact that two congruent integers closer than the modulus are
  equal; induction over sets; the recursion equations of `SumTo` (existence and uniqueness) and its laws: extensionality,
  addition, scaling, monotonicity, bounds, congruence, exchange of summation.
* `ArithmeticProofs`, first part, `BoundedArith`: `BoundedTypeOK`, `ChainNeverWraps`, `RejectedStaysEnclosed`, `SelectedLimbsRoundTrip`,
  `OverflowIsNeverOneCell`, every property of its run.  The invariant `BInv` adds that the residue is the remainder of the
  tracked value (`Faithful`) and that the selector's verdict and the limbs are those of the pending bound (`Selected`).  Wrapping
  needs the first and the constructor's range together; the round trip rests on floor division being monotone, so that the
  quotients of the bounds enclose the quotient of the value.
* `KernelProofs`: `KernelSatisfiesEquation` (both sides of the equation reduce to r^T(Wx + b) by exchanging
  the sums), `MarginSeparates` (the accumulator bound WMax*cols*B + B, the claim's bound B, and the margin) and
  `WrongOutputIsCaught`: if every challenge passes, the unit challenges do, so every row is congruent to the kernel's, and by
  the margin equal to it.  Then what the two statements share: one lemma per kind of op and audit, for all twelve kinds, the dense ones
  row by row over a flat buffer (sound: what the audit passes is the kernel's, or some other challenge refuses it; complete: the
  kernel's own output fails for the bound or the shift only), and that commitments tell lists apart (`RootBinds`: lists of
  one length with one Merkle root are equal, by induction over the levels; `WeightsRootBinds`: weights
  with one root may differ by a repeated last leaf, and every lookup still finds the same; `SortedAlike`: a stable sort by id
  finds for every id what the list finds).
* `ArithmeticProofs`, second part, `LinearAudit`: `TypeCorrect`, `Completeness`, `GuardSound`, `ErrorIsRare`.  The inductive invariant `IInv` adds to
  `TypeOK` that `v` is the precomputation of the drawn `r` and that the verdict is the audit's under that `r`:
  without the link between `r` and `v`, completeness is not inductive.  `GuardSound` and `ErrorIsRare` assume `SymmetricWeights`,
  without which they are false (section 3).  `ErrorIsRare` counts: a wrong accumulator that the guard admits differs from the true one at
  some row by a nonzero residue (`GuardSound`'s argument); change the challenge at that row by each of the p residues in turn, and at
  most one of the p passes, since a prime field has no zero divisors (`NoZeroDivisors`); so p times the fooling challenges are still
  distinct challenges (`ZerosAreFew`).
* `PredictorProofs`, first part, the block: `ForgeriesAreCaught`, `HonestProofsAreAccepted` and `AcceptedIsEvaluated`, the refinement
  of `BlockEval`.  The audit never sees the run it vouches for, so the invariant `IInv` supplies it: there is a history `h` of buffer
  maps such that the prover's map is the one after its claims and the verifier's the one after the claims it has passed (`Aligned`); a
  claim is the kernel's on the map before it exactly when it is not forged (`Claimed`); and the claims passed so far are the
  kernel's unless `fooled` (`Evaluated`).  A step extends or keeps `h`.

  Second part, the statement: `AcceptedHeaderIsSealed`, `HonestArtifactIsAccepted`, `AcceptedArtifactRan`,
  `CommittedModelRanInShape`.  `PInv` adds to `IInv` what was sent, what was changed on the way and what the gate answered.  That the
  committed model ran needs that the commitments bind the ops, the inputs, the scales and every lookup.  The hypothesis `SameShape` (as
  many ops, the same output buffer) is what they leave open: without it the statement is false, as `PredictorRepeatedOp` and
  the unbound `output_buf` show (section 3).
* `TraceAuditProofs`: `HonestTraceIsAccepted`, `CoverageIsExact`, `ForgeryIsCaught`, `CommittedModelIsRun`, every safety property of its
  run, for any models, forged records, samples and secret vectors and for all four sources of challenges.  The invariant `IInv` has
  five parts and completeness itself.  `Base`: a record is forged exactly when it is not what `Model::run` computes after the
  record before it.  `Statement`: an honest trace is full and its header is as it was sealed.  `Source`: a sample names dense records, a
  shared vector has the length of its weight.  `Threaded`: the records passed are linked from the public history on and
  the cursor is the number of dense ones met.  `Audited`: each of them was checked by some challenge, or is dense and outside the
  sample, and the checked dense ones are as many as the indices of the sample below the cursor, which at the end is all of it.
  Soundness then goes record by record (`CheckedRight`: a checked record, luck apart, is what its op computes; `OwnRuns`: a layer's own
  tensors are those that the lookups find), and `CommittedModelIsRun` follows the recursion of the reference run along the
  records (`RunsAlong`) once `HeaderBinds` has shown that the committed graph, weights and tables are the gate's.  No `SameShape` is
  needed here: the gate compares the trace with the graph itself.
* `PlanningProofs`: `ArgMinPasses`, `TypeCorrect`, `PlanSound`, `PlanComplete`.  The invariant adds
  `AcceptedSoFar` (every candidate the verifier passed verifies, at its recorded cost, and a verdict "ok" means the
  whole list was passed and the selection checked) and `HonestSoFar` (an honest proof's costs are the true ones of
  its candidates and its selection is `ArgMin`).  Soundness needs the first, completeness the second together
  with the lemma that the recursion `ArgMin` yields the first minimum.

  Its second part has `BatchedIsPlanning` (every step of the batched specification is a step of `Planning` or leaves it
  alone) and `BatchedAgrees`.  The invariant ties the walk of the batched verifier to the finished one of `verify_planning`: the
  candidates it has accepted verify at their costs, all of one model, so that the first refusal of either is the other's.

  Its third part is the CEM step: `ReplayIsPrefix`, `EliteIsSound`, `OwnEliteIsAccepted`, `UpdateIsBounded`.  The order by cost, then
  index, is total, so ranks are a bijection and `topk` is the set of the first ranks (`RankOnce`, `EliteRanks`); a list without
  repetitions that has the same members is that elite in some order.  The bound on the variance sums the chord of the square between the
  extremes of the elite (`Chord`), and the two roundings cost at most the three (`ChordAtMean`, `RoundDivNear`).
* `RolloutProofs`: `RolloutSound` and `RolloutComplete`.  `CheckedSoFar` says which steps the verifier has passed and that its
  latents are the initial ones and those of these steps, `HonestSoFar` that every step of an honest proof passes.  That the prefixes
  of an accepted trajectory are the iterated prediction follows by induction over a set, with the window of a list left opaque:
  nothing depends on how it is flattened, only that both sides flatten alike.

* `PredictorGraphProofs`: `ScalesAlwaysMeet`, for all dimensions, depths, weights, inputs and schemes that `derive` accepts and whose
  units fit an i64 (section 4).  What the
  run computes step by step, the frac of each buffer written so far, has a closed form: `FracAt` says from a buffer's name alone at
  which frac its values stand.  An op `Fits` when, its operands being at their `FracAt`, it is aligned and its result is at its own
  `FracAt`; whether it fits follows from the definition of its shift in `derive` (`DerivedFacts`) and, for a dense op, from the scale
  the statement declares for its weight, which is looked up by the id that the builder gave it (`WeightFound`, `ScalesDeclared`: the
  id of the k-th linear of block b meets the entry of that linear in `Weights`, and its scale id the entry in `Scales`).  That every op
  of the program fits goes along its structure: `Laid(m, P, D, E)` says that the ops of `P` fit and read, besides each other's earlier
  outputs, only buffers of `D`, and that afterwards those of `E` are written; `LaidThen` puts two pieces in sequence, one lemma per
  method of the builder (`LaidNorm`, `LaidCols`, `LaidHeads`, ...) gives the pieces, and the blocks follow by induction on their number.
  The inductive invariant `ScaleInv` then has the buffers written so far at `FracAt`, and each operand of the next op among them.
  The dims are positive (`ModelsAssumption`): an empty one gives no rows to be at any scale.

  Its second half is `OutputAlwaysForward`, about the values.  They too have a closed form: `RowAt` is the row that a name of a block
  stands for in the forward pass, and `ValAt` what any buffer holds, whole or in part.  The inductive invariant `FlowInv` (beside
  `ScaleInv`) has every buffer written so far at its `ValAt`; `Computes` is its step for one op, that an op whose operands are at their
  `ValAt` and whose kernel does not fail writes the `ValAt` of its own buffer.  Why an op computes has two parts.  A kernel over a flat
  buffer is the kernel over its rows: `Grid` and `Holds` tie a matrix to a list, one lemma per kernel (`FlatDense`, `FlatScores`,
  `FlatValues`, `FlatSoftmax`, ...) takes the index arithmetic of the row-major layout through it, and `FlatBand`, `HeadsJoin` do so for the
  columns of a third, a head and a part of the modulation.  And the values of a block follow from each other as the forward pass says
  (`AttnInput`, `HeadFlows`, `AttnOutput`, `FfnInput`, `FfnOutput`).  `Runs(m, B, P, S)` then goes along the program as `Laid` did.
  No length of an input is assumed: `S` keeps track of the two ops that read an input to its end, and `Enforces` says of what they write
  that the input had that length, since the kernels of `BatchedLinear` and `Add` fail on any other (`SiluRows`, `FirstSum`).

Model-checked only: `RunsToTheEnd` of `PredictorGraph` (that under its three conditions no kernel's guard fails needs a range for every buffer, and for the inverse
square root the variance of a row of modulated values, over tables whose entries are constants of the module); `Wire`, `Manifest` and `ChallengesBind`, whose codec is recursive over types (no
proof reaches it); `BothAnswer` and `PickingEnds`, which are liveness; `CommittedModelRan` of `Predictor` without `SameShape`, which
is false in general and holds of the instance.  Out of the prover's reach and left to TLC: anything about `ENABLED` or fairness, and
induction over recursive data beyond what the induction over sets in `SumsProofs` carries.

## 6. Plan

Done: the arithmetic, the dense-layer audit, blocks, the two statements, planning with both verifiers, rollout, the codec, the
transcript, the manifest, one CEM step, the le-wm circuit; the proofs above.

1. Proofs: the ranges of the buffers of `PredictorGraph` (`RunsToTheEnd`) along the layout already proved; the refinement of the steps that `StepProofs` takes for granted by `TraceAudit`.
2. The predictor's transcript (`predictor_transcript`) over encoded blocks, once the block op types are in `Schemas`.
3. The composition of `PredictorGraph` with `Predictor`: the circuit's own statement, with the root that the export carries.

## 7. Running it

`tlc -config X.cfg MCX` for the run of the same name, but `tlc -config Wire.cfg MCManifest`; `PredictorRepeatedOp` and `WireShift` use
`MCPredictor` and `MCWire` and are expected to report a violation.  `tlapm XProofs.tla` checks the proofs.

## 8. Not modelled, and why

The hash and the expansion of a transcript's state into challenge values are assumed ideal (section 4).  Of the exporter the
floating-point calibration and the Python pipeline are left out: they choose a scheme and weights, which `PredictorGraph` takes as they
come, and the audits need the range of the weights only.  Panics (a bias shorter than the rows, clamp bounds out of order) are excluded
by the assumptions on programs.  The rest of the test kit (fixtures, JSON bundles, mutation harness), the CLI, the observability records, the
Lean development, the design documents of the earlier architecture, the website and CI decide no verdict.
