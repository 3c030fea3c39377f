----------------------------- MODULE BlockEval ------------------------------
(***************************************************************************)
(* What an accepted block proof promises: a trusted evaluator that runs    *)
(* the ops of the block in order over the named buffers, each with its     *)
(* exact kernel, and may give up at any time.  A dense layer may take a    *)
(* wrong value only by luck, which is recorded.                            *)
(***************************************************************************)
EXTENDS BlockOps

CONSTANT Programs     \* [ops, output_buf, inputs, binds] records

VARIABLES prog, pc, bufs, lucky, result

vars == <<prog, pc, bufs, lucky, result>>

Init ==
    /\ prog \in Programs
    /\ pc = 1 /\ bufs = Seed(prog.inputs)
    /\ lucky = FALSE /\ result = "none"

Running == result = "none" /\ pc <= Len(prog.ops)

\* Write the kernel's value to the op's output buffer.
Evaluate ==
    /\ Running
    /\ LET op == prog.ops[pc]
           k  == Kernel(op, bufs, prog.binds)
       IN  k.err = "ok" /\ bufs' = Insert(bufs, op.out_buf, k.out)
    /\ pc' = pc + 1
    /\ UNCHANGED <<prog, lucky, result>>

\* A dense layer whose value was not caught: only its output buffer differs.
Guess ==
    /\ Running
    /\ IsLinear(prog.ops[pc])
    /\ lucky' = TRUE /\ pc' = pc + 1
    /\ LET b == prog.ops[pc].out_buf
       IN  b \in DOMAIN bufs' /\ bufs' = Insert(bufs, b, bufs'[b])
    /\ UNCHANGED <<prog, result>>

Accept ==
    /\ result = "none" /\ pc > Len(prog.ops)
    /\ prog.output_buf \in DOMAIN bufs
    /\ result' = "accepted"
    /\ UNCHANGED <<prog, pc, bufs, lucky>>

Reject ==
    /\ result = "none"
    /\ result' = "rejected"
    /\ UNCHANGED <<prog, pc, bufs, lucky>>

Next == Evaluate \/ Guess \/ Accept \/ Reject

Spec == Init /\ [][Next]_vars
=============================================================================
