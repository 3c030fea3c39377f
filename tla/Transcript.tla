----------------------------- MODULE Transcript -----------------------------
(***************************************************************************)
(* The Fiat-Shamir transcript (pwm-core transcript.rs) and the transcripts *)
(* of the feed-forward verifiers (audit.rs, pwm-verifier lib.rs): operators*)
(* only.  A state is the term it hashes; a label is one symbol.  A draw is *)
(* named by the state that it is expanded from, whatever its length.       *)
(***************************************************************************)
EXTENDS Schemas, Merkle

New(domain) == << "transcript", domain >>

Absorb(t, label, data) == << "absorb", label, t, data >>

\* squeeze_into: the state advances, and the draw is expanded from the new one.  A
\* caller's absorb under the label "squeeze" would be the same; there is none.
Squeeze(t, label) == Absorb(t, "squeeze", label)

\* The states that the first n squeezes under a label expand.
Draws(t, label, n) ==
    LET after[i \in 0..n] == IF i = 0 THEN t ELSE Squeeze(after[i - 1], label)
    IN  { after[i] : i \in 1..n }

PublicInputDigest(pi) == << "pid", Encode(PublicInputType, pi) >>

\* init_transcript.
InitTranscript(pi) ==
    Absorb(Absorb(New("fs"), "protocol_version", 1), "public_input_digest", PublicInputDigest(pi))

\* trace_root: the leaves are the records' canonical bytes.
TraceRoot(trace) ==
    MerkleRoot("tnode", [i \in DOMAIN trace |-> << "tleaf", Encode(OpRecordType(ShiftAsU64), trace[i]) >>])

\* Mutant: the records are not absorbed.
AuditTranscriptUntraced(a) == InitTranscript(a.public_input)

\* audit_transcript.
AuditTranscript(a) == Absorb(InitTranscript(a.public_input), "trace_root", TraceRoot(a.trace))

DenseRecords(trace) == Cardinality({ i \in DOMAIN trace : trace[i].tag = 0 })

\* verify: one vector for every dense record.
FreivaldsDraws(a) == Draws(AuditTranscript(a), "freivalds.r", DenseRecords(a.trace))

\* verify_sampled: the picks come from a transcript of their own, past the seed.
PickDraws(a, seed, n) == Draws(Absorb(AuditTranscript(a), "audit.seed", seed), "audit.pick", n)

\* verify_planning_batched: one vector for every weight, from all the candidates.
BatchedDraws(artifacts, weights) ==
    LET start == Absorb(New("batched"), "candidates", Len(artifacts))
    IN  Draws(FoldLeft(LAMBDA t, a : Absorb(t, "trace_root", TraceRoot(a.trace)), start, artifacts),
              "freivalds.r", weights)
=============================================================================
