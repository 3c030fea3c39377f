------------------------------ MODULE Manifest ------------------------------
(***************************************************************************)
(* The model manifest (pwm-core manifest.rs) as a document on its way: an  *)
(* exporter seals it with its self-hash, its fields may be edited, it is   *)
(* written, carried and read, and validate decides whether what was read   *)
(* is used.  The self-hash is over the canonical bytes of the Codec.       *)
(***************************************************************************)
EXTENDS Wire

CONSTANTS Hash(_),       \* the digest of a string of bytes, itself a byte and never zero
          Version,       \* MANIFEST_VERSION_V1
          WireVersion,   \* SERIALIZATION_VERSION_V1
          Prefix, Dot,   \* "pwm." and "."
          WeightOps,     \* the op types "linear" and "matmul"
          MaxEdits       \* bound: edits by hand

Drafts == { d[2] : d \in { e \in Documents : e[1] = "manifest" } }

DraftBytes == { Encode(ManifestModelType, m) : m \in Drafts }

\* The hash separates the drafts' bytes; every stored hash is zero at first.
ASSUME ManifestAssumption ==
    /\ MaxEdits \in Nat
    /\ \A m \in Drafts : m.serialization.canonical_json_hash = 0
    /\ \A s, t \in DraftBytes : Hash(s) = Hash(t) => s = t

VARIABLES edits,
          sealed,    \* history: the manifest as it was last sealed, or <<>>
          verdict

mvars == <<vars, edits, sealed, verdict>>

StoredHash(m) == m.serialization.canonical_json_hash
WithHash(m, h) == [m EXCEPT !.serialization.canonical_json_hash = h]

\* Mutant: the stored hash is hashed too.
SelfHashKept(m) == Hash(Encode(ManifestModelType, m))

\* Mutant: the ops are left out of the hash.
SelfHashWithoutOps(m) == Hash(Encode(ManifestModelType, [WithHash(m, 0) EXCEPT !.ops = <<>>]))

\* compute_self_hash: with the stored hash zeroed, so that it does not refer to itself.
SelfHash(m) == Hash(Encode(ManifestModelType, WithHash(m, 0)))

Declared(m, id) == \E i \in DOMAIN m.scales : m.scales[i].scale_id = id

ScalesOf(op) ==
    {op.in_scale_id, op.out_scale_id} \union Range(op.weight_scale_id) \union Range(op.acc_scale_id)

\* The first error of one op.
OpVerdict(m, op) ==
    IF \E id \in ScalesOf(op) : ~Declared(m, id) THEN "UndeclaredScale"
    ELSE IF /\ op.op \in WeightOps
            /\ <<>> \in {op.weight_commitment, op.weight_scale_id, op.acc_scale_id}
         THEN "MissingBindingField"
    ELSE "ok"

\* The first error of the ops in their order.
OpsVerdict(m) ==
    LET bad == { i \in DOMAIN m.ops : OpVerdict(m, m.ops[i]) # "ok" }
    IN  IF bad = {} THEN "ok" ELSE OpVerdict(m, m.ops[Min(bad)])

RelationForm(id) ==
    IsPrefix(Prefix, id) /\ Cardinality({ i \in DOMAIN id : id[i] = Dot }) >= 3

\* PlannerKind: FixedCandidate is 0, Cem is 1.
Validated(m) ==
    IF m.manifest_version # Version THEN "UnknownManifestVersion"
    ELSE IF m.serialization.serialization_version # WireVersion THEN "UnknownSerializationVersion"
    ELSE IF ~RelationForm(m.relation_id) THEN "MalformedRelationId"
    ELSE IF m.scales = <<>> THEN "NoScales"
    ELSE IF OpsVerdict(m) # "ok" THEN OpsVerdict(m)
    ELSE IF (m.planner.kind = 1) # (m.planner.cem # <<>>) THEN "PlannerKindMismatch"
    ELSE IF StoredHash(m) # SelfHash(m) THEN "SelfHashMismatch"
    ELSE "ok"

MInit == Init /\ edits = 0 /\ sealed = <<>> /\ verdict = "none"

ManifestInMemory == InMemory /\ doc[1] = "manifest"

\* seal_self_hash.
Seal ==
    /\ ManifestInMemory
    /\ sealed' = << WithHash(doc[2], SelfHash(doc[2])) >>
    /\ doc' = << "manifest", sealed'[1] >>
    /\ UNCHANGED <<bytes, damage, read, edits, verdict>>

\* Anything but the hash is edited: every field is public, as the tests use them.
Edit(m) ==
    /\ ManifestInMemory /\ edits < MaxEdits
    /\ edits' = edits + 1
    /\ doc' = << "manifest", WithHash(m, StoredHash(doc[2])) >>
    /\ UNCHANGED <<bytes, damage, read, sealed, verdict>>

\* What was read is validated before it is used.
Validate ==
    /\ doc[1] = "manifest" /\ verdict = "none"
    /\ Accepted
    /\ verdict' = Validated(read[1].val)
    /\ UNCHANGED <<vars, edits, sealed>>

Carry == Next /\ UNCHANGED <<edits, sealed, verdict>>

MNext == Carry \/ Seal \/ (\E m \in Drafts : Edit(m)) \/ Validate

MSpec == MInit /\ [][MNext]_mvars

------------------------------------------------------------------------------
\* The self-hash binds the whole manifest: what validate accepts is what was sealed,
\* field for field, whatever was edited before it was written or changed on the way
\* (manifest.rs, validate).
SealBinds == verdict = "ok" => sealed = << read[1].val >>

\* A manifest that arrives as it was sealed is never refused for its hash.
SealHolds == (verdict # "none" /\ sealed = << read[1].val >>) => verdict # "SelfHashMismatch"
=============================================================================
