-------------------------------- MODULE Wire --------------------------------
(***************************************************************************)
(* A document on its way: canonical_bytes writes it, its bytes may be      *)
(* altered, cut or extended in between, and from_canonical_bytes reads     *)
(* what arrives (pwm-core serialize.rs).  Until it is written, bytes is    *)
(* empty and nothing was changed: no type has an empty encoding.           *)
(***************************************************************************)
EXTENDS Transcript

CONSTANTS Documents,   \* pairs of a kind and a value of its type
          Noise,       \* the bytes a change puts in
          MaxDamage(_) \* bound: changes made on the way, for a document

\* A document has no list longer than its length prefix can say: encode_len asserts it
\* in a debug build and wraps in a release build.
ASSUME WireAssumption ==
    /\ \A d \in Documents : d[1] \in Kinds
    /\ Noise \subseteq 0..(Radix - 1) /\ \A d \in Documents : MaxDamage(d) \in Nat

VARIABLES doc,      \* what was written: a kind and a value
          bytes,    \* what is on the way
          damage,   \* changes made so far
          read      \* what the reader returned, or <<>>

vars == <<doc, bytes, damage, read>>

Type == DocumentType(doc[1], ShiftAsU64)

Init ==
    /\ doc \in Documents
    /\ bytes = <<>> /\ damage = 0 /\ read = <<>>

InMemory == bytes = <<>> /\ damage = 0 /\ read = <<>>
OnTheWay == ~InMemory /\ read = <<>>

Write ==
    /\ InMemory
    /\ bytes' = Encode(Type, doc[2])
    /\ UNCHANGED <<doc, damage, read>>

Damaging ==
    /\ OnTheWay /\ damage < MaxDamage(doc)
    /\ damage' = damage + 1
    /\ UNCHANGED <<doc, read>>

Alter(i, b) == Damaging /\ b # bytes[i] /\ bytes' = [bytes EXCEPT ![i] = b]

Cut(n) == Damaging /\ bytes' = SubSeq(bytes, 1, n)

Extend(b) == Damaging /\ bytes' = Append(bytes, b)

Read ==
    /\ OnTheWay
    /\ read' = << FromBytes(Type, bytes) >>
    /\ UNCHANGED <<doc, bytes, damage>>

Next ==
    \/ \E i \in DOMAIN bytes, b \in Noise : Alter(i, b)
    \/ \E n \in 0..(Len(bytes) - 1) : Cut(n)
    \/ \E b \in Noise : Extend(b)
    \/ Write
    \/ Read

Spec == Init /\ [][Next]_vars

------------------------------------------------------------------------------
Errors ==
    { "UnexpectedEof", "TrailingBytes", "InvalidBool", "InvalidOptionTag", "NonCanonicalM31",
      "InvalidDiscriminant", "InvalidUtf8", "Bound", "Tensor" }

Accepted == read # <<>> /\ read[1].err = "ok"

\* Bytes stay bytes, and the reader either fails or has consumed every one of them.
TypeOK ==
    /\ doc[1] \in Kinds /\ damage \in 0..MaxDamage(doc)
    /\ bytes \in Seq(0..(Radix - 1))
    /\ read # <<>> => \/ read[1].err \in Errors
                      \/ read[1].err = "ok" /\ read[1].pos = Len(bytes)

\* What was written is what is read, unless it was changed on the way (serialize.rs
\* gives every value exactly one encoding and decodes it).
RoundTrip ==
    (read # <<>> /\ bytes = Encode(Type, doc[2])) => Accepted /\ read[1].val = doc[2]

\* Decoding rejects every non-canonical encoding: what is accepted is written back
\* byte for byte (serialize.rs, module comment).
Canonical == Accepted => Encode(Type, read[1].val) = bytes

\* The same with every shift read in full: the high half of a shift is the only
\* part of the bytes that decoding loses.
CanonicalButShifts ==
    Accepted =>
        LET full == DocumentType(doc[1], U64)
            d == FromBytes(full, bytes)
        IN  d.err = "ok" /\ Encode(full, d.val) = bytes

Sent == { d[2] : d \in { e \in Documents : e[1] = "artifact" } }
\* A list as a tree sees it that duplicates the odd last node of every level: the last
\* 2^(k - 1) leaves are repeated when they are the last node of level k and have no sibling.
Padded(s) ==
    LET pad[k \in 0..Len(s)] ==
            IF k = 0 THEN s
            ELSE LET size == 2^(k - 1)
                     n == Len(pad[k - 1])
                 IN  IF n > size /\ (n \div size) % 2 = 1
                     THEN pad[k - 1] \o SubSeq(pad[k - 1], n - size + 1, n)
                     ELSE pad[k - 1]
    IN  pad[Len(s)]

SentTranscript == [a \in Sent |-> AuditTranscript(a)]
SentBatch == [a \in Sent |-> BatchedDraws(<<a, a>>, 1)]
SentTrace == [a \in Sent |-> Padded(a.trace)]

\* The receiver draws the challenges of an artifact that may have been sent exactly when it
\* got the same statement and the same records up to the repetitions that trace_root makes
\* (the record lists a, b, c and a, b, c, c are one to it), and never draws one twice; the
\* batched ones depend on the records alone (trace.rs, transcript.rs, audit.rs, lib.rs).
ChallengesBind ==
    (Accepted /\ doc[1] = "artifact") =>
        LET got == read[1].val
            transcript == AuditTranscript(got)
            trace == Padded(got.trace)
            drawn == FreivaldsDraws(got) \union PickDraws(got, 1, 2)
        IN  /\ Cardinality(drawn) = DenseRecords(got.trace) + 2
            /\ \A a \in Sent :
                   /\ (transcript = SentTranscript[a])
                         <=> (got.public_input = a.public_input /\ trace = SentTrace[a])
                   /\ (BatchedDraws(<<a, got>>, 1) = SentBatch[a]) <=> (trace = SentTrace[a])
=============================================================================
