------------------------------- MODULE Codec -------------------------------
(***************************************************************************)
(* Canonical serialization (pwm-core serialize.rs): operators only.        *)
(*                                                                         *)
(* A type is a record with its kind k.  A value is an integer, a Boolean,  *)
(* a sequence (a list, a text, an option as at most one item) or a record  *)
(* with one field per field of the struct.  Bytes are the digits below     *)
(* Radix; a u8 is one digit, a u32 is W32, a u64 twice as many.  A 32-byte *)
(* digest is copied as it stands, so one digit stands for it.              *)
(***************************************************************************)
EXTENDS Integers, SequencesExt

CONSTANTS Radix,      \* 256, the number of bytes
          W32,        \* 4, the bytes of a u32
          M31P,       \* 2^31 - 1
          Signed31,   \* (p - 1) / 2, the largest bound of a BoundedInt
          TextBytes,  \* the bytes that a valid text is made of
          MaxDims     \* 4, the most dimensions of a tensor

ASSUME CodecAssumption ==
    /\ Radix \in Nat /\ Radix % 2 = 0 /\ W32 \in Nat \ {0}
    /\ M31P \in 1..Radix^W32 /\ TextBytes \subseteq 0..(Radix - 1)
    /\ Signed31 \in Nat /\ MaxDims \in Nat

(********************************* the types *******************************)
Unsigned(w) == [k |-> "unsigned", width |-> w]
Signed(w) == [k |-> "signed", width |-> w]
U8 == Unsigned(1)
U32 == Unsigned(W32)
U64 == Unsigned(2 * W32)
I32 == Signed(W32)
I64 == Signed(2 * W32)
Digest == U8

\* A u32 that is written as a u64 and read back `as u32` (graph.rs, trace.rs).
ShiftAsU64 == [k |-> "shift", width |-> 2 * W32]

Bool == [k |-> "bool", width |-> 1]
M31 == [k |-> "m31", width |-> W32]
Enum(n) == [k |-> "enum", width |-> 1, variants |-> n]
Text == [k |-> "text"]
Option(t) == [k |-> "option", of |-> t]
List(t) == [k |-> "list", of |-> t]

\* The fields of a struct in the order of the code: pairs of a name and a type.
Struct(fields) == [k |-> "struct", fields |-> fields]

\* A struct whose constructor checks the decoded fields.
Checked(fields, as) == [k |-> "checked", fields |-> fields, as |-> as]

\* An enum with data: a byte, then the fields of that variant.
Tagged(variants) == [k |-> "tagged", variants |-> variants]

BoundedIntType == Checked(<< <<"value", I64>>, <<"lo", I64>>, <<"hi", I64>> >>, "BoundedInt")

TensorType ==
    Checked(<< <<"tensor_id", U32>>, <<"scale_id", U32>>, <<"shape", List(U32)>>,
               <<"data", List(BoundedIntType)>> >>, "Tensor")

Scalars == {"unsigned", "signed", "shift", "bool", "m31", "enum"}

(******************************** encoding *********************************)
\* to_le_bytes; a negative integer in two's complement.
Digits(n, w) == [i \in 1..w |-> (n \div Radix^(i - 1)) % Radix]

\* Mutant: lengths are left out.
NoPrefix(items) == <<>>

\* encode_len: `len as u32`, which wraps.
LenPrefix(items) == Digits(Len(items), W32)

ScalarBytes(t, v) ==
    IF t.k = "bool" THEN << IF v THEN 1 ELSE 0 >> ELSE Digits(v, t.width)

RECURSIVE Encode(_, _)
EncodeFields(fields, v) ==
    FlattenSeq([i \in DOMAIN fields |-> Encode(fields[i][2], v[fields[i][1]])])

Encode(t, v) ==
    CASE t.k \in Scalars            -> ScalarBytes(t, v)
      [] t.k = "option"             -> IF v = <<>> THEN <<0>> ELSE <<1>> \o Encode(t.of, v[1])
      [] t.k = "list"               -> LenPrefix(v) \o FlattenSeq([i \in DOMAIN v |-> Encode(t.of, v[i])])
      [] t.k = "text"               -> LenPrefix(v) \o v
      [] t.k \in {"struct", "checked"} -> EncodeFields(t.fields, v)
      [] t.k = "tagged"             -> <<v.tag>> \o EncodeFields(t.variants[v.tag + 1], v.body)

(******************************** decoding *********************************)
\* The value read and the position after it, or an error.
Got(v, pos) == [err |-> "ok", val |-> v, pos |-> pos]
Bad(e) == [err |-> e, val |-> <<>>, pos |-> 0]

\* from_le_bytes.
Number(bytes) ==
    FoldLeftDomain(LAMBDA n, i : n + bytes[i] * Radix^(i - 1), 0, bytes)

\* Reader::take.
Take(bytes, pos, n) ==
    IF pos + n > Len(bytes) THEN Bad("UnexpectedEof")
    ELSE Got(SubSeq(bytes, pos + 1, pos + n), pos + n)

\* Mutant: a residue is reduced and not refused.
ScalarReduced(t, n, pos) ==
    CASE t.k = "unsigned" -> Got(n, pos)
      [] t.k = "signed"   -> Got(IF 2 * n < Radix^t.width THEN n ELSE n - Radix^t.width, pos)
      [] t.k = "shift"    -> Got(n % Radix^W32, pos)
      [] t.k = "bool"     -> IF n \in {0, 1} THEN Got(n = 1, pos) ELSE Bad("InvalidBool")
      [] t.k = "m31"      -> Got(n % M31P, pos)
      [] t.k = "enum"     -> IF n < t.variants THEN Got(n, pos) ELSE Bad("InvalidDiscriminant")

Scalar(t, n, pos) ==
    CASE t.k = "unsigned" -> Got(n, pos)
      [] t.k = "signed"   -> Got(IF 2 * n < Radix^t.width THEN n ELSE n - Radix^t.width, pos)
      [] t.k = "shift"    -> Got(n % Radix^W32, pos)
      [] t.k = "bool"     -> IF n \in {0, 1} THEN Got(n = 1, pos) ELSE Bad("InvalidBool")
      [] t.k = "m31"      -> IF n < M31P THEN Got(n, pos) ELSE Bad("NonCanonicalM31")
      [] t.k = "enum"     -> IF n < t.variants THEN Got(n, pos) ELSE Bad("InvalidDiscriminant")

DecodeScalar(t, bytes, pos) ==
    LET taken == Take(bytes, pos, t.width)
    IN  IF taken.err # "ok" THEN taken ELSE Scalar(t, Number(taken.val), taken.pos)

DecodeText(bytes, pos) ==
    LET len == DecodeScalar(U32, bytes, pos)
        taken == Take(bytes, len.pos, len.val)
    IN  IF len.err # "ok" THEN len
        ELSE IF taken.err # "ok" THEN taken
        ELSE IF Range(taken.val) \subseteq TextBytes THEN taken ELSE Bad("InvalidUtf8")

Product(dims) == FoldLeft(LAMBDA a, b : a * b, 1, dims)

\* BoundedInt::new.
BoundedIntOk(b) ==
    /\ b.lo <= b.value /\ b.value <= b.hi
    /\ b.lo \in -Signed31..Signed31 /\ b.hi \in -Signed31..Signed31

\* Tensor::new; a product past a u64 is refused as well.
TensorOk(t) ==
    /\ Len(t.shape) <= MaxDims
    /\ Product(t.shape) = Len(t.data)

Construct(as, v, pos) ==
    IF as = "BoundedInt" THEN (IF BoundedIntOk(v) THEN Got(v, pos) ELSE Bad("Bound"))
    ELSE IF TensorOk(v) THEN Got(v, pos) ELSE Bad("Tensor")

RECURSIVE Decode(_, _, _), DecodeAll(_, _, _, _)
\* One value of each type in turn, after the values vals.
DecodeAll(types, bytes, pos, vals) ==
    IF Len(vals) = Len(types) THEN Got(vals, pos)
    ELSE LET d == Decode(types[Len(vals) + 1], bytes, pos)
         IN  IF d.err # "ok" THEN d ELSE DecodeAll(types, bytes, d.pos, Append(vals, d.val))

DecodeFields(fields, bytes, pos) ==
    LET d == DecodeAll([i \in DOMAIN fields |-> fields[i][2]], bytes, pos, <<>>)
        place(f) == CHOOSE i \in DOMAIN fields : fields[i][1] = f
    IN  IF d.err # "ok" THEN d
        ELSE Got([f \in { fields[i][1] : i \in DOMAIN fields } |-> d.val[place(f)]], d.pos)

DecodeOption(t, bytes, pos) ==
    LET tag == DecodeScalar(U8, bytes, pos)
        d == Decode(t, bytes, tag.pos)
    IN  IF tag.err # "ok" THEN tag
        ELSE IF tag.val = 0 THEN Got(<<>>, tag.pos)
        ELSE IF tag.val # 1 THEN Bad("InvalidOptionTag")
        ELSE IF d.err # "ok" THEN d ELSE Got(<< d.val >>, d.pos)

DecodeList(t, bytes, pos) ==
    LET len == DecodeScalar(U32, bytes, pos)
    IN  IF len.err # "ok" THEN len ELSE DecodeAll([i \in 1..len.val |-> t], bytes, len.pos, <<>>)

DecodeTagged(variants, bytes, pos) ==
    LET tag == DecodeScalar(U8, bytes, pos)
        d == DecodeFields(variants[tag.val + 1], bytes, tag.pos)
    IN  IF tag.err # "ok" THEN tag
        ELSE IF tag.val >= Len(variants) THEN Bad("InvalidDiscriminant")
        ELSE IF d.err # "ok" THEN d ELSE Got([tag |-> tag.val, body |-> d.val], d.pos)

Decode(t, bytes, pos) ==
    CASE t.k \in Scalars -> DecodeScalar(t, bytes, pos)
      [] t.k = "text"    -> DecodeText(bytes, pos)
      [] t.k = "option"  -> DecodeOption(t.of, bytes, pos)
      [] t.k = "list"    -> DecodeList(t.of, bytes, pos)
      [] t.k = "struct"  -> DecodeFields(t.fields, bytes, pos)
      [] t.k = "tagged"  -> DecodeTagged(t.variants, bytes, pos)
      [] t.k = "checked" ->
             LET d == DecodeFields(t.fields, bytes, pos)
             IN  IF d.err # "ok" THEN d ELSE Construct(t.as, d.val, d.pos)

\* Mutant: what follows the value is ignored.
FromBytesPrefix(t, bytes) == Decode(t, bytes, 0)

\* from_canonical_bytes: nothing may follow the value.
FromBytes(t, bytes) ==
    LET d == Decode(t, bytes, 0)
    IN  IF d.err = "ok" /\ d.pos < Len(bytes) THEN Bad("TrailingBytes") ELSE d
=============================================================================
