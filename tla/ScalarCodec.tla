----------------------------- MODULE ScalarCodec -----------------------------
(***************************************************************************)
(* The bytes of one BSON value.  There are two decoders, parse_scalar of      *)
(* mongo_common/src/bson/scalar.rs and parse_value of wirebson/src/decode.rs, *)
(* written separately, and one encoder, encode_scalar, with encode_value of   *)
(* wirebson/src/encode.rs around it for code with scope.                      *)
(*                                                                           *)
(* Widths are scaled: an int32 or a length takes one byte, an 8-byte value    *)
(* two, an ObjectId three and a Decimal128 four.  A value is its tag and the  *)
(* tuple of its parts.  A byte at or above NotText occurs in no UTF-8 text.   *)
(***************************************************************************)
EXTENDS Naturals, Sequences, SequencesExt

CONSTANTS
  NotText,       \* the bytes that are not part of any UTF-8 text
  MaxI32,        \* the largest length that fits an int32
  FirstReserved, \* subtypes from here (0x07) up to FirstUser (0x80) are refused
  FirstUser

ASSUME WidthAssumption ==
  MaxI32 \in Nat /\ FirstReserved \in 3..FirstUser /\ FirstUser \in Nat

\* The values that take a fixed number of bytes, and how many.
Fixed ==
  [Undefined |-> 0, Null |-> 0, MinKey |-> 0, MaxKey |-> 0, Int32 |-> 1, Double |-> 2,
   DateTime |-> 2, Int64 |-> 2, ObjectId |-> 3, Decimal128 |-> 4]

\* The values that are one length-prefixed string.
Texts == {"String", "JavaScript", "Symbol"}

ScalarTags == DOMAIN Fixed \cup Texts \cup {"Bool", "Timestamp", "Binary", "Regex", "DbPointer"}

LenWidth == 1
MIN_DOC_LEN == LenWidth + 1

-----------------------------------------------------------------------------
(* Readers of mongo_common/src/io.rs: what was read and what is left.         *)

Error == [ok |-> FALSE]
Read(v, rest) == [ok |-> TRUE, v |-> v, rest |-> rest]

IsText(s) == \A i \in DOMAIN s : s[i] \notin NotText

ReadBytes(r, n) == IF Len(r) < n THEN Error
                   ELSE Read(SubSeq(r, 1, n), SubSeq(r, n + 1, Len(r)))

ReadU8(r) == IF r = << >> THEN Error ELSE Read(Head(r), Tail(r))

ReadCstring(r) ==
  LET nul == SelectInSeq(r, LAMBDA b : b = 0)
  IN  IF nul = 0 THEN Error ELSE Read(SubSeq(r, 1, nul - 1), SubSeq(r, nul + 1, Len(r)))

ReadText(r) == LET s == ReadCstring(r) IN IF s.ok /\ IsText(s.v) THEN s ELSE Error

-----------------------------------------------------------------------------
(* Subtypes *)

\* A subtype is [name, byte]: UserDefined(byte) may be constructed with any byte.
ToU8(subtype) == subtype.byte

FromU8(b) ==
  IF b >= FirstReserved /\ b < FirstUser THEN Error
  ELSE [ok |-> TRUE,
        subtype |-> [name |-> IF b >= FirstUser THEN "UserDefined"
                              ELSE IF b = 2 THEN "BinaryOld" ELSE "Named", byte |-> b]]

-----------------------------------------------------------------------------
(* parse_scalar *)

ParseString(r) ==
  LET len  == ReadU8(r)
      text == ReadBytes(len.rest, len.v - 1)
      nul  == ReadU8(text.rest)
  IN  IF len.ok /\ len.v # 0 /\ text.ok /\ nul.ok /\ nul.v = 0 /\ IsText(text.v)
      THEN Read(text.v, nul.rest) ELSE Error

ParseBinary(r) ==
  LET len     == ReadU8(r)
      sub     == ReadU8(len.rest)
      subtype == FromU8(sub.v)
      old     == subtype.subtype.name = "BinaryOld"
      inner   == ReadU8(sub.rest)
      payload == IF old THEN ReadBytes(inner.rest, inner.v) ELSE ReadBytes(sub.rest, len.v)
  IN  IF /\ len.ok /\ sub.ok /\ subtype.ok
         /\ old => inner.ok /\ inner.v + LenWidth = len.v
         /\ payload.ok
      THEN Read(<<subtype.subtype, payload.v>>, payload.rest) ELSE Error

\* A value read from input: the value and the number of bytes consumed.
Value(tag, parts, input, rest) ==
  [ok |-> TRUE, value |-> [tag |-> tag, parts |-> parts], used |-> Len(input) - Len(rest)]

One(tag, input, part) == IF part.ok THEN Value(tag, <<part.v>>, input, part.rest) ELSE Error

Two(tag, input, first, second) ==
  IF first.ok /\ second.ok THEN Value(tag, <<first.v, second.v>>, input, second.rest) ELSE Error

ParseScalar(tag, input) ==
  CASE tag \in DOMAIN Fixed -> One(tag, input, ReadBytes(input, Fixed[tag]))
    [] tag \in Texts -> One(tag, input, ParseString(input))
    [] tag = "Bool" -> LET b == ReadU8(input)
                       IN  IF b.ok /\ b.v \in {0, 1} THEN One(tag, input, b) ELSE Error
    [] tag = "Timestamp" -> LET increment == ReadU8(input)
                            IN  Two(tag, input, increment, ReadU8(increment.rest))
    [] tag = "Binary" -> LET b == ParseBinary(input)
                         IN  IF b.ok THEN Value(tag, b.v, input, b.rest) ELSE Error
    [] tag = "Regex" -> LET pattern == ReadText(input)
                        IN  Two(tag, input, pattern, ReadText(pattern.rest))
    [] tag = "DbPointer" -> LET namespace == ParseString(input)
                            IN  Two(tag, input, namespace, ReadBytes(namespace.rest, Fixed.ObjectId))
    [] OTHER -> Error  \* composite or unknown

-----------------------------------------------------------------------------
(* parse_value, for everything but documents and arrays *)

ReadStr(r) ==
  LET len  == ReadU8(r)
      text == ReadBytes(len.rest, len.v - 1)
      nul  == ReadU8(text.rest)
  IN  IF len.ok /\ len.v >= 1 /\ text.ok /\ nul.ok /\ nul.v = 0 /\ IsText(text.v)
      THEN Read(text.v, nul.rest) ELSE Error

\* Mutant of ReadBinary: the length of an old binary is taken for its payload's.
ReadBinaryOuter(r) ==
  LET len     == ReadU8(r)
      sub     == ReadU8(len.rest)
      subtype == FromU8(sub.v)
      payload == ReadBytes(sub.rest, len.v)
  IN  IF len.ok /\ sub.ok /\ subtype.ok /\ payload.ok
      THEN Read(<<subtype.subtype, payload.v>>, payload.rest) ELSE Error

ReadBinary(r) ==
  LET len     == ReadU8(r)
      sub     == ReadU8(len.rest)
      subtype == FromU8(sub.v)
      inner   == ReadU8(sub.rest)
      payload == IF subtype.subtype.name = "BinaryOld"
                 THEN IF inner.ok /\ inner.v + LenWidth = len.v
                      THEN ReadBytes(inner.rest, inner.v) ELSE Error
                 ELSE ReadBytes(sub.rest, len.v)
  IN  IF len.ok /\ sub.ok /\ subtype.ok /\ payload.ok
      THEN Read(<<subtype.subtype, payload.v>>, payload.rest) ELSE Error

\* RawDocument::from_bytes
ValidDocument(b) == Len(b) >= MIN_DOC_LEN /\ b[1] = Len(b) /\ Last(b) = 0

\* total length, code, scope: the scope is sliced off by its own length and the
\* total must agree with what was found.
ParseCodeWithScope(rest) ==
  LET total     == ReadU8(rest)
      code      == ReadStr(total.rest)
      scope_off == Len(rest) - Len(code.rest)
      l         == code.rest[1]
      scope     == SubSeq(rest, scope_off + 1, scope_off + l)
  IN  IF /\ total.ok /\ code.ok
         /\ Len(rest) >= scope_off + LenWidth
         /\ l >= MIN_DOC_LEN /\ Len(rest) >= scope_off + l
         /\ ValidDocument(scope)
         /\ total.v = scope_off + l
      THEN [ok |-> TRUE, value |-> [tag |-> "JavaScriptScope", parts |-> <<code.v, scope>>],
            used |-> scope_off + l]
      ELSE Error

ParseValue(tag, rest) ==
  CASE tag \in DOMAIN Fixed -> One(tag, rest, ReadBytes(rest, Fixed[tag]))
    [] tag \in Texts -> One(tag, rest, ReadStr(rest))
    [] tag = "Bool" -> LET b == ReadU8(rest)
                       IN  IF b.ok /\ b.v <= 1 THEN One(tag, rest, b) ELSE Error
    [] tag = "Timestamp" -> LET increment == ReadU8(rest)
                            IN  Two(tag, rest, increment, ReadU8(increment.rest))
    [] tag = "Binary" -> LET b == ReadBinary(rest)
                         IN  IF b.ok THEN Value(tag, b.v, rest, b.rest) ELSE Error
    [] tag = "Regex" -> LET pattern == ReadText(rest)
                        IN  Two(tag, rest, pattern, ReadText(pattern.rest))
    [] tag = "DbPointer" -> LET namespace == ReadStr(rest)
                            IN  Two(tag, rest, namespace, ReadBytes(namespace.rest, Fixed.ObjectId))
    [] tag = "JavaScriptScope" -> ParseCodeWithScope(rest)
    [] OTHER -> Error

-----------------------------------------------------------------------------
(* encode_scalar and encode_value *)

Wrote(bytes) == [ok |-> TRUE, bytes |-> bytes]
Then(a, b) == IF a.ok /\ b.ok THEN Wrote(a.bytes \o b.bytes) ELSE Error

EncodeString(v) == IF Len(v) + 1 > MaxI32 THEN Error ELSE Wrote(<<Len(v) + 1>> \o v \o <<0>>)

\* put_cstring refuses an interior NUL.
PutCstring(v) == IF \E i \in DOMAIN v : v[i] = 0 THEN Error ELSE Wrote(v \o <<0>>)

\* Mutant of EncodeBinary: the outer length of an old binary is its payload's.
EncodeBinaryPlain(subtype, bytes) ==
  IF Len(bytes) > MaxI32 THEN Error
  ELSE Wrote(<<Len(bytes), ToU8(subtype)>>
             \o (IF subtype.name = "BinaryOld" THEN <<Len(bytes)>> ELSE << >>) \o bytes)

EncodeBinary(subtype, bytes) ==
  LET extra == IF subtype.name = "BinaryOld" THEN LenWidth ELSE 0
  IN  IF Len(bytes) + extra > MaxI32 THEN Error
      ELSE Wrote(<<Len(bytes) + extra, ToU8(subtype)>>
                 \o (IF subtype.name = "BinaryOld" THEN <<Len(bytes)>> ELSE << >>) \o bytes)

EncodeScalar(s) ==
  CASE s.tag \in DOMAIN Fixed -> Wrote(s.parts[1])
    [] s.tag \in Texts -> EncodeString(s.parts[1])
    [] s.tag = "Bool" -> Wrote(<<s.parts[1]>>)
    [] s.tag = "Timestamp" -> Wrote(s.parts)
    [] s.tag = "Binary" -> EncodeBinary(s.parts[1], s.parts[2])
    [] s.tag = "Regex" -> Then(PutCstring(s.parts[1]), PutCstring(s.parts[2]))
    [] s.tag = "DbPointer" -> Then(EncodeString(s.parts[1]), Wrote(s.parts[2]))

\* Bson::as_scalar: every value but the composites is a scalar of the same tag.
AsScalar(v) == IF v.tag \in ScalarTags THEN [ok |-> TRUE, scalar |-> v] ELSE Error

\* The scope is written as it is; the total length goes into a placeholder that
\* patch_len fills in.
EncodeCodeWithScope(code, scope) ==
  LET written == Then(EncodeString(code), Wrote(scope))
      total   == LenWidth + Len(written.bytes)
  IN  IF Len(scope) < MIN_DOC_LEN \/ ~written.ok \/ total > MaxI32 THEN Error
      ELSE Wrote(<<total>> \o written.bytes)

EncodeValue(v) ==
  IF v.tag = "JavaScriptScope" THEN EncodeCodeWithScope(v.parts[1], v.parts[2])
  ELSE IF AsScalar(v).ok THEN EncodeScalar(AsScalar(v).scalar) ELSE Error

-----------------------------------------------------------------------------
(* What is to hold, of one input or one value *)

\* "cross-checked by unit tests rather than layered" (decode.rs:6): on the same bytes
\* the two decoders find the same value or both find none, and consume as much.
Agree(tag, bytes) == tag \in ScalarTags => ParseScalar(tag, bytes) = ParseValue(tag, bytes)

\* Bytes that were accepted are the only ones that encode the value.
Canonical(tag, bytes) ==
  LET parsed == ParseValue(tag, bytes)
  IN  parsed.ok => EncodeValue(parsed.value) = Wrote(SubSeq(bytes, 1, parsed.used))

\* A value of subtype UserDefined below 0x80 is not one that decoding can return.
Decodable(v) ==
  v.tag = "Binary" /\ v.parts[1].name = "UserDefined" => v.parts[1].byte >= FirstUser

\* Whatever follows it, an encoded value is read back as it was, to its last byte.
ReadsBack(v, suffix) ==
  LET encoded == EncodeValue(v)
  IN  encoded.ok /\ Decodable(v) =>
        ParseValue(v.tag, encoded.bytes \o suffix)
          = [ok |-> TRUE, value |-> v, used |-> Len(encoded.bytes)]
=============================================================================
