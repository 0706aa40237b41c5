------------------------------ MODULE MCLibrary ------------------------------
(***************************************************************************)
(* The pure functions of the two library crates on every input of a small     *)
(* set: one step picks an input of one kind, the invariants evaluate the      *)
(* functions on it.                                                          *)
(***************************************************************************)
EXTENDS SaslText, ScalarCodec, Conversions, TextForms, Documents

VARIABLE subject

\* Sequences over S of at most n elements.
UpTo(S, n) == UNION {[1..k -> S] : k \in 0..n}

-----------------------------------------------------------------------------
(* Numbers: integer types of 2 to 11 bits, i64 of 7, Doubles with 4 significant  *)
(* bits, f32 with 3.                                                             *)

MCNative ==
  [i8 |-> -2..1, i16 |-> -4..3, i32 |-> -8..7, i64 |-> -64..63, i128 |-> -1024..1023,
   u8 |-> 0..3, u16 |-> 0..7, u32 |-> 0..15, u64 |-> 0..127]

\* Round to the nearest number of so many significant bits, ties to even.
RoundTo(bits, n) ==
  LET a    == Abs(n)
      k    == CHOOSE k \in 0..12 : a < 2 ^ (bits + k) /\ \A j \in 0..(k - 1) : a >= 2 ^ (bits + j)
      unit == 2 ^ k
      q    == a \div unit
      up   == 2 * (a % unit) > unit \/ (2 * (a % unit) = unit /\ q % 2 = 1)
      r    == unit * (IF up THEN q + 1 ELSE q)
  IN  IF n < 0 THEN -r ELSE r

MCAsF64(i) == RoundTo(4, 2 * i)

MCAsF32(f) == RoundTo(3, f)

Doubles == {f \in -300..300 : RoundTo(4, f) = f}

Scalars ==
  [tag : {"Int32"}, v : MCNative.i32] \cup [tag : {"Int64", "DateTime"}, v : MCNative.i64]
  \cup [tag : {"Bool"}, v : {0, 1}] \cup [tag : {"Double"}, v : Doubles]
  \cup [tag : {"NotFinite", "Document", "Null"}]

-----------------------------------------------------------------------------
(* Bytes and values, in the scaled widths of ScalarCodec.                         *)

Octets == {0, 1, 2, 3, 5, 15}

CodecTags == (ScalarTags \ {"Undefined", "MinKey", "MaxKey", "DateTime", "Double", "JavaScript", "Symbol"})
               \cup {"JavaScriptScope", "Document"}

Subtypes == [name : {"Named"}, byte : {0, 1}] \cup [name : {"BinaryOld"}, byte : {2}]
              \cup [name : {"UserDefined"}, byte : {1, 2, 3, 5}]

\* Strings of the API are UTF-8; the longest lengths do not fit an int32.
Strings == UpTo({0, 1, 5}, 2) \cup {[i \in 1..n |-> 1] : n \in 5..8}

V(tag, parts) == [tag |-> tag, parts |-> parts]

Values ==
  {V("Int32", << <<3>> >>), V("Null", << << >> >>)} \cup {V("Bool", <<b>>) : b \in {0, 1}}
  \cup {V("Timestamp", <<a, b>>) : a, b \in {0, 5}}
  \cup {V(tag, <<s>>) : tag \in Texts, s \in Strings}
  \cup {V("Binary", <<t, s>>) : t \in Subtypes, s \in Strings \cup {<<15>>}}
  \cup {V("Regex", <<p, o>>) : p, o \in Strings}
  \cup {V("DbPointer", <<s, <<0, 5, 15>>>>) : s \in Strings}
  \cup {V("JavaScriptScope", <<s, d>>) : s \in Strings, d \in {<< >>, <<2, 0>>, <<4, 1, 3, 0>>}}

-----------------------------------------------------------------------------
(* Documents, nested up to two levels past MaxDepth.                               *)

Doc(fields) == [tag |-> "Document", fields |-> fields]
Arr(values) == [tag |-> "Array", values |-> values]

Names == {"a", "b"}
Leaf == [tag : {"Int32", "NotFinite", "Null", "Regex"}] \cup {Doc(<< >>), Arr(<< >>)}
FieldsOf(S, n) == UpTo([name : Names, value : S], n)

Level1 == Leaf \cup {Doc(f) : f \in FieldsOf(Leaf, 1)} \cup {Arr(v) : v \in UpTo(Leaf, 2)}
Level2 == {Doc(f) : f \in FieldsOf(Level1, 1)} \cup {Arr(v) : v \in UpTo(Level1, 1)}
Trees  == FieldsOf(Level1, 2) \cup FieldsOf(Level2, 1) \cup FieldsOf({Arr(<<v>>) : v \in Level2}, 1)

RawValues == [v : {1, 2}, levels : {0}, inside : {FALSE}]
               \cup [v : {1}, levels : 1..(MaxDepth + 1), inside : BOOLEAN]

RawFields == [name : Names, value : RawValues, defect : {"none"}]
               \cup [name : Names, value : [v : {1}, levels : {0}, inside : {FALSE}], defect : {"name", "value"}]

Raws == [fields : UpTo(RawFields, 3), tail : BOOLEAN]

-----------------------------------------------------------------------------

\* The days of a whole cycle of 400 years from 1969 on, and those around the year 0.
Days == (-400..146000) \cup (-720300..-718600)

Inputs ==
  [username |-> [username : UpTo({"=", ",", "2", "3", "C", "D"}, 4), nonce : {<<"a">>, <<"=", "a">>}],
   message  |-> [message : {h \o m : h \in {<< >>, GS2_NO_BINDING_HEADER},
                                     m \in UpTo({"n", "r", "m", "=", ","}, 6)}],
   payload  |-> [fields : [1..3 -> UpTo({NUL, "a", "b"}, 2)]],
   plain    |-> [payload : UpTo({NUL, "a", "~"}, 5)],
   bytes    |-> [tag : CodecTags, bytes : UpTo(Octets, 5)],
   value    |-> [value : Values, suffix : {<< >>, <<0>>, <<2, 0, 0>>}],
   number   |-> [type : DOMAIN MCNative, scalar : Scalars],
   native   |-> UNION {[type : {t}, v : MCNative[t]] : t \in {"i8", "i16", "i32", "i64", "u8", "u16"}}
                  \cup [type : {"f64"}, v : Doubles] \cup [type : {"bool"}, v : {0, 1}],
   text     |-> [type : {"String"}, v : UpTo({"a", "0"}, 3)],
   uuid     |-> [type : {"Uuid"}, v : [1..UuidLen -> {0, 255}]],
   time     |-> [ticks : -400..400, checks : BOOLEAN],
   hex      |-> [text : UpTo({"0", "9", "a", "F", "g"}, 5)],
   id       |-> [bytes : [1..IdLen -> {0, 9, 10, 15, 16, 159, 171, 255}]],
   data     |-> [data : UpTo({0, 1, 63, 64, 170, 255}, 4)],
   day      |-> [day : Days],
   ms       |-> [ms : {86400000 * d + o : d \in -3..3, o \in {0, 1, 999, 1000, 59999, 60000, 3599999, 86399999}}],
   document |-> [fields : FieldsOf({"x", "null"}, 4), name : Names, value : {"x", "y"}],
   raw      |-> [raw : Raws, key : Names],
   tree     |-> [tree : Trees]]

Init == subject \in [kind : DOMAIN Inputs]

Pick == /\ DOMAIN subject = {"kind"}
        /\ \E input \in Inputs[subject.kind] : subject' = [kind |-> subject.kind, input |-> input]

Spec == Init /\ [][Pick]_subject

Picked(kind) == subject.kind = kind /\ DOMAIN subject # {"kind"}
in == subject.input

-----------------------------------------------------------------------------
(* Properties *)

\* The bridge looks up credentials (auth.rs:83-85) for the very user the client named and
\* ScramServer takes up the very nonce, also when the name contains commas, equals signs
\* or text that looks like an escape; and of any message ScramServer accepts, the bridge
\* has read the same username attribute.
ClientFirstReadBack ==
  /\ Picked("username") =>
       LET msg == ClientFirstMessage(in.username, in.nonce)
       IN  /\ ParseClientFirstUsername(msg) = [ok |-> TRUE, username |-> in.username]
           /\ HandleClientFirst(msg).ok /\ HandleClientFirst(msg).client_nonce = in.nonce
  /\ Picked("message") /\ HandleClientFirst(in.message).ok =>
       ParseClientFirstUsername(in.message)
         = [ok |-> TRUE, username |-> UnescapeUsername(HandleClientFirst(in.message).claimed)]

\* A PLAIN payload is read as the three texts it was built from or, when one of them
\* contains NUL, refused: no identity or password is ever cut short (plain.rs:24-39).
\* Whatever payload is accepted is the one those texts build.
PlainReadBack ==
  /\ Picked("plain") =>
    LET r == ParseClientPayload(in.payload)
    IN  r.ok => BuildClientPayload(r.authz_id, r.authc_id, r.password) = in.payload
                /\ ~Contains(in.payload, "~")
  /\ Picked("payload") =>
    LET built == BuildClientPayload(in.fields[1], in.fields[2], in.fields[3])
        nul   == \E i \in 1..3 : Contains(in.fields[i], NUL)
    IN  ParseClientPayload(built)
          = IF nul THEN Refused
            ELSE [ok |-> TRUE, authz_id |-> in.fields[1], authc_id |-> in.fields[2],
                  password |-> in.fields[3]]

\* parse_scalar and parse_value find the same value and consume as many bytes, or both
\* fail, on all bytes ("cross-checked by unit tests rather than layered", decode.rs:6).
DecodersAgree == Picked("bytes") => Agree(in.tag, in.bytes)

\* Bytes that decode are the encoding of what they decode to, and a value that encodes
\* decodes to itself whatever follows, except a UserDefined subtype below 0x80.
ScalarRoundTrips ==
  /\ Picked("bytes") => Canonical(in.tag, in.bytes)
  /\ Picked("value") => ReadsBack(in.value, in.suffix)

\* Conversions to integer types yield the number itself or an error, the Double 2^63
\* excepted; those to f64, f32 and Duration keep every number the type holds; what From made of a native value comes back, whichever of the two
\* crates' tables was used (mongo_common's convert.rs:12-102, wirebson's:12-110).
IntegersExact ==
  /\ Picked("number") => ExactTo(in.type, in.scalar)
  /\ Picked("number") => FloatReturns(in.scalar) /\ DurationAgrees(in.scalar)
  /\ Picked("native") \/ Picked("text") \/ Picked("uuid") => FromReturns(in.type, in.v)

\* "narrowing conversions are range-checked and return OutOfRange" (convert.rs:4-5): no
\* number becomes another one.
NarrowingRangeChecked ==
  Picked("number") /\ Numeric(in.scalar) =>
    LET r == TryFromBson(in.type, in.scalar) IN r.ok => 2 * r.v = Twice(in.scalar)

\* DateTime to SystemTime and back is the identity but for i64::MIN, which panics in a
\* build with overflow checks.  SystemTime to DateTime truncates towards the epoch; it is
\* lossless for exactly the whole milliseconds of an i64, not for every time as the
\* comments on From have it ("lossless, infallible", wirebson's convert.rs:3).
TimesKept ==
  Picked("time") =>
    /\ in.ticks \in Native.i64 => DateReturns(in.ticks, in.checks)
    /\ TimeTruncated(in.ticks, in.checks)
    /\ LosslessOnlyFor(in.ticks, in.checks)

\* from_hex undoes what an ObjectId converts to as a String and accepts nothing else but
\* capitals; base64 as rendered in logs decodes to the bytes; and the date and time
\* rendered for a DateTime are those of the Gregorian calendar, before 1970 and across
\* years and centuries (encode.rs:327-381).
TextExact ==
  /\ Picked("hex") => HexInverse(in.text)
  /\ Picked("id") => FromHex(TryString([tag |-> "ObjectId", v |-> in.bytes]).v)
                       = [ok |-> TRUE, id |-> in.bytes]
  /\ Picked("data") => Decode64(Base64(in.data)) = in.data
  /\ Picked("day") => DateExact(in.day)
  /\ Picked("ms") => DatetimeExact(in.ms)

\* add, get, get_mut, remove and replace leave a document that repeats names with the
\* fields a map of lists would have, in order, and doc! builds it pair by pair
\* (document.rs:39-104, macros.rs:95-183).
DocumentLaws ==
  Picked("document") => Laws(in.fields, in.name, in.value) /\ MacrosAgree(in.fields)

\* What the server reads of a command without decoding it (command, get) is what
\* decoding would give, and never comes from behind a malformed field.
RawAccessAgrees == Picked("raw") => RawAgrees(in.raw, in.key)

\* Rendering loses no field of a document the decoder can return, and cuts off every
\* deeper one (encode.rs:132), the same in both layouts.
RendersInFull == Picked("tree") => RendersWhole(in.tree)

\* A document converts to JSON as a whole or to null.
JsonAllOrNothing == Picked("tree") => JsonAgrees(in.tree)
=============================================================================
